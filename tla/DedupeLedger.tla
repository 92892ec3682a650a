----------------------------- MODULE DedupeLedger -----------------------------
(***************************************************************************)
(* What the durable dedupe store promises to its callers (the "Durable     *)
(* dedupe contract" of indexing/API.md): a set of envelope hashes that     *)
(* outlives the processes, and of which an entry that was answered New is  *)
(* never lost.  BatchLoop has it for one process, with its torn lines.     *)
(***************************************************************************)
CONSTANTS Process, Hash

VARIABLES
    recorded,   \* what a process finds that opens the store
    seen,       \* what each process remembers
    taken       \* hashes that were answered New

vars == <<recorded, seen, taken>>

Init ==
    /\ recorded = {}
    /\ seen = [p \in Process |-> {}]
    /\ taken = {}

Open(p) ==
    /\ seen' = [seen EXCEPT ![p] = recorded]
    /\ UNCHANGED <<recorded, taken>>

Remember(p, h) ==
    /\ h \notin seen[p]
    /\ seen' = [seen EXCEPT ![p] = @ \cup {h}]
    /\ UNCHANGED <<recorded, taken>>

Store(p, h) ==
    /\ h \in seen[p]
    /\ recorded' = recorded \cup {h}
    /\ UNCHANGED <<seen, taken>>

Take(p, h) ==
    /\ h \in seen[p] \cap recorded
    /\ taken' = taken \cup {h}
    /\ UNCHANGED <<recorded, seen>>

Stop(p) ==
    /\ seen' = [seen EXCEPT ![p] = {}]
    /\ UNCHANGED <<recorded, taken>>

\* The machine goes down: what was not yet answered New may be gone.
Lose ==
    /\ recorded' \in SUBSET recorded
    /\ taken \subseteq recorded'
    /\ seen' = [p \in Process |-> {}]
    /\ UNCHANGED taken

Next ==
    \/ \E p \in Process : Open(p) \/ Stop(p)
    \/ \E p \in Process, h \in Hash : Remember(p, h) \/ Store(p, h) \/ Take(p, h)
    \/ Lose

Spec == Init /\ [][Next]_vars

===============================================================================
