----------------------------- MODULE RegistryClient -----------------------------
(***************************************************************************)
(* What one user of the RegistryClient trait (indexing/src/traits.rs), who *)
(* calls anchor_batch under with_retry (indexing/src/retry.rs), may count  *)
(* on and must reckon with, whatever client is behind the trait: only the  *)
(* CIDs of its calls, its answers and of the transactions under way.       *)
(* LezAdapter provides this and BatchLoop is written against it.           *)
(***************************************************************************)
EXTENDS Naturals

CONSTANTS
    Cid,
    MaxAttempts     \* RetryPolicy::max_attempts

VARIABLES
    phase,      \* "closed": no call; "submit", "await": before, after its transaction
    asked,      \* the CIDs of the call
    attempt,    \* with_retry's attempt, 0 when the call has returned
    answered,   \* the CIDs of the calls that returned Ok and are remembered
    mempool,    \* the transactions under way, each the set of its CIDs
    anchored    \* the CIDs with an entry

callVars == <<phase, asked, attempt, answered>>
chainVars == <<mempool, anchored>>
vars == <<callVars, chainVars>>

Init ==
    /\ phase = "closed" /\ asked = {} /\ attempt = 0 /\ answered = {}
    /\ mempool = {} /\ anchored = {}

-------------------------------------------------------------------------------
(* The call.                                                               *)

Open == phase \in {"submit", "await"}

\* A new call; the caller may keep the earlier answers or drop them.
Ask(cids) ==
    /\ phase = "closed"
    /\ cids # {}
    /\ phase' = "submit" /\ asked' = cids /\ attempt' = 1
    /\ answered' \in {answered, {}}
    /\ UNCHANGED chainVars

\* An attempt submits one transaction for all its CIDs ...
Submit ==
    /\ phase = "submit"
    /\ phase' = "await"
    /\ mempool' = mempool \cup {asked}
    /\ UNCHANGED <<asked, attempt, answered, anchored>>

\* ... and is over with Ok only when each of them has an entry.
Succeed ==
    /\ phase = "await"
    /\ asked \subseteq anchored
    /\ answered' = answered \cup asked
    /\ phase' = "closed" /\ asked' = {} /\ attempt' = 0
    /\ UNCHANGED chainVars

\* An attempt that fails while it submits may have submitted.
MaybeSubmitted ==
    /\ mempool' \in IF phase = "submit" THEN {mempool, mempool \cup {asked}} ELSE {mempool}
    /\ UNCHANGED anchored

\* The next attempt submits again: transactions of one call pile up, but no
\* more than max_attempts of them.
Retry ==
    /\ Open
    /\ attempt < MaxAttempts
    /\ phase' = "submit" /\ attempt' = attempt + 1
    /\ MaybeSubmitted
    /\ UNCHANGED <<asked, answered>>

\* The call returns an error, or the caller dies and forgets its answers; what
\* was submitted stays under way.
GiveUp ==
    /\ phase' = "closed" /\ asked' = {} /\ attempt' = 0
    /\ answered' \in {answered, {}}
    /\ MaybeSubmitted

-------------------------------------------------------------------------------
(* The chain, and the other callers.                                       *)

\* A transaction leaves the mempool unless another for the same CIDs is there.
Leaves(batch) == mempool' \in {mempool, mempool \ {batch}}

Lands(batch) ==
    /\ batch \in mempool
    /\ anchored' = anchored \cup batch
    /\ Leaves(batch)
    /\ UNCHANGED callVars

IsLost(batch) ==
    /\ batch \in mempool
    /\ Leaves(batch)
    /\ UNCHANGED <<callVars, anchored>>

SomebodySubmits(batch) ==
    /\ mempool' = mempool \cup {batch}
    /\ UNCHANGED <<callVars, anchored>>

SomebodyAnchors(c) ==
    /\ anchored' = anchored \cup {c}
    /\ UNCHANGED <<callVars, mempool>>

-------------------------------------------------------------------------------

Next ==
    \/ \E cids \in SUBSET Cid : Ask(cids) \/ SomebodySubmits(cids)
    \/ Submit \/ Succeed \/ Retry \/ GiveUp
    \/ \E batch \in mempool : Lands(batch) \/ IsLost(batch)
    \/ \E c \in Cid : SomebodyAnchors(c)

Spec == Init /\ [][Next]_vars

===============================================================================
