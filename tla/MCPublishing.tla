----------------------------- MODULE MCPublishing -----------------------------
(* The library and a UI publish the same file with different inputs.  i3     *)
(* and c2 are nobody's: no entry may carry them.                             *)
EXTENDS Publishing, TLC

CONSTANTS c1, c2, i1, i2, i3, pub, ui

MCEnvelope == [cid : Cid, inputs : Inputs]
MCClient == {pub, ui, Tool}
MCPublishes ==
    (pub :> {[cid |-> c1, inputs |-> i1]})
    @@ (ui :> {[cid |-> c1, inputs |-> i2]})
MCMaxAttempts == (pub :> 4) @@ (ui :> 1) @@ (Tool :> 1)
MCRequest == UNION {[1..n -> {Ask(e) : e \in Published}] : n \in 1..BatchSize}
MCPolicy == [initial_backoff |-> 1, backoff_multiplier |-> 2, max_backoff |-> 3]

===============================================================================
