----------------------------- MODULE MCUiBackend -----------------------------
(* Two files and three uploads: one can time out, one can be resolved by its *)
(* late event, and one can follow while the old timers are still running.    *)
EXTENDS UiBackend, TLC

CONSTANTS f1, f2, c1, c2

MCCidOf == f1 :> c1 @@ f2 :> c2

===============================================================================
