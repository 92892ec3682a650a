-------------------------- MODULE MCRegistryAgreement --------------------------
(* Two CIDs, each with its address, and one address that belongs to no CID.  *)
EXTENDS RegistryAgreement, TLC

CONSTANTS c1, c2, a1, a2, a3

MCPdaOf == c1 :> a1 @@ c2 :> a2

===============================================================================
