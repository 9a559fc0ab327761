--------------------------- MODULE MCStoreBootstrap ---------------------------
(* Three calls, one of each mode. *)
EXTENDS StoreBootstrap, TLC

CONSTANTS c1, c2, c3

OneOfEach == c1 :> "auto" @@ c2 :> "create" @@ c3 :> "existing"
===============================================================================
