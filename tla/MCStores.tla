------------------------------- MODULE MCStores -------------------------------
(***************************************************************************)
(* The instance of SqliteStores for TLC: two operations that share a store *)
(* object, and one of another process.                                     *)
(***************************************************************************)
EXTENDS SqliteStores, TLC

CONSTANTS o1, o2, o3, n1, n2

TwoAndOne == o1 :> n1 @@ o2 :> n1 @@ o3 :> n2
=============================================================================
