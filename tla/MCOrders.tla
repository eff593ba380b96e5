------------------------------ MODULE MCOrders ------------------------------
(***************************************************************************)
(* Small instances of Orders for TLC.                                      *)
(***************************************************************************)
EXTENDS Orders, TLC

Symmetry == Permutations(Quotes) \cup Permutations(Refs) \cup
            Permutations(Workers) \cup Permutations(OpsUsers)
=============================================================================
