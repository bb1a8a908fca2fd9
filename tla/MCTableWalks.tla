---------------------------- MODULE MCTableWalks ----------------------------
(* Every table of up to MaxKeys keys, in every order. *)
EXTENDS TableWalks
CONSTANT MaxKeys
MCTables == UNION {{t \in [1..n -> Key] : IsInjective(t)} : n \in 0..MaxKeys}
=============================================================================
