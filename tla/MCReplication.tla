--------------------------- MODULE MCReplication ---------------------------
(***************************************************************************)
(* Replication for TLC.                                                    *)
(***************************************************************************)
EXTENDS Replication, TLC

ServerSymmetry == Permutations(Servers)
=============================================================================
