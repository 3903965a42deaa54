---------------------------- MODULE MCClientStub ----------------------------
(***************************************************************************)
(* ClientStub for TLC.  Servers are interchangeable; descriptors are not,  *)
(* as a new socket gets the lowest one.                                    *)
(***************************************************************************)
EXTENDS ClientStub, TLC

ServerSymmetry == Permutations(Servers)
=============================================================================
