--------------------------- MODULE MCServerRoles ---------------------------
(***************************************************************************)
(* ServerRoles for TLC.                                                    *)
(***************************************************************************)
EXTENDS ServerRoles

\* The servers are interchangeable, so that what holds of one backup holds of all:
\* one that listens does not sleep through the loss of the primary
\* (zk-private.c:58-70).
PrimaryRestored == PrimaryRestoredFor(CHOOSE s \in Servers : TRUE)
=============================================================================
