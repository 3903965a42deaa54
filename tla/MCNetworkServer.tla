-------------------------- MODULE MCNetworkServer --------------------------
(***************************************************************************)
(* NetworkServer for TLC.  The connections are interchangeable: what holds *)
(* in every behaviour for one of them holds for each.                      *)
(***************************************************************************)
EXTENDS NetworkServer

AnyConn == CHOOSE c \in Conns : TRUE

\* RequestsServedFor for one connection: the requests of a client are read, whatever
\* the others do and wherever the loop moves its socket (network_server.c:94-118).
RequestsServed == RequestsServedFor(AnyConn)

\* ClientsAcceptedFor for one connection: the place that an empty array loses does not
\* keep a client out for ever (network_server.c:66-83, 152-170).
ClientsAccepted == ClientsAcceptedFor(AnyConn)
=============================================================================
