--------------------------- MODULE NetworkServer ---------------------------
(***************************************************************************)
(* The main loop of a tree_server (source/server/network_server.c): one    *)
(* thread polls the listening socket and an array of client sockets,       *)
(* accepts at most one connection in each round, answers the requests of   *)
(* the clients that have one in the order of the array, and moves the      *)
(* sockets it closed to the end of the array.                              *)
(*                                                                         *)
(* The clients connect, send and close while the loop runs.  A message is  *)
(* a size and a buffer (source/inet-private.c): its first bytes make poll  *)
(* report the socket, and reading it blocks until the last has come.  What *)
(* is read, and the answer, are the business of TreeSkel.                  *)
(***************************************************************************)
EXTENDS Integers, Sequences, SequencesExt, FiniteSetsExt

CONSTANTS
  Conns,              \* connections; one that the server closed may be opened again
  NoFd,               \* the descriptor -1
  MAX_CLIENT_SOCKETS  \* 5 in the code

ASSUME NetworkServerAssumption ==
  NoFd \notin Conns /\ MAX_CLIENT_SOCKETS \in Nat \ {0}

VARIABLES
  pc,                   \* next step of network_main_loop
  sockets,              \* pollfds 1 to MAX_CLIENT_SOCKETS
  acceptable,           \* the listening socket has POLLIN in its revents
  client_sockets_count,
  i,                    \* the socket that the loop over the clients is at
  some_fds_closed,
  backlog,              \* the connections to accept, oldest first
  peer                  \* what the client at the other end has done

loopVars == <<pc, sockets, acceptable, client_sockets_count, i, some_fds_closed>>
vars == <<loopVars, backlog, peer>>

Slots == 1 .. MAX_CLIENT_SOCKETS

\* "none": not connected.  "idle": nothing to read.  "sending": part of a request.
\* "request": a whole request.  "last": a request and then the end of the
\* connection.  "closed": the end of the connection, or an error.
PeerStates == {"none", "idle", "sending", "request", "last", "closed"}
HasInput(c) == peer[c] \in {"sending", "request", "last", "closed"}

Pollfds == [fd: Conns \cup {NoFd}, pollin: BOOLEAN]

\* The connections that have a place in the array.
Connected == {sockets[s].fd : s \in Slots} \ {NoFd}

Init ==
  /\ pc = "poll"
  /\ sockets = [s \in Slots |-> [fd |-> NoFd, pollin |-> FALSE]]
  /\ acceptable = FALSE
  /\ client_sockets_count = 0 /\ i = 1 /\ some_fds_closed = FALSE
  /\ backlog = <<>>
  /\ peer = [c \in Conns |-> "none"]

-----------------------------------------------------------------------------
(* The clients.                                                            *)

Connect(c) ==
  /\ peer[c] = "none"
  /\ peer' = [peer EXCEPT ![c] = "idle"]
  /\ backlog' = Append(backlog, c)
  /\ UNCHANGED loopVars

StartRequest(c) ==
  /\ peer[c] = "idle"
  /\ peer' = [peer EXCEPT ![c] = "sending"]
  /\ UNCHANGED <<loopVars, backlog>>

CompleteRequest(c) ==
  /\ peer[c] = "sending"
  /\ peer' = [peer EXCEPT ![c] = "request"]
  /\ UNCHANGED <<loopVars, backlog>>

Disconnect(c) ==
  /\ peer[c] \in {"idle", "sending", "request"}
  /\ peer' = [peer EXCEPT ![c] = IF peer[c] = "request" THEN "last" ELSE "closed"]
  /\ UNCHANGED <<loopVars, backlog>>

-----------------------------------------------------------------------------
(* The server.                                                             *)

\* Fault: the listening socket is not counted, and the last client not polled.
Poll_ForgetsLast ==
  LET ready(s) == sockets[s].fd # NoFd /\ HasInput(sockets[s].fd) IN
  /\ pc = "poll"
  /\ backlog # <<>> \/ \E s \in 1 .. client_sockets_count - 1 : ready(s)
  /\ acceptable' = (backlog # <<>>)
  /\ sockets' = [s \in Slots |->
                   IF s < client_sockets_count
                   THEN [sockets[s] EXCEPT !.pollin = ready(s)] ELSE sockets[s]]
  /\ pc' = "listening"
  /\ UNCHANGED <<client_sockets_count, i, some_fds_closed, backlog, peer>>

\* poll returns when a socket below 1 + client_sockets_count has something to
\* read.  It clears the revents of negative descriptors.
Poll ==
  LET ready(s) == sockets[s].fd # NoFd /\ HasInput(sockets[s].fd) IN
  /\ pc = "poll"
  /\ backlog # <<>> \/ \E s \in 1 .. client_sockets_count : ready(s)
  /\ acceptable' = (backlog # <<>>)
  /\ sockets' = [s \in Slots |->
                   IF s <= client_sockets_count
                   THEN [sockets[s] EXCEPT !.pollin = ready(s)] ELSE sockets[s]]
  /\ pc' = "listening"
  /\ UNCHANGED <<client_sockets_count, i, some_fds_closed, backlog, peer>>

\* Fault: one socket too many.
HasRoom_ForOneMore == client_sockets_count <= MAX_CLIENT_SOCKETS

HasRoom == client_sockets_count < MAX_CLIENT_SOCKETS

\* Fault: revents keeps what the array had at that place.
Accept_StaleRevents ==
  /\ pc = "listening" /\ acceptable /\ HasRoom
  /\ sockets' = [sockets EXCEPT ![client_sockets_count + 1].fd = Head(backlog)]
  /\ client_sockets_count' = client_sockets_count + 1
  /\ backlog' = Tail(backlog)
  /\ pc' = "clients"
  /\ UNCHANGED <<acceptable, i, some_fds_closed, peer>>

\* _handle_listening_socket_events.
Accept ==
  /\ pc = "listening" /\ acceptable /\ HasRoom
  /\ sockets' = [sockets EXCEPT ![client_sockets_count + 1] =
                   [fd |-> Head(backlog), pollin |-> FALSE]]
  /\ client_sockets_count' = client_sockets_count + 1
  /\ backlog' = Tail(backlog)
  /\ pc' = "clients"
  /\ UNCHANGED <<acceptable, i, some_fds_closed, peer>>

\* accept returns -1, which is stored all the same; nothing is accepted.
AcceptFails ==
  /\ pc = "listening" /\ acceptable /\ HasRoom
  /\ sockets' = [sockets EXCEPT ![client_sockets_count + 1].fd = NoFd]
  /\ pc' = "clients"
  /\ UNCHANGED <<acceptable, client_sockets_count, i, some_fds_closed, backlog, peer>>

SkipAccept ==
  /\ pc = "listening" /\ ~(acceptable /\ HasRoom)
  /\ pc' = "clients"
  /\ UNCHANGED <<sockets, acceptable, client_sockets_count, i, some_fds_closed,
                 backlog, peer>>

AtClient == pc = "clients" /\ i <= client_sockets_count
Handling == AtClient /\ sockets[i].fd # NoFd /\ sockets[i].pollin

SkipClient ==
  /\ AtClient /\ ~Handling
  /\ i' = i + 1
  /\ UNCHANGED <<pc, sockets, acceptable, client_sockets_count, some_fds_closed,
                 backlog, peer>>

\* network_receive has the whole request, invoke answers it and network_send
\* succeeds: the client may have closed the connection by then.
HandleRequest ==
  LET c == sockets[i].fd IN
  /\ Handling
  /\ peer[c] \in {"request", "last"}
  /\ peer' = [peer EXCEPT ![c] = IF peer[c] = "last" THEN "closed" ELSE "idle"]
  /\ i' = i + 1
  /\ UNCHANGED <<pc, sockets, acceptable, client_sockets_count, some_fds_closed,
                 backlog>>

\* The end of the connection, or any error in reading or answering.
HandleFails ==
  LET c == sockets[i].fd IN
  /\ Handling
  /\ peer[c] \in {"request", "last", "closed"}
  /\ peer' = [peer EXCEPT ![c] = "none"]
  /\ sockets' = [sockets EXCEPT ![i].fd = NoFd]
  /\ some_fds_closed' = TRUE
  /\ i' = i + 1
  /\ UNCHANGED <<pc, acceptable, client_sockets_count, backlog>>

\* One round of the loop that compacts the array a.slots up to a.last: a closed
\* socket at s goes to a.last, and those after it move one place down.
\* Fault: the last connected socket fills the gap.
MoveToEnd_Swap(a, s) ==
  IF a.slots[s].fd # NoFd THEN a
  ELSE [slots |-> [a.slots EXCEPT ![s] = a.slots[a.last], ![a.last] = a.slots[s]],
        last  |-> a.last - 1]

\* Fault: the socket after the closed one is written over by its successor.
MoveToEnd_OffByOne(a, s) ==
  IF a.slots[s].fd # NoFd THEN a
  ELSE [slots |-> [j \in Slots |-> CASE j \in s .. a.last - 2 -> a.slots[j + 2]
                                     [] j = a.last            -> a.slots[s]
                                     [] OTHER                 -> a.slots[j]],
        last  |-> a.last - 1]

MoveToEnd(a, s) ==
  IF a.slots[s].fd # NoFd THEN a
  ELSE [slots |-> [j \in Slots |-> CASE j \in s .. a.last - 1 -> a.slots[j + 1]
                                     [] j = a.last            -> a.slots[s]
                                     [] OTHER                 -> a.slots[j]],
        last  |-> a.last - 1]

\* index_of_last_connected starts at the end of the array when none is.
LastConnected ==
  LET connected == {s \in Slots : sockets[s].fd # NoFd}
  IN  IF connected = {} THEN MAX_CLIENT_SOCKETS ELSE Max(connected)

\* The array after n rounds of the loop, which goes down from the place before the
\* last connected one.
Compacting[n \in 0 .. LastConnected - 1] ==
  IF n = 0 THEN [slots |-> sockets, last |-> LastConnected]
  ELSE MoveToEnd(Compacting[n - 1], LastConnected - n)

Compacted == Compacting[LastConnected - 1]

\* Fault: client_sockets_count stays as it was.
EndRound_KeepsCount ==
  /\ pc = "clients" /\ i > client_sockets_count
  /\ sockets' = IF some_fds_closed THEN Compacted.slots ELSE sockets
  /\ some_fds_closed' = FALSE
  /\ i' = 1
  /\ pc' = "poll"
  /\ UNCHANGED <<acceptable, client_sockets_count, backlog, peer>>

\* The rest of _handle_client_sockets_events.
EndRound ==
  /\ pc = "clients" /\ i > client_sockets_count
  /\ IF some_fds_closed
     THEN sockets' = Compacted.slots /\ client_sockets_count' = Compacted.last
     ELSE UNCHANGED <<sockets, client_sockets_count>>
  /\ some_fds_closed' = FALSE
  /\ i' = 1
  /\ pc' = "poll"
  /\ UNCHANGED <<acceptable, backlog, peer>>

\* A signal makes poll fail, and every client socket is closed.
Interrupt ==
  /\ pc = "poll"
  /\ pc' = "returned"
  /\ peer' = [c \in Conns |-> IF c \in Connected THEN "none" ELSE peer[c]]
  /\ UNCHANGED <<sockets, acceptable, client_sockets_count, i, some_fds_closed,
                 backlog>>

-----------------------------------------------------------------------------

Clients ==
  \E c \in Conns : Connect(c) \/ StartRequest(c) \/ CompleteRequest(c) \/ Disconnect(c)

Loop == Poll \/ Accept \/ AcceptFails \/ SkipAccept \/ SkipClient \/ HandleRequest
        \/ HandleFails \/ EndRound

Next == Clients \/ Loop \/ Interrupt

Spec == Init /\ [][Next]_vars

\* The loop runs, accept does not fail for ever, and a client that began a
\* request completes it or goes.
Fairness ==
  /\ WF_vars(Loop)
  /\ SF_vars(Accept)
  /\ \A c \in Conns : WF_vars(peer[c] = "sending" /\ (CompleteRequest(c) \/ Disconnect(c)))

FairSpec == Spec /\ Fairness

-----------------------------------------------------------------------------
(* Properties.                                                             *)

\* Every variable has its type, and the count stays within the array.
TypeOK ==
  /\ pc \in {"poll", "listening", "clients", "returned"}
  /\ sockets \in [Slots -> Pollfds]
  /\ acceptable \in BOOLEAN
  /\ client_sockets_count \in 0 .. MAX_CLIENT_SOCKETS
  /\ i \in 1 .. MAX_CLIENT_SOCKETS + 1
  /\ some_fds_closed \in BOOLEAN
  /\ backlog \in Seq(Conns)
  /\ peer \in [Conns -> PeerStates]

\* However sockets close and the array is compacted, every open connection is
\* polled: it waits to be accepted, or it has exactly one place in the array,
\* below client_sockets_count (network_server.c:148-171, 187).
EveryConnectionPolled ==
  pc # "returned" =>
    \A c \in Conns :
      LET places == {s \in Slots : sockets[s].fd = c} IN
      IF peer[c] = "none" \/ c \in ToSet(backlog)
      THEN places = {}
      ELSE \E s \in 1 .. client_sockets_count : places = {s}

\* The loop reads only from sockets that have something to read, although revents
\* may be older than the descriptor at its place: the blocking read of an idle
\* client would stop the server (network_server.c:99-102, 135-137).
ReadsOnlyWithInput == Handling => HasInput(sockets[i].fd)

\* At most one place of the array is lost to a socket that was closed, and only
\* the first (network_server.c:152-170).
AtMostOnePlaceLost ==
  pc = "poll" => \A s \in 1 .. client_sockets_count : sockets[s].fd = NoFd => s = 1

\* The connections keep the order in which they were accepted, as places are
\* closed and moved: requests of one round are handled in that order, and the
\* operations that the primary replicates come on a connection each.
AcceptanceOrderKept ==
  [][ \A s, t \in Slots :
        s < t /\ {sockets[s].fd, sockets[t].fd} \subseteq Connected \cap Connected' =>
          \E m, n \in Slots : /\ m < n
                              /\ sockets'[m].fd = sockets[s].fd
                              /\ sockets'[n].fd = sockets[t].fd ]_vars

\* The connections in the array are below the count, each at one place, and are
\* those that were accepted and not closed; while none was closed in this round, only
\* the first place may be empty.
PlacesConsistent ==
  /\ \A s \in Slots : s > client_sockets_count => sockets[s].fd = NoFd
  /\ \A s, t \in Slots : sockets[s].fd = sockets[t].fd /\ sockets[s].fd # NoFd => s = t
  /\ IsInjective(backlog)
  /\ ToSet(backlog) \cap Connected = {}
  /\ \A c \in Conns : peer[c] # "none" <=> c \in ToSet(backlog) \cup Connected
  /\ \A s \in 1 .. client_sockets_count :
       sockets[s].fd = NoFd => s = 1 \/ some_fds_closed

\* What the loop has still to look at in this round.
Ahead(s) ==
  s <= client_sockets_count /\ (pc = "listening" \/ (pc = "clients" /\ i <= s))

\* Until the loop has come to it, a socket that poll reported has its input.
InputsConsistent ==
  /\ \A s \in Slots :
       Ahead(s) /\ sockets[s].fd # NoFd /\ sockets[s].pollin => HasInput(sockets[s].fd)
  /\ pc = "listening" /\ acceptable => backlog # <<>>

\* The inductive invariant behind the properties above.
IInv ==
  /\ TypeOK
  /\ IF pc = "clients" THEN i <= client_sockets_count + 1
                        ELSE i = 1 /\ ~some_fds_closed
  /\ pc # "returned" => PlacesConsistent /\ InputsConsistent

\* A request that a connected client sent is read, unless the server stops.
RequestsServedFor(c) ==
  c \in Connected /\ peer[c] = "request" ~> pc = "returned" \/ peer[c] # "request"

\* A client is accepted in the end if now and then all those before it have gone,
\* although an empty array is taken to have one client.
ClientsAcceptedFor(c) ==
  []<>(Connected = {}) => (c \in ToSet(backlog) ~> pc = "returned" \/ c \in Connected)
=============================================================================
