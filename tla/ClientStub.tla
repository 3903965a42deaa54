----------------------------- MODULE ClientStub -----------------------------
(***************************************************************************)
(* A tree_client and its stub (source/client/tree_client.c, client_stub.c, *)
(* network_client.c): one connection to the primary server, for writes,    *)
(* and one to the backup server, for reads and verify.                     *)
(*                                                                         *)
(* Two threads share the stub without a lock.  The main thread connects,   *)
(* runs commands and retries; the thread of the ZooKeeper client is told   *)
(* that the children of /kvstore changed, and closes both connections.     *)
(* The servers are what a client sees of ServerRoles: each is a process    *)
(* that starts once, takes a free role, dies, or is promoted.              *)
(***************************************************************************)
EXTENDS Integers

CONSTANTS
  Servers,   \* tree_server processes, and their addresses
  NoServer,  \* no address, or the end of a descriptor that is closed
  Fds        \* the descriptors the client may have for its sockets

ASSUME ClientStubAssumption ==
  NoServer \notin Servers /\ Fds \subseteq Nat \ {0}

VARIABLES
  mpc,        \* next step of the main thread
  kind,       \* the command being run: "none", a "read" or a "write"
  asked,      \* the server that got the request of the command
  found,      \* the addresses that servers_retry_connect read, by role
  wpc,        \* next step of the ZooKeeper thread
  wfd,        \* the descriptor that this thread is about to close
  ip,         \* the state of the two ip_address pointers of rtree
  address,    \* the addresses last parsed
  sockfd,     \* the two sockfd of rtree
  allocated,  \* rtree is allocated
  connected,  \* are_servers_connected
  listening,  \* servers_listener is set
  peer,       \* the descriptors of the process, and the server at the other end
  status,     \* each server: "new", "up" or "down"
  znode,      \* /kvstore/primary and /kvstore/backup
  watch,      \* ZooKeeper has a watch of the client on the children of /kvstore
  event,      \* it was triggered, and its watcher not yet called
  missed      \* ghost: a notification met the client while it was connecting

command == <<kind, asked>>
rtree == <<ip, address, sockfd, allocated>>
stub == <<rtree, connected, listening, peer>>
zookeeper == <<status, znode, watch, event>>
vars == <<mpc, command, found, wpc, wfd, stub, zookeeper, missed>>

Roles == {"primary", "backup"}
NoFd == -1

Connecting(m) ==
  m \in {"get_primary", "get_backup", "free_primary", "free_backup", "parse",
         "connect_primary", "connect_backup", "set_connected", "register_listener"}
Quitting(m) == m \in {"close_primary", "close_backup", "clear", "zk_close",
                      "zookeeper_close", "destroy", "exited", "aborted", "crashed"}
Listener(w) == w \in {"load_primary", "close_primary", "load_backup", "close_backup",
                      "clear"}
Notified(w) == Listener(w) \/ w \in {"check_listener", "call_listener"}

IsOpen(fd) == fd \in Fds /\ peer[fd] # NoServer
LowestClosed(fd) == ~IsOpen(fd) /\ \A f \in Fds : f < fd => IsOpen(f)
Held(fd) == \E r \in Roles : sockfd[r] = fd

\* missed, once the threads are at m and w: a retry puts it right, if all the
\* sockets have been closed by then.
Missed(m, w) ==
  \/ Connecting(m) /\ Notified(w)
  \/ missed /\ (mpc = "prompt" /\ m = "get_primary" => \E r \in Roles : IsOpen(sockfd[r]))

MainMoves(from, to) ==
  /\ mpc = from /\ mpc' = to
  /\ missed' = Missed(to, wpc)
  /\ UNCHANGED <<wpc, wfd>>

WatcherMoves(from, to) ==
  /\ wpc = from /\ wpc' = to
  /\ mpc \notin {"exited", "aborted", "crashed"}
  /\ missed' = Missed(mpc, to)
  /\ UNCHANGED <<mpc, command, found>>

Init ==
  /\ mpc = "zk_connect" /\ kind = "none" /\ asked = NoServer
  /\ found = [r \in Roles |-> NoServer]
  /\ wpc = "idle" /\ wfd = NoFd
  /\ ip = [r \in Roles |-> "null"]
  /\ address = [r \in Roles |-> NoServer]
  /\ sockfd = [r \in Roles |-> NoFd]
  /\ allocated = FALSE /\ connected = FALSE /\ listening = FALSE
  /\ peer = [fd \in Fds |-> NoServer]
  /\ status = [s \in Servers |-> "new"]
  /\ znode = [r \in Roles |-> NoServer]
  /\ watch = FALSE /\ event = FALSE
  /\ missed = FALSE

-----------------------------------------------------------------------------
(* The servers, as registered in ZooKeeper.                                *)

ChildrenBecome(nodes) ==
  /\ znode' = nodes
  /\ event' = (event \/ watch) /\ watch' = FALSE
  /\ UNCHANGED <<mpc, command, found, wpc, wfd, stub, missed>>

Register(s) ==
  /\ status[s] = "new"
  /\ \E r \in Roles :
       /\ znode[r] = NoServer /\ (r = "backup" => znode["primary"] # NoServer)
       /\ ChildrenBecome([znode EXCEPT ![r] = s])
  /\ status' = [status EXCEPT ![s] = "up"]

Die(s) ==
  /\ status[s] = "up"
  /\ status' = [status EXCEPT ![s] = "down"]
  /\ UNCHANGED <<mpc, command, found, wpc, wfd, stub, znode, watch, event, missed>>

\* The session of a dead server expires.
Expire(s) ==
  /\ status[s] = "down" /\ \E r \in Roles : znode[r] = s
  /\ ChildrenBecome([r \in Roles |-> IF znode[r] = s THEN NoServer ELSE znode[r]])
  /\ UNCHANGED status

\* A backup creates the znode of the primary, then deletes its own.
Promote(s) ==
  /\ status[s] = "up" /\ znode["backup"] = s
  /\ \/ znode["primary"] = NoServer /\ ChildrenBecome([znode EXCEPT !["primary"] = s])
     \/ znode["primary"] = s /\ ChildrenBecome([znode EXCEPT !["backup"] = NoServer])
  /\ UNCHANGED status

-----------------------------------------------------------------------------
(* The main thread: rtree_connect and servers_retry_connect.               *)

\* zk_connect, which watches the children of /kvstore, and the malloc of rtree.
ZkConnect ==
  /\ MainMoves("zk_connect", "get_primary")
  /\ watch' = TRUE /\ allocated' = TRUE
  /\ UNCHANGED <<command, found, ip, address, sockfd, connected, listening, peer,
                 status, znode, event>>

GetAddress(r) ==
  /\ \/ r = "primary" /\ MainMoves("get_primary", "get_backup")
     \/ r = "backup" /\ MainMoves("get_backup", "free_primary")
  /\ found' = [found EXCEPT ![r] = znode[r]]
  /\ UNCHANGED <<command, stub, zookeeper>>

\* A pointer that was freed before is freed again: the allocator notices, or not.
FreeAddress(r) ==
  /\ \/ r = "primary" /\ MainMoves("free_primary", "free_backup")
     \/ r = "backup" /\ MainMoves("free_backup", "parse")
  /\ ip' = [ip EXCEPT ![r] = IF @ = "null" THEN "null" ELSE "freed"]
  /\ sockfd' = [sockfd EXCEPT ![r] = NoFd]
  /\ UNCHANGED <<command, found, address, allocated, connected, listening, peer,
                 zookeeper>>

FreeAborts(r) ==
  /\ MainMoves(IF r = "primary" THEN "free_primary" ELSE "free_backup", "aborted")
  /\ ip[r] = "freed"
  /\ UNCHANGED <<command, found, stub, zookeeper>>

Returned == IF listening THEN "prompt" ELSE "register_listener"

Parse ==
  /\ MainMoves("parse", "connect_primary")
  /\ \A r \in Roles : found[r] # NoServer
  /\ ip' = [r \in Roles |-> "set"] /\ address' = found
  /\ found' = [r \in Roles |-> NoServer]
  /\ UNCHANGED <<command, sockfd, allocated, connected, listening, peer, zookeeper>>

NotRegistered ==
  /\ MainMoves("parse", Returned)
  /\ \E r \in Roles : found[r] = NoServer
  /\ found' = [r \in Roles |-> NoServer]
  /\ UNCHANGED <<command, stub, zookeeper>>

\* Fault: the primary is connected at the address of the backup.
Connect_SwapsAddress(r) ==
  /\ \/ r = "primary" /\ MainMoves("connect_primary", "connect_backup")
     \/ r = "backup" /\ MainMoves("connect_backup", "set_connected")
  /\ status[address["backup"]] = "up"
  /\ \E fd \in Fds :
       /\ LowestClosed(fd)
       /\ sockfd' = [sockfd EXCEPT ![r] = fd]
       /\ peer' = [peer EXCEPT ![fd] = address["backup"]]
  /\ UNCHANGED <<command, found, ip, address, allocated, connected, listening, zookeeper>>

\* Fault: the result of the comparison with 0 is stored, not the descriptor.
Connect_Precedence(r) ==
  /\ \/ r = "primary" /\ MainMoves("connect_primary", "connect_backup")
     \/ r = "backup" /\ MainMoves("connect_backup", "set_connected")
  /\ status[address[r]] = "up"
  /\ \E fd \in Fds :
       /\ LowestClosed(fd)
       /\ sockfd' = [sockfd EXCEPT ![r] = 0]
       /\ peer' = [peer EXCEPT ![fd] = address[r]]
  /\ UNCHANGED <<command, found, ip, address, allocated, connected, listening, zookeeper>>

\* network_connect: a socket gets the lowest descriptor that is not open.
Connect(r) ==
  /\ \/ r = "primary" /\ MainMoves("connect_primary", "connect_backup")
     \/ r = "backup" /\ MainMoves("connect_backup", "set_connected")
  /\ status[address[r]] = "up"
  /\ \E fd \in Fds :
       /\ LowestClosed(fd)
       /\ sockfd' = [sockfd EXCEPT ![r] = fd]
       /\ peer' = [peer EXCEPT ![fd] = address[r]]
  /\ UNCHANGED <<command, found, ip, address, allocated, connected, listening, zookeeper>>

\* Fault: a backup that cannot be reached is not an error.
ConnectFails_Ignored(r) ==
  /\ \/ r = "primary" /\ MainMoves("connect_primary", Returned)
     \/ r = "backup" /\ MainMoves("connect_backup", "set_connected")
  /\ UNCHANGED <<command, found, stub, zookeeper>>

\* If it is the backup that fails, primary_sockfd becomes -1 before it is closed.
ConnectFails(r) ==
  /\ MainMoves(IF r = "primary" THEN "connect_primary" ELSE "connect_backup", Returned)
  /\ sockfd' = [q \in Roles |-> NoFd]
  /\ UNCHANGED <<command, found, ip, address, allocated, connected, listening, peer,
                 zookeeper>>

SetConnected ==
  /\ MainMoves("set_connected", Returned)
  /\ connected' = TRUE
  /\ UNCHANGED <<command, found, rtree, listening, peer, zookeeper>>

RegisterListener ==
  /\ MainMoves("register_listener", "prompt")
  /\ listening' = TRUE
  /\ UNCHANGED <<command, found, rtree, connected, peer, zookeeper>>

-----------------------------------------------------------------------------
(* The main thread: the commands of tree_client, and rtree_disconnect.     *)

Retry ==
  /\ MainMoves("prompt", "get_primary")
  /\ ~connected
  /\ UNCHANGED <<command, found, stub, zookeeper>>

Command ==
  /\ MainMoves("prompt", "send")
  /\ connected
  /\ kind' \in {"read", "write"}
  /\ UNCHANGED <<asked, found, stub, zookeeper>>

SocketOf(k) == IF k = "write" THEN sockfd["primary"] ELSE sockfd["backup"]

\* network_send_receive up to the reply.
Send ==
  /\ MainMoves("send", "receive")
  /\ IsOpen(SocketOf(kind))
  /\ asked' = peer[SocketOf(kind)]
  /\ UNCHANGED <<kind, found, stub, zookeeper>>

\* The descriptor is closed, or the server is gone.
SendFails ==
  /\ MainMoves("send", "prompt")
  /\ IsOpen(SocketOf(kind)) => status[peer[SocketOf(kind)]] = "down"
  /\ kind' = "none"
  /\ UNCHANGED <<asked, found, stub, zookeeper>>

\* The reply, or any failure to read it: either way the command is over.
Receive ==
  /\ MainMoves("receive", "prompt")
  /\ kind' = "none" /\ asked' = NoServer
  /\ UNCHANGED <<found, stub, zookeeper>>

Quit ==
  /\ MainMoves("prompt", "close_primary")
  /\ UNCHANGED <<command, found, stub, zookeeper>>

\* The descriptors after close(fd), of any fd.
ClosedFd(fd) == [f \in Fds |-> IF f = fd THEN NoServer ELSE peer[f]]

CloseSocket(r) ==
  /\ \/ r = "primary" /\ MainMoves("close_primary", "close_backup")
     \/ r = "backup" /\ MainMoves("close_backup", "clear")
  /\ peer' = ClosedFd(sockfd[r])
  /\ UNCHANGED <<command, found, rtree, connected, listening, zookeeper>>

\* Fault: rtree is freed before zk_close.
ClearConnected_Frees ==
  /\ MainMoves("clear", "zk_close")
  /\ connected' = FALSE /\ allocated' = FALSE
  /\ UNCHANGED <<command, found, ip, address, sockfd, listening, peer, zookeeper>>

ClearConnected ==
  /\ MainMoves("clear", "zk_close")
  /\ connected' = FALSE
  /\ UNCHANGED <<command, found, rtree, listening, peer, zookeeper>>

ZkClose ==
  /\ MainMoves("zk_close", "zookeeper_close")
  /\ listening' = FALSE
  /\ UNCHANGED <<command, found, rtree, connected, peer, zookeeper>>

\* It waits for the ZooKeeper thread to end.
ZookeeperClose ==
  /\ MainMoves("zookeeper_close", "destroy")
  /\ wpc = "idle"
  /\ watch' = FALSE /\ event' = FALSE
  /\ UNCHANGED <<command, found, stub, status, znode>>

\* _rtree_destroy frees the addresses once more if a failed retry freed them.
Destroy ==
  /\ \/ MainMoves("destroy", "exited")
     \/ MainMoves("destroy", "aborted") /\ \E r \in Roles : ip[r] = "freed"
  /\ allocated' = FALSE
  /\ UNCHANGED <<command, found, ip, address, sockfd, connected, listening, peer,
                 zookeeper>>

-----------------------------------------------------------------------------
(* The ZooKeeper thread: zk_children_watcher and on_servers_changed.       *)

\* Fault: the children are watched again only after the listener has run.
Notify_WatchesLater ==
  /\ WatcherMoves("idle", "check_listener")
  /\ event
  /\ event' = FALSE
  /\ UNCHANGED <<wfd, stub, status, znode, watch>>

Notify ==
  /\ WatcherMoves("idle", "watch_again")
  /\ event
  /\ event' = FALSE
  /\ UNCHANGED <<wfd, stub, status, znode, watch>>

WatchAgain ==
  /\ WatcherMoves("watch_again", "check_listener")
  /\ watch' = TRUE
  /\ UNCHANGED <<wfd, stub, status, znode, event>>

CheckListener ==
  /\ WatcherMoves("check_listener", IF listening THEN "call_listener" ELSE "idle")
  /\ UNCHANGED <<wfd, stub, zookeeper>>

CallListener ==
  /\ WatcherMoves("call_listener", "load_primary")
  /\ listening
  /\ UNCHANGED <<wfd, stub, zookeeper>>

\* zk_close cleared the pointer after zk_children_watcher had looked at it.
CallNull ==
  /\ wpc = "call_listener" /\ ~listening
  /\ mpc' = "crashed" /\ wpc' = "idle"
  /\ UNCHANGED <<command, found, wfd, stub, zookeeper, missed>>

LoadSocket(r) ==
  /\ \/ r = "primary" /\ WatcherMoves("load_primary", "close_primary")
     \/ r = "backup" /\ WatcherMoves("load_backup", "close_backup")
  /\ wfd' = sockfd[r]
  /\ UNCHANGED <<stub, zookeeper>>

\* Fault: the backup's socket stays open.
CloseLoaded_PrimaryOnly ==
  /\ \/ WatcherMoves("close_primary", "load_backup") /\ peer' = ClosedFd(wfd)
     \/ WatcherMoves("close_backup", "clear") /\ UNCHANGED peer
  /\ wfd' = NoFd
  /\ UNCHANGED <<rtree, connected, listening, zookeeper>>

\* The socket may have been closed, and its descriptor be that of another, by now.
CloseLoaded ==
  /\ \/ WatcherMoves("close_primary", "load_backup")
     \/ WatcherMoves("close_backup", "clear")
  /\ peer' = ClosedFd(wfd) /\ wfd' = NoFd
  /\ UNCHANGED <<rtree, connected, listening, zookeeper>>

Disconnected ==
  /\ WatcherMoves("clear", "idle")
  /\ connected' = FALSE
  /\ UNCHANGED <<wfd, rtree, listening, peer, zookeeper>>

-----------------------------------------------------------------------------

MainThread ==
  \/ ZkConnect \/ Parse \/ NotRegistered \/ SetConnected \/ RegisterListener
  \/ \E r \in Roles : \/ GetAddress(r) \/ FreeAddress(r) \/ FreeAborts(r)
                      \/ Connect(r) \/ ConnectFails(r) \/ CloseSocket(r)
  \/ Retry \/ Command \/ Send \/ SendFails \/ Receive
  \/ Quit \/ ClearConnected \/ ZkClose \/ ZookeeperClose \/ Destroy

ZookeeperThread ==
  \/ Notify \/ WatchAgain \/ CheckListener \/ CallListener \/ CallNull
  \/ (\E r \in Roles : LoadSocket(r)) \/ CloseLoaded \/ Disconnected

Environment ==
  \E s \in Servers : Register(s) \/ Die(s) \/ Expire(s) \/ Promote(s)

Next == MainThread \/ ZookeeperThread \/ Environment

Spec == Init /\ [][Next]_vars

-----------------------------------------------------------------------------
(* Properties.                                                             *)

\* Every variable has its type.
TypeOK ==
  /\ mpc \in {"zk_connect", "get_primary", "get_backup", "free_primary",
              "free_backup", "parse", "connect_primary", "connect_backup",
              "set_connected", "register_listener", "prompt", "send", "receive",
              "close_primary", "close_backup", "clear", "zk_close",
              "zookeeper_close", "destroy", "exited", "aborted", "crashed"}
  /\ wpc \in {"idle", "watch_again", "check_listener", "call_listener",
              "load_primary", "close_primary", "load_backup", "close_backup", "clear"}
  /\ kind \in {"none", "read", "write"} /\ asked \in Servers \cup {NoServer}
  /\ found \in [Roles -> Servers \cup {NoServer}]
  /\ ip \in [Roles -> {"null", "set", "freed"}]
  /\ address \in [Roles -> Servers \cup {NoServer}]
  /\ sockfd \in [Roles -> Fds \cup {NoFd}] /\ wfd \in Fds \cup {NoFd}
  /\ allocated \in BOOLEAN /\ connected \in BOOLEAN /\ listening \in BOOLEAN
  /\ watch \in BOOLEAN /\ event \in BOOLEAN /\ missed \in BOOLEAN
  /\ peer \in [Fds -> Servers \cup {NoServer}]
  /\ status \in [Servers -> {"new", "up", "down"}]
  /\ znode \in [Roles -> Servers \cup {NoServer}]

\* While the client believes to be connected it has two sockets, open and leading
\* to the servers whose addresses it read, whatever retries and notifications came
\* before: unless a notification met it while it was connecting, when the listener
\* may close sockets that are not those it looked at (client_stub.c:31-68).
ConnectionSound ==
  connected /\ ~missed /\ ~Quitting(mpc) /\ ~Listener(wpc) =>
    /\ \A r \in Roles : IsOpen(sockfd[r]) /\ peer[sockfd[r]] = address[r]
    /\ sockfd["primary"] # sockfd["backup"]

\* A client that is connected to servers that are no longer those that ZooKeeper
\* has is about to be told, with the same exception: no change falls between a
\* notification, the next watch and a retry.
StaleNoticed ==
  connected /\ ~missed /\ ~Quitting(mpc) /\ address # znode => event \/ wpc # "idle"

\* A write is sent to the server read as the primary and a read to that read as
\* the backup, even if the sockets are being closed (network_client.c:44-66).
RequestRouted ==
  mpc = "receive" /\ ~missed =>
    asked = address[IF kind = "write" THEN "primary" ELSE "backup"]

\* The only sockets that are forgotten without being closed are those of the
\* primary when the backup cannot be reached (network_client.c:26-30).
LeakOnlyWithoutBackup ==
  [][ ~missed =>
        \A fd \in Fds :
          Held(fd) /\ ~Held(fd)' /\ IsOpen(fd) /\ IsOpen(fd)' => mpc = "connect_backup" ]_vars

\* The listener never uses an rtree that rtree_disconnect has freed, although
\* nothing locks it: zk_close waits for the listener first (client_stub.c:102-108).
RtreeAlive == Listener(wpc) => allocated

\* The inductive invariant behind these.  The ZooKeeper thread is at rest before the
\* client has connected to ZooKeeper and once zookeeper_close has returned:
ThreadsConsistent ==
  /\ mpc \in {"zk_connect", "destroy", "exited"} => wpc = "idle" /\ ~event /\ ~watch
  /\ ~allocated => wpc = "idle" /\ mpc \in {"zk_connect", "exited", "aborted"}

\* The flags follow the main thread, and a change of the children is seen, by the
\* watch, by an event that waits, or by the next watch:
FlagsConsistent ==
  /\ connected => mpc # "zk_connect" /\ (Connecting(mpc) => mpc = "register_listener")
  /\ mpc \in {"prompt", "send", "receive"} => listening
  /\ Connecting(mpc) /\ Notified(wpc) => missed
  /\ mpc # "zk_connect" /\ ~Quitting(mpc) => watch \/ event \/ wpc = "watch_again"

\* Addresses are there, and sockfd is reset, before the connection is made:
ConnectPrepared ==
  /\ mpc \in {"connect_primary", "connect_backup"} => \A r \in Roles : address[r] # NoServer
  /\ mpc = "free_backup" => sockfd["primary"] = NoFd
  /\ mpc \in {"zk_connect", "parse", "connect_primary"} => \A r \in Roles : sockfd[r] = NoFd
  /\ mpc = "connect_backup" => sockfd["backup"] = NoFd

\* The two sockets are those that the progress of the connecting, or of the
\* listener's closing, leaves open:
AllOpen == /\ \A r \in Roles : IsOpen(sockfd[r])
           /\ sockfd["primary"] # sockfd["backup"]

SocketsConsistent ==
  ~missed =>
    /\ \A r \in Roles : IsOpen(sockfd[r]) => peer[sockfd[r]] = address[r]
    /\ mpc = "connect_backup" => IsOpen(sockfd["primary"])
    /\ mpc = "set_connected" => AllOpen
    /\ connected /\ ~Quitting(mpc) /\ ~Listener(wpc) => AllOpen
    /\ ~connected /\ ~Quitting(mpc) /\ mpc \notin {"connect_backup", "set_connected"} =>
         \A r \in Roles : ~IsOpen(sockfd[r])

ClosingConsistent ==
  ~missed /\ ~Quitting(mpc) =>
    /\ wpc = "close_primary" => wfd = sockfd["primary"]
    /\ wpc \in {"load_backup", "close_backup", "clear"} => ~IsOpen(sockfd["primary"])
    /\ wpc = "close_backup" => wfd = sockfd["backup"]
    /\ wpc = "clear" => ~IsOpen(sockfd["backup"])

\* What was read of ZooKeeper is what it has, unless the client is about to know:
ReadConsistent ==
  ~missed /\ ~event /\ wpc = "idle" =>
    /\ mpc = "get_backup" => found["primary"] = znode["primary"]
    /\ mpc \in {"free_primary", "free_backup", "parse"} => found = znode
    /\ mpc \in {"connect_primary", "connect_backup", "set_connected"} => address = znode
    /\ connected /\ ~Quitting(mpc) => address = znode

\* Types and all of these: sockets, addresses and flags agree at each step of the
\* two threads, as long as no notification has met the client while it connected.
IInv ==
  /\ TypeOK /\ ThreadsConsistent /\ FlagsConsistent /\ ConnectPrepared
  /\ SocketsConsistent /\ ClosingConsistent /\ ReadConsistent /\ RequestRouted

\* "Please, retry connecting with command "retry"" (tree_client.c:184): it is safe
\* to do so.  The second retry in a row frees what the first one freed.
RetrySafe ==
  [][mpc' = "aborted" => mpc \notin {"free_primary", "free_backup"}]_vars
=============================================================================
