---------------------------- MODULE ServerRoles ----------------------------
(***************************************************************************)
(* How tree_servers share out the roles of primary and backup through      *)
(* ZooKeeper (source/zk-private.c and main of source/server/tree_server.c).*)
(*                                                                         *)
(* A server that starts creates /kvstore/primary or /kvstore/backup, which *)
(* ZooKeeper deletes when the session of the server ends.  Each server has *)
(* two threads here: its main thread, which registers it, and the thread   *)
(* of the ZooKeeper client, which is told once that the children of        *)
(* /kvstore changed, asks to be told again, and promotes a backup that has *)
(* no primary.  Each call to ZooKeeper is a step: what it read may be out  *)
(* of date by the next.                                                    *)
(*                                                                         *)
(* A server is one process: a tree_server started again is another element *)
(* of Servers.  The session of a process lives as long as the process, and *)
(* some time longer if it crashes.                                         *)
(***************************************************************************)

CONSTANTS
  Servers,  \* the tree_server processes that are ever started
  NoNode    \* what a path without a znode holds

\* Ephemeral znodes: the process whose session they belong to, and their data.
Znodes == [owner: Servers, address: Servers]

ASSUME ServerRolesAssumption == NoNode \notin Servers \cup Znodes

VARIABLES
  mpc,         \* next call of the main thread of each server
  wpc,         \* next call of the watcher in the ZooKeeper client's thread
  server_role, \* the role each server believes to have
  listening,   \* servers_listener is set
  new_primary, \* local variable new_primary_server of zk_update_server_roles
  root,        \* the znode /kvstore exists
  znode,       \* the ephemeral znodes below it
  watch,       \* ZooKeeper has a watch of the server on the children of /kvstore
  event        \* the watch was triggered and its watcher not yet called

memory == <<server_role, listening, new_primary>>
zookeeper == <<root, znode, watch, event>>
vars == <<mpc, wpc, memory, zookeeper>>

Paths == {"primary", "backup"}
Nodes == Znodes \cup {NoNode}

Alive(s) == mpc[s] \notin {"not_started", "crashed", "exited"}

Init ==
  /\ mpc = [s \in Servers |-> "not_started"]
  /\ wpc = [s \in Servers |-> "idle"]
  /\ server_role = [s \in Servers |-> "NONE"]
  /\ listening = [s \in Servers |-> FALSE]
  /\ new_primary = [s \in Servers |-> NoNode]
  /\ root = FALSE
  /\ znode = [p \in Paths |-> NoNode]
  /\ watch = [s \in Servers |-> FALSE]
  /\ event = [s \in Servers |-> FALSE]

-----------------------------------------------------------------------------
(* ZooKeeper.                                                              *)

\* The children of /kvstore become nodes, and every watch on them triggers, those
\* of a session that has ended excepted.
ChildrenBecome(nodes, ended) ==
  /\ znode' = nodes
  /\ event' = [s \in Servers |-> s \notin ended /\ (event[s] \/ watch[s])]
  /\ watch' = [s \in Servers |-> FALSE]

Create(path, s, address) ==
  /\ znode[path] = NoNode
  /\ ChildrenBecome([znode EXCEPT ![path] = [owner |-> s, address |-> address]], {})

\* The session of s ends, and with it its watch and the znodes that s created.
EndSession(s) ==
  LET owned == {p \in Paths : znode[p] # NoNode /\ znode[p].owner = s} IN
  IF owned = {}
  THEN /\ watch' = [watch EXCEPT ![s] = FALSE]
       /\ event' = [event EXCEPT ![s] = FALSE]
       /\ UNCHANGED znode
  ELSE ChildrenBecome([p \in Paths |-> IF p \in owned THEN NoNode ELSE znode[p]], {s})

-----------------------------------------------------------------------------
(* The main thread of server s.                                            *)

MainMoves(s, from, to) == mpc[s] = from /\ mpc' = [mpc EXCEPT ![s] = to]
SetRole(s, role) == server_role' = [server_role EXCEPT ![s] = role]

\* The process is gone, with both threads and its memory.
ForgetMemory(s) ==
  /\ wpc' = [wpc EXCEPT ![s] = "idle"]
  /\ SetRole(s, "NONE")
  /\ listening' = [listening EXCEPT ![s] = FALSE]
  /\ new_primary' = [new_primary EXCEPT ![s] = NoNode]

\* main up to zk_connect, whose zk_exists finds the root or not.
Start(s) ==
  /\ MainMoves(s, "not_started", IF root THEN "watch_root" ELSE "create_root")
  /\ UNCHANGED <<wpc, memory, zookeeper>>

\* A root created meanwhile by another server is an error of zk_create.
CreateRoot(s) ==
  /\ MainMoves(s, "create_root", IF root THEN "close" ELSE "watch_root")
  /\ root' = TRUE
  /\ UNCHANGED <<wpc, memory, znode, watch, event>>

\* Fault: the children are read without a watch.
WatchRoot_Unwatched(s) ==
  /\ \E next \in {"exists_primary", "close"} : MainMoves(s, "watch_root", next)
  /\ UNCHANGED <<wpc, memory, zookeeper>>

\* The zoo_wget_children of zk_connect; then network_server_init, which may fail.
WatchRoot(s) ==
  /\ \E next \in {"exists_primary", "close"} : MainMoves(s, "watch_root", next)
  /\ watch' = [watch EXCEPT ![s] = TRUE]
  /\ UNCHANGED <<wpc, memory, root, znode, event>>

ExistsPrimary(s) ==
  /\ MainMoves(s, "exists_primary",
               IF znode["primary"] = NoNode THEN "create_primary" ELSE "exists_backup")
  /\ UNCHANGED <<wpc, memory, zookeeper>>

\* Fault: the result of zk_create is not looked at.
CreatePrimary_Unchecked(s) ==
  /\ MainMoves(s, "create_primary", "set_primary")
  /\ Create("primary", s, s) \/ (znode["primary"] # NoNode /\ UNCHANGED <<znode, watch, event>>)
  /\ UNCHANGED <<wpc, memory, root>>

CreatePrimary(s) ==
  /\ MainMoves(s, "create_primary", "set_primary")
  /\ Create("primary", s, s)
  /\ UNCHANGED <<wpc, memory, root>>

ExistsBackup(s) ==
  /\ MainMoves(s, "exists_backup",
               IF znode["backup"] = NoNode THEN "create_backup" ELSE "close")
  /\ UNCHANGED <<wpc, memory, zookeeper>>

CreateBackup(s) ==
  /\ MainMoves(s, "create_backup", "set_backup")
  /\ Create("backup", s, s)
  /\ UNCHANGED <<wpc, memory, root>>

\* Another server created the znode between zk_exists and zk_create.
CreateFails(s) ==
  /\ \/ MainMoves(s, "create_primary", "close") /\ znode["primary"] # NoNode
     \/ MainMoves(s, "create_backup", "close") /\ znode["backup"] # NoNode
  /\ UNCHANGED <<wpc, memory, zookeeper>>

SetRegisteredRole(s) ==
  /\ \/ MainMoves(s, "set_primary", "register_listener") /\ SetRole(s, "PRIMARY")
     \/ MainMoves(s, "set_backup", "register_listener") /\ SetRole(s, "BACKUP")
  /\ UNCHANGED <<wpc, listening, new_primary, zookeeper>>

RegisterListener(s) ==
  /\ MainMoves(s, "register_listener", "loop")
  /\ listening' = [listening EXCEPT ![s] = TRUE]
  /\ UNCHANGED <<wpc, server_role, new_primary, zookeeper>>

\* network_main_loop returns.
Stop(s) ==
  /\ MainMoves(s, "loop", "close")
  /\ UNCHANGED <<wpc, memory, zookeeper>>

\* zk_close, up to zookeeper_close.
Close(s) ==
  /\ MainMoves(s, "close", "end_session")
  /\ SetRole(s, "NONE")
  /\ listening' = [listening EXCEPT ![s] = FALSE]
  /\ UNCHANGED <<wpc, new_primary, zookeeper>>

\* zookeeper_close, which also ends the other thread; then main returns.
Exit(s) ==
  /\ MainMoves(s, "end_session", "exited")
  /\ EndSession(s)
  /\ ForgetMemory(s)
  /\ UNCHANGED root

-----------------------------------------------------------------------------
(* The watcher of server s: zk_children_watcher, on_servers_change and     *)
(* zk_update_server_roles.                                                 *)

WatcherMoves(s, from, to) ==
  Alive(s) /\ wpc[s] = from /\ wpc' = [wpc EXCEPT ![s] = to]

Notify(s) ==
  /\ WatcherMoves(s, "idle", "watch_again")
  /\ event[s]
  /\ event' = [event EXCEPT ![s] = FALSE]
  /\ UNCHANGED <<mpc, memory, root, znode, watch>>

WatchAgain(s) ==
  /\ WatcherMoves(s, "watch_again", "listener")
  /\ watch' = [watch EXCEPT ![s] = TRUE]
  /\ UNCHANGED <<mpc, memory, root, znode, event>>

CallListener(s) ==
  /\ WatcherMoves(s, "listener",
       IF listening[s] /\ server_role[s] = "BACKUP" THEN "exists_primary" ELSE "idle")
  /\ UNCHANGED <<mpc, memory, zookeeper>>

PrimaryMissing(s) ==
  /\ WatcherMoves(s, "exists_primary",
                  IF znode["primary"] = NoNode THEN "exists_backup" ELSE "idle")
  /\ UNCHANGED <<mpc, memory, zookeeper>>

BackupPresent(s) ==
  /\ WatcherMoves(s, "exists_backup",
                  IF znode["backup"] = NoNode THEN "idle" ELSE "get_backup")
  /\ UNCHANGED <<mpc, memory, zookeeper>>

GetBackup(s) ==
  /\ WatcherMoves(s, "get_backup", IF znode["backup"] = NoNode THEN "idle" ELSE "promote")
  /\ new_primary' = [new_primary EXCEPT
       ![s] = IF znode["backup"] = NoNode THEN @ ELSE znode["backup"].address]
  /\ UNCHANGED <<mpc, server_role, listening, zookeeper>>

PromoteBackup(s) ==
  /\ WatcherMoves(s, "promote", "set_role")
  /\ Create("primary", s, new_primary[s])
  /\ UNCHANGED <<mpc, memory, root>>

\* Fault: the backup gives up its znode although it was not promoted.
PromoteFails_Ignored(s) ==
  /\ WatcherMoves(s, "promote", "delete_backup")
  /\ znode["primary"] # NoNode
  /\ UNCHANGED <<mpc, memory, zookeeper>>

\* Another server has become the primary since zk_exists.
PromoteFails(s) ==
  /\ WatcherMoves(s, "promote", "idle")
  /\ znode["primary"] # NoNode
  /\ UNCHANGED <<mpc, memory, zookeeper>>

SetPromotedRole(s) ==
  /\ WatcherMoves(s, "set_role", "delete_backup")
  /\ IF server_role[s] = "BACKUP" THEN SetRole(s, "PRIMARY") ELSE UNCHANGED server_role
  /\ UNCHANGED <<mpc, listening, new_primary, zookeeper>>

\* zoo_delete of version 0, which is that of any new znode.
DeleteBackup(s) ==
  /\ WatcherMoves(s, "delete_backup", "idle")
  /\ IF znode["backup"] = NoNode THEN UNCHANGED <<znode, watch, event>>
     ELSE ChildrenBecome([znode EXCEPT !["backup"] = NoNode], {})
  /\ UNCHANGED <<mpc, memory, root>>

-----------------------------------------------------------------------------
(* Crashes.                                                                *)

\* The process dies: exit(1), a signal, or the String_vector_destroy of
\* zk_children_watcher when it has read no children.
Crash(s) ==
  /\ Alive(s)
  /\ mpc' = [mpc EXCEPT ![s] = "crashed"]
  /\ ForgetMemory(s)
  /\ UNCHANGED zookeeper

\* ZooKeeper gives up the session of a process that crashed.
Expire(s) ==
  /\ MainMoves(s, "crashed", "exited")
  /\ EndSession(s)
  /\ UNCHANGED <<wpc, memory, root>>

-----------------------------------------------------------------------------

Main(s) ==
  \/ CreateRoot(s) \/ WatchRoot(s) \/ ExistsPrimary(s) \/ CreatePrimary(s)
  \/ ExistsBackup(s) \/ CreateBackup(s) \/ CreateFails(s) \/ SetRegisteredRole(s)
  \/ RegisterListener(s) \/ Close(s) \/ Exit(s)

Watcher(s) ==
  \/ Notify(s) \/ WatchAgain(s) \/ CallListener(s) \/ PrimaryMissing(s)
  \/ BackupPresent(s) \/ GetBackup(s) \/ PromoteBackup(s) \/ PromoteFails(s)
  \/ SetPromotedRole(s) \/ DeleteBackup(s)

Environment(s) == Start(s) \/ Stop(s) \/ Crash(s) \/ Expire(s)

Next == \E s \in Servers : Main(s) \/ Watcher(s) \/ Environment(s)

Spec == Init /\ [][Next]_vars

\* Both threads of a server run.
Fairness == \A s \in Servers : WF_vars(Main(s)) /\ WF_vars(Watcher(s))

FairSpec == Spec /\ Fairness

-----------------------------------------------------------------------------
(* Properties.                                                             *)

\* Every variable keeps to the values that its declaration and the code give it.
TypeOK ==
  /\ mpc \in [Servers -> {"not_started", "create_root", "watch_root", "exists_primary",
                          "create_primary", "exists_backup", "create_backup",
                          "set_primary", "set_backup", "register_listener", "loop",
                          "close", "end_session", "crashed", "exited"}]
  /\ wpc \in [Servers -> {"idle", "watch_again", "listener", "exists_primary",
                          "exists_backup", "get_backup", "promote", "set_role",
                          "delete_backup"}]
  /\ server_role \in [Servers -> {"NONE", "PRIMARY", "BACKUP"}]
  /\ listening \in [Servers -> BOOLEAN]
  /\ new_primary \in [Servers -> Servers \cup {NoNode}]
  /\ root \in BOOLEAN
  /\ znode \in [Paths -> Nodes]
  /\ watch \in [Servers -> BOOLEAN]
  /\ event \in [Servers -> BOOLEAN]

Owns(s, path) == znode[path] # NoNode /\ znode[path].owner = s

\* The watcher has called zk_update_server_roles.
Updating(s) == wpc[s] \in {"exists_primary", "exists_backup", "get_backup", "promote",
                           "set_role", "delete_backup"}

\* At any time at most one running process believes that it is the primary,
\* whatever the order in which servers register, die and are promoted.
AtMostOnePrimary ==
  \A s, t \in Servers :
    server_role[s] = "PRIMARY" /\ server_role[t] = "PRIMARY" => s = t

AddressesTrue == \A p \in Paths : znode[p] # NoNode => znode[p].address = znode[p].owner

\* The role of a running server is one that ZooKeeper's clients can see, and the
\* addresses that they read are those of the servers with the role: no server
\* deletes the znode of another, and a backup that is not promoted keeps its own.
RolesVisible ==
  /\ \A s \in Servers :
       /\ server_role[s] = "PRIMARY" => Owns(s, "primary")
       /\ server_role[s] = "BACKUP" => Owns(s, "backup")
  /\ AddressesTrue

\* The inductive invariant behind AtMostOnePrimary and RolesVisible: who has a
\* role, is about to set it or works on its znode has created that znode, and
\* never does so before or after the time when it may.
PrimaryOwned ==
  \A s \in Servers :
    server_role[s] = "PRIMARY" \/ mpc[s] = "set_primary" \/ wpc[s] = "set_role" =>
      Owns(s, "primary")

BackupOwned ==
  \A s \in Servers :
    server_role[s] = "BACKUP" \/ mpc[s] = "set_backup" \/ Updating(s) => Owns(s, "backup")

UpdatesWhenListening ==
  \A s \in Servers :
    /\ server_role[s] # "NONE" => mpc[s] \in {"register_listener", "loop", "close"}
    /\ listening[s] => mpc[s] \in {"loop", "close"}
    /\ Updating(s) => mpc[s] \in {"loop", "close", "end_session"}
    /\ wpc[s] = "delete_backup" => server_role[s] # "BACKUP"
    /\ wpc[s] = "promote" => new_primary[s] = s

\* A server that has asked to be told of changes will be: it has a watch, an event
\* is on its way, or the watcher is about to ask again.
WatchKept ==
  \A s \in Servers :
    mpc[s] \in {"exists_primary", "create_primary", "exists_backup", "create_backup",
               "set_primary", "set_backup", "register_listener", "loop"} \/ listening[s] =>
      watch[s] \/ event[s] \/ wpc[s] = "watch_again"

IInv ==
  /\ TypeOK /\ PrimaryOwned /\ BackupOwned /\ UpdatesWhenListening /\ AddressesTrue
  /\ WatchKept

ListeningBackup(s) == listening[s] /\ server_role[s] = "BACKUP"

\* The server is going to look whether there is a primary, or has seen that there is none.
Noticed(s) ==
  event[s] \/ wpc[s] \in {"watch_again", "listener", "exists_primary", "exists_backup",
                         "get_backup", "promote"}

\* A listening backup is about to look for the primary from the moment that the primary
\* is lost, and does not give up before there is one again: whatever it reads in
\* on_servers_change and zk_update_server_roles, it finds no reason to leave them early
\* (zk-private.c:58-70 and 188-212).
LossNoticed ==
  [][\A s \in Servers :
       /\ ListeningBackup(s)' /\ znode'["primary"] = NoNode
       /\ znode["primary"] # NoNode \/ (ListeningBackup(s) /\ Noticed(s))
       => Noticed(s)']_vars

\* A backup that listens while there is a primary never sleeps through its loss,
\* although a watch triggers once and changes between the notification and the
\* next watch trigger nothing (zk-private.c:58-70): there is a primary again.
PrimaryRestoredFor(s) ==
  [](ListeningBackup(s) /\ znode["primary"] # NoNode =>
       [](znode["primary"] = NoNode => <>(znode["primary"] # NoNode \/ ~Alive(s))))

\* "In case the primary server has disconnected, promotes the backup server to
\* primary" (zk-private.h:38-39): a backup that runs and listens does not stay
\* without a primary.  The loss of the primary can come before the backup listens
\* (tree_server.c:69-75), and nothing makes it look again.
BackupPromoted ==
  \A s \in Servers :
    ListeningBackup(s) /\ znode["primary"] = NoNode
      ~> znode["primary"] # NoNode \/ ~Alive(s)
=============================================================================
