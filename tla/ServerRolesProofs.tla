------------------------- MODULE ServerRolesProofs -------------------------
(***************************************************************************)
(* Proofs about ServerRoles, for any set of servers.                       *)
(***************************************************************************)
EXTENDS ServerRoles, TLAPS

USE DEF MainMoves, WatcherMoves, SetRole, memory, zookeeper

Step(s) == Main(s) \/ Watcher(s) \/ Environment(s)

\* A znode that is created was missing; the other path keeps its znode.
LEMMA CreateType ==
  ASSUME TypeOK, NEW path \in Paths, NEW s \in Servers, NEW address \in Servers,
         Create(path, s, address)
  PROVE  /\ znode' \in [Paths -> Nodes]
         /\ watch' \in [Servers -> BOOLEAN] /\ event' \in [Servers -> BOOLEAN]
         /\ znode[path] = NoNode
         /\ znode'[path] = [owner |-> s, address |-> address] /\ Owns(s, path)'
         /\ \A p \in Paths \ {path} : znode'[p] = znode[p]
BY ServerRolesAssumption DEF TypeOK, Create, ChildrenBecome, Nodes, Znodes, Owns

\* A change of the children leaves the watches and events of servers.
LEMMA ChildrenType ==
  ASSUME TypeOK, NEW nodes, NEW ended, ChildrenBecome(nodes, ended)
  PROVE  /\ znode' = nodes
         /\ watch' \in [Servers -> BOOLEAN] /\ event' \in [Servers -> BOOLEAN]
BY DEF TypeOK, ChildrenBecome

\* The end of a session deletes the znodes of its server and no other.
LEMMA EndSessionType ==
  ASSUME TypeOK, NEW s \in Servers, EndSession(s)
  PROVE  /\ znode' \in [Paths -> Nodes]
         /\ watch' \in [Servers -> BOOLEAN] /\ event' \in [Servers -> BOOLEAN]
         /\ \A p \in Paths : znode'[p] = IF Owns(s, p) THEN NoNode ELSE znode[p]
<1> DEFINE owned == {p \in Paths : znode[p] # NoNode /\ znode[p].owner = s}
<1>1. CASE owned = {}
  <2>1. /\ watch' = [watch EXCEPT ![s] = FALSE] /\ event' = [event EXCEPT ![s] = FALSE]
        /\ UNCHANGED znode
    BY <1>1 DEF EndSession
  <2>2. \A p \in Paths : ~Owns(s, p)
    BY <1>1 DEF Owns
  <2> QED BY <2>1, <2>2 DEF TypeOK
<1>2. CASE owned # {}
  <2> DEFINE left == [p \in Paths |-> IF p \in owned THEN NoNode ELSE znode[p]]
  <2>1. left \in [Paths -> Nodes]
    BY DEF TypeOK, Nodes
  <2>2. ChildrenBecome(left, {s})
    BY <1>2 DEF EndSession
  <2>3. /\ znode' = left
        /\ watch' \in [Servers -> BOOLEAN] /\ event' \in [Servers -> BOOLEAN]
    BY <2>2, ChildrenType
  <2>4. \A p \in Paths : p \in owned <=> Owns(s, p)
    BY DEF Owns
  <2> QED BY <2>1, <2>3, <2>4
<1> QED BY <1>1, <1>2

\* At the start no server runs and there is no znode.
LEMMA InvariantInit == Init => IInv
<1> SUFFICES ASSUME Init PROVE IInv
  OBVIOUS
<1>1. TypeOK
  BY DEF Init, TypeOK, Paths, Nodes
<1>2. PrimaryOwned /\ BackupOwned
  BY DEF Init, PrimaryOwned, BackupOwned, Updating
<1>3. UpdatesWhenListening
  BY DEF Init, UpdatesWhenListening, Updating
<1>4. AddressesTrue
  BY DEF Init, AddressesTrue, Paths
<1>5. WatchKept
  BY DEF Init, WatchKept
<1> QED BY <1>1, <1>2, <1>3, <1>4, <1>5 DEF IInv

\* Every variable keeps its type.
LEMMA TypesNext == IInv /\ [Next]_vars => TypeOK'
<1> SUFFICES ASSUME IInv, [Next]_vars PROVE TypeOK'
  OBVIOUS
<1> USE DEF IInv, TypeOK
<1>1. CASE UNCHANGED vars
  BY <1>1 DEF vars
<1> SUFFICES ASSUME NEW s \in Servers, Step(s) PROVE TypeOK'
  BY <1>1 DEF Next, Step
<1>2. CASE CreatePrimary(s)
  BY <1>2, CreateType DEF CreatePrimary, Paths
<1>3. CASE CreateBackup(s)
  BY <1>3, CreateType DEF CreateBackup, Paths
<1>4. CASE PromoteBackup(s)
  <2>1. new_primary[s] = s
    BY <1>4 DEF PromoteBackup, UpdatesWhenListening
  <2> QED BY <1>4, <2>1, CreateType DEF PromoteBackup, Paths
<1>5. CASE Exit(s) \/ Expire(s)
  <2>1. /\ znode' \in [Paths -> Nodes]
        /\ watch' \in [Servers -> BOOLEAN] /\ event' \in [Servers -> BOOLEAN]
    BY <1>5, EndSessionType DEF Exit, Expire
  <2>2. CASE Exit(s)
    BY <2>1, <2>2 DEF Exit, ForgetMemory
  <2>3. CASE Expire(s)
    BY <2>1, <2>3 DEF Expire
  <2> QED BY <1>5, <2>2, <2>3
<1>6. CASE DeleteBackup(s)
  <2>1. /\ znode' \in [Paths -> Nodes]
        /\ watch' \in [Servers -> BOOLEAN] /\ event' \in [Servers -> BOOLEAN]
    <3>1. [znode EXCEPT !["backup"] = NoNode] \in [Paths -> Nodes]
      BY DEF Nodes
    <3> QED BY <1>6, <3>1, ChildrenType DEF DeleteBackup
  <2>2. wpc' = [wpc EXCEPT ![s] = "idle"] /\ UNCHANGED <<mpc, memory, root>>
    BY <1>6 DEF DeleteBackup
  <2> QED BY <2>1, <2>2
<1>7. CASE GetBackup(s)
  BY <1>7 DEF GetBackup, Nodes, Znodes, Paths
<1>8. CASE \/ Start(s) \/ CreateRoot(s) \/ WatchRoot(s) \/ ExistsPrimary(s)
           \/ ExistsBackup(s) \/ CreateFails(s) \/ SetRegisteredRole(s)
           \/ RegisterListener(s) \/ Stop(s) \/ Close(s) \/ Crash(s)
  <2>1. CASE Start(s) \/ ExistsPrimary(s)
    BY <2>1 DEF Start, ExistsPrimary
  <2>5. CASE CreateRoot(s)
    BY <2>5 DEF CreateRoot
  <2>6. CASE WatchRoot(s)
    BY <2>6 DEF WatchRoot
  <2>2. CASE ExistsBackup(s) \/ CreateFails(s) \/ SetRegisteredRole(s)
    BY <2>2 DEF ExistsBackup, CreateFails, SetRegisteredRole
  <2>3. CASE RegisterListener(s) \/ Stop(s) \/ Close(s)
    BY <2>3 DEF RegisterListener, Stop, Close
  <2>4. CASE Crash(s)
    BY <2>4 DEF Crash, ForgetMemory
  <2> QED BY <1>8, <2>1, <2>2, <2>3, <2>4, <2>5, <2>6
<1>9. CASE \/ Notify(s) \/ WatchAgain(s) \/ CallListener(s) \/ PrimaryMissing(s)
           \/ BackupPresent(s) \/ PromoteFails(s) \/ SetPromotedRole(s)
  BY <1>9 DEF Notify, WatchAgain, CallListener, PrimaryMissing, BackupPresent,
              PromoteFails, SetPromotedRole
<1> QED BY <1>2, <1>3, <1>4, <1>5, <1>6, <1>7, <1>8, <1>9 DEF Step, Main, Watcher, Environment

-----------------------------------------------------------------------------
(* Ownership.                                                              *)

\* A step of one server leaves alone the memory of the others and their znodes.
LEMMA OthersKept ==
  ASSUME IInv, NEW s \in Servers, Step(s), NEW t \in Servers \ {s}
  PROVE  /\ mpc'[t] = mpc[t] /\ wpc'[t] = wpc[t] /\ server_role'[t] = server_role[t]
         /\ listening'[t] = listening[t] /\ new_primary'[t] = new_primary[t]
         /\ \A p \in Paths : Owns(t, p) => Owns(t, p)'
<1> USE DEF IInv, TypeOK
<1>1. CASE CreatePrimary(s)
  BY <1>1, CreateType DEF CreatePrimary, Paths, Owns
<1>2. CASE CreateBackup(s)
  BY <1>2, CreateType DEF CreateBackup, Paths, Owns
<1>3. CASE PromoteBackup(s)
  <2>1. new_primary[s] = s
    BY <1>3 DEF PromoteBackup, UpdatesWhenListening
  <2> QED BY <1>3, <2>1, CreateType DEF PromoteBackup, Paths, Owns
<1>4. CASE Exit(s) \/ Expire(s)
  BY <1>4, EndSessionType DEF Exit, Expire, ForgetMemory, Owns
<1>5. CASE DeleteBackup(s)
  <2>1. Owns(s, "backup")
    BY <1>5 DEF DeleteBackup, BackupOwned, Updating
  <2> QED BY <1>5, <2>1 DEF DeleteBackup, ChildrenBecome, Owns, Paths
<1>6. CASE \/ Start(s) \/ CreateRoot(s) \/ WatchRoot(s) \/ ExistsPrimary(s)
           \/ ExistsBackup(s) \/ CreateFails(s) \/ SetRegisteredRole(s)
           \/ RegisterListener(s) \/ Stop(s) \/ Close(s) \/ Crash(s)
  BY <1>6 DEF Start, CreateRoot, WatchRoot, ExistsPrimary, ExistsBackup, CreateFails,
              SetRegisteredRole, RegisterListener, Stop, Close, Crash, ForgetMemory, Owns
<1>7. CASE \/ Notify(s) \/ WatchAgain(s) \/ CallListener(s) \/ PrimaryMissing(s)
           \/ BackupPresent(s) \/ GetBackup(s) \/ PromoteFails(s) \/ SetPromotedRole(s)
  BY <1>7 DEF Notify, WatchAgain, CallListener, PrimaryMissing, BackupPresent, GetBackup,
              PromoteFails, SetPromotedRole, Owns
<1> QED BY <1>1, <1>2, <1>3, <1>4, <1>5, <1>6, <1>7 DEF Step, Main, Watcher, Environment

\* What the invariant says of one server.
Local(s) ==
  /\ server_role[s] = "PRIMARY" \/ mpc[s] = "set_primary" \/ wpc[s] = "set_role" =>
       Owns(s, "primary")
  /\ server_role[s] = "BACKUP" \/ mpc[s] = "set_backup" \/ Updating(s) => Owns(s, "backup")
  /\ server_role[s] # "NONE" => mpc[s] \in {"register_listener", "loop", "close"}
  /\ listening[s] => mpc[s] \in {"loop", "close"}
  /\ Updating(s) => mpc[s] \in {"loop", "close", "end_session"}
  /\ wpc[s] = "delete_backup" => server_role[s] # "BACKUP"
  /\ wpc[s] = "promote" => new_primary[s] = s

\* It is kept by the steps of the server itself.
LEMMA LocalKept ==
  ASSUME IInv, NEW s \in Servers, Step(s)
  PROVE  Local(s)'
<1> USE DEF IInv, TypeOK, Local, Updating, PrimaryOwned, BackupOwned, UpdatesWhenListening
<1>1. CASE CreatePrimary(s)
  <2>1. /\ Owns(s, "primary")'
        /\ znode'["backup"] = znode["backup"]
    BY <1>1, CreateType DEF CreatePrimary, Paths
  <2> QED BY <1>1, <2>1 DEF CreatePrimary, Paths, Owns
<1>2. CASE CreateBackup(s)
  <2>1. /\ Owns(s, "backup")'
        /\ znode'["primary"] = znode["primary"]
    BY <1>2, CreateType DEF CreateBackup, Paths
  <2> QED BY <1>2, <2>1 DEF CreateBackup, Paths, Owns
<1>3. CASE PromoteBackup(s)
  <2>1. /\ wpc[s] = "promote" /\ Owns(s, "backup")
        /\ mpc[s] \in {"loop", "close", "end_session"}
    BY <1>3 DEF PromoteBackup
  <2>2. Create("primary", s, s)
    BY <1>3, <2>1 DEF PromoteBackup
  <2>3. Owns(s, "primary")' /\ znode'["backup"] = znode["backup"]
    BY <2>2, CreateType DEF Paths
  <2>4. Owns(s, "backup")'
    BY <2>1, <2>3 DEF Owns
  <2>5. /\ wpc'[s] = "set_role" /\ mpc'[s] = mpc[s]
        /\ server_role'[s] = server_role[s] /\ listening'[s] = listening[s]
    BY <1>3 DEF PromoteBackup
  <2>6. Updating(s)' /\ Owns(s, "primary")'
    BY <2>3, <2>5
  <2> QED BY <2>1, <2>4, <2>5, <2>6
<1>4. CASE Exit(s) \/ Expire(s)
  BY <1>4 DEF Exit, Expire, ForgetMemory
<1>5. CASE DeleteBackup(s)
  BY <1>5 DEF DeleteBackup, ChildrenBecome, Owns, Paths
<1>6. CASE GetBackup(s)
  BY <1>6 DEF GetBackup, AddressesTrue, Owns, Paths
<1>7. CASE \/ Start(s) \/ CreateRoot(s) \/ WatchRoot(s) \/ ExistsPrimary(s)
           \/ ExistsBackup(s) \/ CreateFails(s)
  BY <1>7 DEF Start, CreateRoot, WatchRoot, ExistsPrimary, ExistsBackup, CreateFails, Owns
<1>8. CASE \/ SetRegisteredRole(s) \/ RegisterListener(s) \/ Stop(s) \/ Close(s)
           \/ Crash(s)
  BY <1>8 DEF SetRegisteredRole, RegisterListener, Stop, Close, Crash, ForgetMemory, Owns
<1>9. CASE \/ Notify(s) \/ WatchAgain(s) \/ CallListener(s) \/ PrimaryMissing(s)
           \/ BackupPresent(s) \/ PromoteFails(s) \/ SetPromotedRole(s)
  BY <1>9 DEF Notify, WatchAgain, CallListener, PrimaryMissing, BackupPresent,
              PromoteFails, SetPromotedRole, Owns
<1> QED BY <1>1, <1>2, <1>3, <1>4, <1>5, <1>6, <1>7, <1>8, <1>9
        DEF Step, Main, Watcher, Environment

\* The address in a znode is that of the server that created it.
LEMMA AddressesKept ==
  ASSUME IInv, NEW s \in Servers, Step(s)
  PROVE  AddressesTrue'
<1> USE DEF IInv, TypeOK, AddressesTrue
<1>1. CASE CreatePrimary(s)
  <2>1. /\ znode'["primary"] = [owner |-> s, address |-> s] /\ Owns(s, "primary")'
        /\ znode'["backup"] = znode["backup"]
    BY <1>1, CreateType DEF CreatePrimary, Paths
  <2> QED BY <1>1, <2>1 DEF CreatePrimary, Paths
<1>2. CASE CreateBackup(s)
  <2>1. /\ znode'["backup"] = [owner |-> s, address |-> s] /\ Owns(s, "backup")'
        /\ znode'["primary"] = znode["primary"]
    BY <1>2, CreateType DEF CreateBackup, Paths
  <2> QED BY <1>2, <2>1 DEF CreateBackup, Paths
<1>3. CASE PromoteBackup(s)
  <2>1. new_primary[s] = s
    BY <1>3 DEF PromoteBackup, UpdatesWhenListening
  <2>2. /\ znode'["primary"] = [owner |-> s, address |-> s] /\ Owns(s, "primary")'
        /\ znode'["backup"] = znode["backup"]
    BY <1>3, <2>1, CreateType DEF PromoteBackup, Paths
  <2> QED BY <1>3, <2>2 DEF PromoteBackup, Paths
<1>4. CASE Exit(s) \/ Expire(s)
  BY <1>4, EndSessionType DEF Exit, Expire
<1>5. CASE DeleteBackup(s)
  BY <1>5 DEF DeleteBackup, ChildrenBecome, Paths
<1>6. CASE UNCHANGED znode
  BY <1>6
<1> QED BY <1>1, <1>2, <1>3, <1>4, <1>5, <1>6
        DEF Step, Main, Watcher, Environment, Start, CreateRoot, WatchRoot, ExistsPrimary,
            ExistsBackup, CreateFails, SetRegisteredRole, RegisterListener, Stop, Close,
            Crash, Notify, WatchAgain, CallListener, PrimaryMissing, BackupPresent,
            GetBackup, PromoteFails, SetPromotedRole

\* A change of the children takes a watch away only to notify its server.
LEMMA ChangeNotifies ==
  ASSUME TypeOK, NEW nodes, NEW ended, ChildrenBecome(nodes, ended), NEW t \in Servers,
         t \notin ended
  PROVE  event'[t] <=> event[t] \/ watch[t]
BY DEF TypeOK, ChildrenBecome

\* So does the end of the session of another server, if it deletes a znode.
LEMMA EndNotifies ==
  ASSUME TypeOK, NEW s \in Servers, EndSession(s), NEW t \in Servers \ {s}
  PROVE  /\ event[t] => event'[t]
         /\ watch[t] => watch'[t] \/ event'[t]
         /\ watch[t] /\ znode' # znode => event'[t]
<1> DEFINE owned == {p \in Paths : znode[p] # NoNode /\ znode[p].owner = s}
           left == [p \in Paths |-> IF p \in owned THEN NoNode ELSE znode[p]]
<1>1. CASE owned = {}
  <2>1. /\ watch' = [watch EXCEPT ![s] = FALSE] /\ event' = [event EXCEPT ![s] = FALSE]
        /\ UNCHANGED znode
    BY <1>1 DEF EndSession
  <2> QED BY <2>1 DEF TypeOK
<1>2. CASE owned # {}
  <2>1. ChildrenBecome(left, {s})
    BY <1>2 DEF EndSession
  <2> QED BY <2>1, ChangeNotifies
<1> QED BY <1>1, <1>2

\* A watch is lost only to an event, and the watcher that takes the event asks again.
LEMMA WatchesKept ==
  ASSUME IInv, NEW s \in Servers, Step(s)
  PROVE  WatchKept'
<1> USE DEF IInv, TypeOK, WatchKept
<1>1. CASE CreatePrimary(s)
  <2>1. \A t \in Servers : event'[t] <=> event[t] \/ watch[t]
    BY <1>1, ChangeNotifies DEF CreatePrimary, Create
  <2> QED BY <1>1, <2>1 DEF CreatePrimary
<1>2. CASE CreateBackup(s)
  <2>1. \A t \in Servers : event'[t] <=> event[t] \/ watch[t]
    BY <1>2, ChangeNotifies DEF CreateBackup, Create
  <2> QED BY <1>2, <2>1 DEF CreateBackup
<1>3. CASE PromoteBackup(s)
  <2>1. \A t \in Servers : event'[t] <=> event[t] \/ watch[t]
    BY <1>3, ChangeNotifies DEF PromoteBackup, Create
  <2> QED BY <1>3, <2>1 DEF PromoteBackup
<1>4. CASE Exit(s) \/ Expire(s)
  <2>1. \A t \in Servers \ {s} : watch[t] \/ event[t] => watch'[t] \/ event'[t]
    BY <1>4, EndNotifies DEF Exit, Expire
  <2>2. mpc'[s] = "exited" /\ ~listening'[s]
    BY <1>4 DEF Exit, Expire, ForgetMemory, UpdatesWhenListening
  <2>3. \A t \in Servers \ {s} : mpc'[t] = mpc[t] /\ wpc'[t] = wpc[t] /\ listening'[t] = listening[t]
    BY <1>4 DEF Exit, Expire, ForgetMemory
  <2> QED BY <2>1, <2>2, <2>3
<1>5. CASE DeleteBackup(s)
  <2>1. \A t \in Servers : watch[t] \/ event[t] => watch'[t] \/ event'[t]
    BY <1>5, ChangeNotifies DEF DeleteBackup
  <2> QED BY <1>5, <2>1 DEF DeleteBackup
<1>6. CASE \/ Start(s) \/ CreateRoot(s) \/ WatchRoot(s) \/ ExistsPrimary(s)
           \/ ExistsBackup(s) \/ CreateFails(s)
  BY <1>6 DEF Start, CreateRoot, WatchRoot, ExistsPrimary, ExistsBackup, CreateFails,
              UpdatesWhenListening
<1>7. CASE \/ SetRegisteredRole(s) \/ RegisterListener(s) \/ Stop(s) \/ Close(s)
           \/ Crash(s)
  BY <1>7 DEF SetRegisteredRole, RegisterListener, Stop, Close, Crash, ForgetMemory
<1>8. CASE \/ Notify(s) \/ WatchAgain(s) \/ CallListener(s) \/ PrimaryMissing(s)
           \/ BackupPresent(s) \/ GetBackup(s) \/ PromoteFails(s) \/ SetPromotedRole(s)
  BY <1>8 DEF Notify, WatchAgain, CallListener, PrimaryMissing, BackupPresent, GetBackup,
              PromoteFails, SetPromotedRole
<1> QED BY <1>1, <1>2, <1>3, <1>4, <1>5, <1>6, <1>7, <1>8
        DEF Step, Main, Watcher, Environment

\* Every step of the servers and of ZooKeeper keeps the invariant.
LEMMA InvariantNext == IInv /\ [Next]_vars => IInv'
<1> SUFFICES ASSUME IInv, [Next]_vars PROVE IInv'
  OBVIOUS
<1>1. TypeOK'
  BY TypesNext
<1>2. CASE UNCHANGED vars
  BY <1>2 DEF vars, IInv, TypeOK, PrimaryOwned, BackupOwned, UpdatesWhenListening,
              AddressesTrue, Updating, Owns, WatchKept
<1>3. CASE Next
  <2>1. PICK s \in Servers : Step(s)
    BY <1>3 DEF Next, Step
  <2>2. ASSUME NEW t \in Servers PROVE Local(t)'
    <3>1. CASE t = s
      BY <2>1, <3>1, LocalKept
    <3>2. CASE t # s
      BY <2>1, <3>2, OthersKept
         DEF IInv, Local, PrimaryOwned, BackupOwned, UpdatesWhenListening, Updating, Paths
    <3> QED BY <3>1, <3>2
  <2>3. PrimaryOwned' /\ BackupOwned' /\ UpdatesWhenListening'
    BY <2>2 DEF Local, PrimaryOwned, BackupOwned, UpdatesWhenListening
  <2>4. WatchKept'
    BY <2>1, WatchesKept
  <2> QED BY <1>1, <2>1, <2>3, <2>4, AddressesKept DEF IInv
<1> QED BY <1>2, <1>3

-----------------------------------------------------------------------------
(* The loss of a primary.                                                  *)

\* Only the end of a session takes the primary away.
LEMMA PrimaryKept ==
  ASSUME IInv, NEW s \in Servers, Step(s), ~Exit(s), ~Expire(s), znode["primary"] # NoNode
  PROVE  znode'["primary"] # NoNode
<1> USE DEF IInv, TypeOK, Paths
<1>1. CASE CreatePrimary(s) \/ PromoteBackup(s)
  BY <1>1 DEF CreatePrimary, PromoteBackup, Create
<1>2. CASE CreateBackup(s)
  BY <1>2, CreateType DEF CreateBackup
<1>3. CASE DeleteBackup(s)
  BY <1>3 DEF DeleteBackup, ChildrenBecome
<1>4. CASE UNCHANGED znode
  BY <1>4
<1> QED BY <1>1, <1>2, <1>3, <1>4
        DEF Step, Main, Watcher, Environment, Start, CreateRoot, WatchRoot, ExistsPrimary,
            ExistsBackup, CreateFails, SetRegisteredRole, RegisterListener, Stop, Close,
            Crash, Notify, WatchAgain, CallListener, PrimaryMissing, BackupPresent,
            GetBackup, PromoteFails, SetPromotedRole

\* The notification of another server is lost to no step.
LEMMA EventKept ==
  ASSUME IInv, NEW s \in Servers, Step(s), NEW t \in Servers \ {s}, event[t]
  PROVE  event'[t]
<1> USE DEF IInv, TypeOK
<1>1. CASE CreatePrimary(s) \/ CreateBackup(s) \/ PromoteBackup(s)
  BY <1>1, ChangeNotifies DEF CreatePrimary, CreateBackup, PromoteBackup, Create
<1>2. CASE Exit(s) \/ Expire(s)
  BY <1>2, EndNotifies DEF Exit, Expire
<1>3. CASE DeleteBackup(s)
  BY <1>3, ChangeNotifies DEF DeleteBackup
<1>4. CASE event'[t] = event[t]
  BY <1>4
<1> QED BY <1>1, <1>2, <1>3, <1>4
        DEF Step, Main, Watcher, Environment, Start, CreateRoot, WatchRoot, ExistsPrimary,
            ExistsBackup, CreateFails, SetRegisteredRole, RegisterListener, Stop, Close,
            Crash, Notify, WatchAgain, CallListener, PrimaryMissing, BackupPresent,
            GetBackup, PromoteFails, SetPromotedRole

\* While there is no primary, the steps of a listening backup lead to its promotion: it
\* finds no primary, its own znode of the backup, and none who is faster.
LEMMA GoesOnNoticing ==
  ASSUME IInv, NEW s \in Servers, Step(s), ListeningBackup(s), Noticed(s),
         ListeningBackup(s)', znode["primary"] = NoNode, znode'["primary"] = NoNode
  PROVE  Noticed(s)'
<1> USE DEF IInv, TypeOK, ListeningBackup, Noticed, Paths
<1>1. Owns(s, "backup") /\ mpc[s] \in {"loop", "close"}
  BY DEF BackupOwned, UpdatesWhenListening
<1>2. CASE CreatePrimary(s) \/ PromoteBackup(s)
  BY <1>1, <1>2, CreateType DEF CreatePrimary, PromoteBackup, Owns, UpdatesWhenListening
<1>3. CASE Exit(s) \/ Expire(s)
  BY <1>1, <1>3 DEF Exit, Expire, ForgetMemory
<1>4. CASE DeleteBackup(s) \/ SetPromotedRole(s)
  <2>1. wpc[s] = "set_role" => Owns(s, "primary")
    BY DEF PrimaryOwned
  <2>2. wpc[s] # "delete_backup"
    BY DEF UpdatesWhenListening
  <2> QED BY <1>4, <2>1, <2>2 DEF DeleteBackup, SetPromotedRole, Owns
<1>5. CASE \/ Start(s) \/ CreateRoot(s) \/ WatchRoot(s) \/ ExistsPrimary(s)
           \/ ExistsBackup(s) \/ CreateBackup(s) \/ CreateFails(s) \/ SetRegisteredRole(s)
           \/ RegisterListener(s)
  BY <1>1, <1>5 DEF Start, CreateRoot, WatchRoot, ExistsPrimary, ExistsBackup, CreateBackup,
                    CreateFails, SetRegisteredRole, RegisterListener
<1>6. CASE Stop(s) \/ Close(s) \/ Crash(s)
  BY <1>6 DEF Stop, Close, Crash, ForgetMemory
<1>7. CASE \/ Notify(s) \/ WatchAgain(s) \/ CallListener(s) \/ PrimaryMissing(s)
           \/ BackupPresent(s) \/ GetBackup(s) \/ PromoteFails(s)
  BY <1>1, <1>7 DEF Notify, WatchAgain, CallListener, PrimaryMissing, BackupPresent, GetBackup,
                    PromoteFails, Owns
<1> QED BY <1>2, <1>3, <1>4, <1>5, <1>6, <1>7 DEF Step, Main, Watcher, Environment

\* A loss is noticed, and noticed until there is a primary.
LEMMA NoticedNext ==
  ASSUME IInv, NEW s \in Servers, Step(s), NEW t \in Servers,
         ListeningBackup(t)', znode'["primary"] = NoNode,
         znode["primary"] # NoNode \/ (ListeningBackup(t) /\ Noticed(t))
  PROVE  Noticed(t)'
<1>1. CASE znode["primary"] # NoNode
  <2>1. Exit(s) \/ Expire(s)
    BY <1>1, PrimaryKept
  <2>2. ~ListeningBackup(s)'
    BY <2>1 DEF Exit, Expire, ForgetMemory, ListeningBackup, IInv, TypeOK, UpdatesWhenListening
  <2>3. t # s
    BY <2>2
  <2>4. EndSession(s) /\ znode' # znode
    BY <1>1, <2>1 DEF Exit, Expire
  <2>5. (event[t] => event'[t]) /\ (watch[t] => event'[t])
    BY <2>3, <2>4, EndNotifies DEF IInv
  <2>6. wpc'[t] = wpc[t] /\ listening'[t] = listening[t]
    BY <2>3, OthersKept
  <2>7. watch[t] \/ event[t] \/ wpc[t] = "watch_again"
    BY <2>6 DEF ListeningBackup, IInv, WatchKept
  <2> QED BY <2>5, <2>6, <2>7 DEF Noticed
<1>2. CASE znode["primary"] = NoNode /\ t = s
  BY <1>2, GoesOnNoticing
<1>3. CASE znode["primary"] = NoNode /\ t # s
  <2>1. Noticed(t)
    BY <1>3
  <2>2. event[t] => event'[t]
    BY <1>3, EventKept
  <2>3. wpc'[t] = wpc[t]
    BY <1>3, OthersKept
  <2> QED BY <2>1, <2>2, <2>3 DEF Noticed
<1> QED BY <1>1, <1>2, <1>3

-----------------------------------------------------------------------------
(* Theorems.                                                               *)

\* Every reachable state satisfies the inductive invariant: a role is held, and an
\* update is under way, only by the server that created the znode it is about
\* (zk-private.c:114-157 and 188-221).
THEOREM InvariantHolds == Spec => []IInv
BY InvariantInit, InvariantNext, PTL DEF Spec

\* All variables of all servers keep their types.
THEOREM TypesCorrect == Spec => []TypeOK
<1>1. IInv => TypeOK
  BY DEF IInv
<1> QED BY <1>1, InvariantHolds, PTL

\* No two servers believe to be the primary at the same time, however many are
\* started and whichever of them crash (zk-private.c:131-135 and 201-212).
THEOREM OnePrimary == Spec => []AtMostOnePrimary
<1>1. IInv => AtMostOnePrimary
  BY DEF IInv, AtMostOnePrimary, PrimaryOwned, Owns
<1> QED BY <1>1, InvariantHolds, PTL

\* The roles of the servers are those that clients read in ZooKeeper, with the
\* right addresses (zk-private.c:164-181).
THEOREM RolesSeen == Spec => []RolesVisible
<1>1. IInv => RolesVisible
  BY DEF IInv, RolesVisible, PrimaryOwned, BackupOwned
<1> QED BY <1>1, InvariantHolds, PTL

\* A listening backup does not sleep through the loss of the primary, although a watch
\* triggers once and is set again only later, and once awake does not give up: the safety
\* part of PrimaryRestored (zk-private.c:58-70, 188-212).
THEOREM LossesNoticed == Spec => LossNoticed
<1> DEFINE Kept == \A s \in Servers :
             /\ ListeningBackup(s)' /\ znode'["primary"] = NoNode
             /\ znode["primary"] # NoNode \/ (ListeningBackup(s) /\ Noticed(s))
             => Noticed(s)'
<1>1. IInv /\ [Next]_vars => [Kept]_vars
  <2> SUFFICES ASSUME IInv, Next PROVE Kept
    OBVIOUS
  <2>1. PICK s \in Servers : Step(s)
    BY DEF Next, Step
  <2> QED BY <2>1, NoticedNext
<1> QED BY <1>1, InvariantHolds, PTL DEF Spec, LossNoticed
=============================================================================
