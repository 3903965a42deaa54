---------------------------- MODULE Replication ----------------------------
(***************************************************************************)
(* The servers together: how write-operations reach the backup server      *)
(* (source/server/tree_skel.c), whose answers clients rely on for verify.  *)
(*                                                                         *)
(* This module composes what TreeSkel and ServerRoles are about.  Of the   *)
(* skeleton it keeps the order of events that another server can see: the  *)
(* tree is locked from the execution of a task until its result is set,    *)
(* and in between it is sent to the server that is then registered as the  *)
(* backup, over a connection of its own that carries no answer.  Of the    *)
(* roles it keeps the znodes, the role in memory and the three steps of a  *)
(* promotion.  A write-operation is its number in the order in which       *)
(* clients were given identifiers; the identifier a server gives is the    *)
(* number of tasks it had queued before.                                   *)
(***************************************************************************)
EXTENDS Integers, SequencesExt

CONSTANTS
  Servers,   \* the tree_server processes that are ever started
  NoServer,  \* the data of a znode that does not exist
  MaxOps,    \* bound: write-operations of clients
  MaxLog     \* bound: tasks queued by a server

ASSUME ReplicationAssumption ==
  NoServer \notin Servers /\ MaxOps \in Nat /\ MaxLog \in Nat

VARIABLES
  up,       \* "new", "up" or "down": the process of each server
  role,     \* server_role
  wpc,      \* next call of zk_update_server_roles, in the watcher's thread
  znode,    \* /kvstore/primary and /kvstore/backup
  log,      \* the operations of all tasks ever queued: their identifiers are
            \* the positions less one
  done,     \* how many of them have a result
  ppc,      \* next call of the tasks-processor thread
  target,   \* backup_server, in replicate_to_backup_server
  flight,   \* the messages on their way to a server, by order of connection
  ordered,  \* whether messages arrive in the order of their connections
  given,    \* ghost: who gave which identifier to the client of each operation
  pair,     \* ghost: the primary that a server registered as the backup of, until
            \* another server becomes the primary ...
  joined,   \* ghost: ... and the tasks it had already got past replicating
  hostLost, \* ghost: servers whose messages may have been lost with their host
  selfSent  \* ghost: servers that have sent a task to themselves

taskVars   == <<log, done, ppc, target>>
ghosts     == <<pair, joined, hostLost>>
vars == <<up, role, wpc, znode, taskVars, flight, ordered, given, ghosts, selfSent>>

Ops == 1 .. MaxOps
Messages == [from: Servers, op: Ops]

\* The tasks that s has applied to its tree, and those it has done with sending.
Applied(s)    == IF ppc[s] = "idle" THEN done[s] ELSE done[s] + 1
Replicated(s) == IF ppc[s] = "record" THEN done[s] + 1 ELSE done[s]
\* The tasks for which s has asked who the backup is.
Addressed(s)  == IF ppc[s] \in {"connect", "record"} THEN done[s] + 1 ELSE done[s]

Init ==
  /\ up = [s \in Servers |-> "new"]
  /\ role = [s \in Servers |-> "NONE"]
  /\ wpc = [s \in Servers |-> "idle"]
  /\ znode = [primary |-> NoServer, backup |-> NoServer]
  /\ log = [s \in Servers |-> <<>>]
  /\ done = [s \in Servers |-> 0]
  /\ ppc = [s \in Servers |-> "idle"]
  /\ target = [s \in Servers |-> NoServer]
  /\ flight = [s \in Servers |-> <<>>]
  /\ ordered \in BOOLEAN
  /\ given = <<>>
  /\ pair = [s \in Servers |-> NoServer]
  /\ joined = [s \in Servers |-> 0]
  /\ hostLost = {} /\ selfSent = {}

-----------------------------------------------------------------------------
(* Registration, death and promotion.                                      *)

\* The primary that b registered under has a successor.
Unpair(b) == pair' = [s \in Servers |-> IF s = b THEN NoServer ELSE pair[s]]

\* zk_register_tree_server, when it gives the server a role.
RegisterPrimary(s) ==
  /\ up[s] = "new" /\ znode.primary = NoServer
  /\ up' = [up EXCEPT ![s] = "up"]
  /\ role' = [role EXCEPT ![s] = "PRIMARY"]
  /\ znode' = [znode EXCEPT !.primary = s]
  /\ Unpair(znode.backup)
  /\ UNCHANGED <<wpc, taskVars, flight, ordered, given, joined, hostLost, selfSent>>

RegisterBackup(s) ==
  /\ up[s] = "new" /\ znode.primary # NoServer /\ znode.backup = NoServer
  /\ up' = [up EXCEPT ![s] = "up"]
  /\ role' = [role EXCEPT ![s] = "BACKUP"]
  /\ znode' = [znode EXCEPT !.backup = s]
  /\ pair' = [pair EXCEPT ![s] = znode.primary]
  /\ joined' = [joined EXCEPT ![s] = Addressed(znode.primary)]
  /\ UNCHANGED <<wpc, taskVars, flight, ordered, given, hostLost, selfSent>>

\* The process of s ends, and what others have sent it is lost.  The variables
\* of its threads keep their last values, for the properties to speak of.
Dies(s) ==
  /\ up[s] = "up"
  /\ up' = [up EXCEPT ![s] = "down"]
  /\ role' = [role EXCEPT ![s] = "NONE"]
  /\ wpc' = [wpc EXCEPT ![s] = "idle"]
  /\ flight' = [flight EXCEPT ![s] = <<>>]
  /\ UNCHANGED <<znode, taskVars, ordered, given, pair, joined, selfSent>>

\* The process dies alone, or its host does.
Crash(s) ==
  /\ Dies(s)
  /\ hostLost' \in {hostLost, hostLost \cup {s}}

\* What a host has sent and not delivered may be lost with it.
Lose(s) ==
  /\ \E i \in DOMAIN flight[s] :
       /\ flight[s][i].from \in hostLost
       /\ flight' = [flight EXCEPT ![s] = RemoveAt(@, i)]
  /\ UNCHANGED <<up, role, wpc, znode, taskVars, ordered, given, ghosts, selfSent>>

\* ZooKeeper ends the session of a dead process.
Expire(s) ==
  /\ up[s] = "down" /\ s \in {znode.primary, znode.backup}
  /\ znode' = [p \in DOMAIN znode |-> IF znode[p] = s THEN NoServer ELSE znode[p]]
  /\ UNCHANGED <<up, role, wpc, taskVars, flight, ordered, given, ghosts, selfSent>>

\* zk_update_server_roles of the backup, told that the primary is gone.
PromoteBackup(s) ==
  /\ role[s] = "BACKUP" /\ wpc[s] = "idle"
  /\ znode.primary = NoServer /\ znode.backup = s
  /\ znode' = [znode EXCEPT !.primary = s]
  /\ wpc' = [wpc EXCEPT ![s] = "set_role"]
  /\ Unpair(s)
  /\ UNCHANGED <<up, role, taskVars, flight, ordered, given, joined, hostLost, selfSent>>

SetPromotedRole(s) ==
  /\ wpc[s] = "set_role"
  /\ role' = [role EXCEPT ![s] = "PRIMARY"]
  /\ wpc' = [wpc EXCEPT ![s] = "delete_backup"]
  /\ UNCHANGED <<up, znode, taskVars, flight, ordered, given, ghosts, selfSent>>

DeleteBackup(s) ==
  /\ wpc[s] = "delete_backup"
  /\ znode' = [znode EXCEPT !.backup = NoServer]
  /\ wpc' = [wpc EXCEPT ![s] = "idle"]
  /\ UNCHANGED <<up, role, taskVars, flight, ordered, given, ghosts, selfSent>>

-----------------------------------------------------------------------------
(* Main threads: they queue a task only while no task is being processed,  *)
(* for both take tree_lock.                                                *)

Queue(s, op) ==
  /\ up[s] = "up" /\ ppc[s] = "idle" /\ Len(log[s]) < MaxLog
  /\ log' = [log EXCEPT ![s] = Append(@, op)]

\* A client sends its next write-operation to the registered primary and is
\* told its identifier.
Write(s) ==
  /\ znode.primary = s /\ Len(given) < MaxOps
  /\ Queue(s, Len(given) + 1)
  /\ given' = Append(given, [by |-> s, id |-> Len(log[s])])
  /\ UNCHANGED <<up, role, wpc, znode, done, ppc, target, flight, ordered, ghosts, selfSent>>

\* Fault: the newest connection is read first.
Receive_Newest(s) ==
  /\ flight[s] # <<>>
  /\ Queue(s, Last(flight[s]).op)
  /\ flight' = [flight EXCEPT ![s] = Front(@)]
  /\ UNCHANGED <<up, role, wpc, znode, done, ppc, target, ordered, given, ghosts, selfSent>>

\* Fault: a message is handled once more.
Receive_Again(s) ==
  /\ flight[s] # <<>>
  /\ Queue(s, Head(flight[s]).op)
  /\ UNCHANGED <<up, role, wpc, znode, done, ppc, target, flight, ordered, given, ghosts,
                 selfSent>>

\* A server reads what another, or itself, has sent it.
Receive(s) ==
  /\ \E i \in DOMAIN flight[s] :
       /\ ordered => i = 1
       /\ Queue(s, flight[s][i].op)
       /\ flight' = [flight EXCEPT ![s] = RemoveAt(@, i)]
  /\ UNCHANGED <<up, role, wpc, znode, done, ppc, target, ordered, given, ghosts, selfSent>>

-----------------------------------------------------------------------------
(* The tasks-processor thread: process_tree_put or process_tree_del.       *)

ProcMoves(s, from, to) == up[s] = "up" /\ ppc[s] = from /\ ppc' = [ppc EXCEPT ![s] = to]

\* tree_del or tree_put; a failure of theirs is an exit(1), as Crash.
Execute(s) ==
  /\ ProcMoves(s, "idle", "replicate")
  /\ done[s] < Len(log[s])
  /\ UNCHANGED <<up, role, wpc, znode, log, done, target, flight, ordered, given,
                 ghosts, selfSent>>

\* Fault: only a backup replicates.
ReadRole_Inverted(s) ==
  /\ ProcMoves(s, "replicate", IF role[s] = "BACKUP" THEN "get_backup" ELSE "record")
  /\ UNCHANGED <<up, role, wpc, znode, log, done, target, flight, ordered, given,
                 ghosts, selfSent>>

ReadRole(s) ==
  /\ ProcMoves(s, "replicate", IF role[s] = "BACKUP" THEN "record" ELSE "get_backup")
  /\ UNCHANGED <<up, role, wpc, znode, log, done, target, flight, ordered, given,
                 ghosts, selfSent>>

\* Fault: backup_server is not compared with NULL.
GetBackup_Unchecked(s) ==
  /\ ProcMoves(s, "get_backup", "connect")
  /\ target' = [target EXCEPT ![s] = znode.backup]
  /\ UNCHANGED <<up, role, wpc, znode, log, done, flight, ordered, given, ghosts, selfSent>>

\* zk_get_backup_tree_server.
GetBackup(s) ==
  /\ ProcMoves(s, "get_backup", "connect")
  /\ znode.backup # NoServer
  /\ target' = [target EXCEPT ![s] = znode.backup]
  /\ UNCHANGED <<up, role, wpc, znode, log, done, flight, ordered, given, ghosts, selfSent>>

\* server_connect, network_send_message and close.
Send(s) ==
  /\ ProcMoves(s, "connect", "record")
  /\ up[target[s]] = "up"
  /\ flight' = [flight EXCEPT
       ![target[s]] = Append(@, [from |-> s, op |-> log[s][done[s] + 1]])]
  /\ selfSent' = IF target[s] = s THEN selfSent \cup {s} ELSE selfSent
  /\ UNCHANGED <<up, role, wpc, znode, log, done, target, ordered, given, ghosts>>

\* There is no backup, or it does not answer: exit(1).
ReplicationFails(s) ==
  /\ \/ ppc[s] = "get_backup" /\ znode.backup = NoServer
     \/ ppc[s] = "connect" /\ up[target[s]] # "up"
  /\ Dies(s)
  /\ UNCHANGED hostLost

\* tasks_set_result.
Record(s) ==
  /\ ProcMoves(s, "record", "idle")
  /\ done' = [done EXCEPT ![s] = @ + 1]
  /\ target' = [target EXCEPT ![s] = NoServer]
  /\ UNCHANGED <<up, role, wpc, znode, log, flight, ordered, given, ghosts, selfSent>>

-----------------------------------------------------------------------------

Environment(s) ==
  \/ RegisterPrimary(s) \/ RegisterBackup(s) \/ Crash(s) \/ Lose(s) \/ Write(s)

Processor(s) ==
  Execute(s) \/ ReadRole(s) \/ GetBackup(s) \/ Send(s) \/ ReplicationFails(s) \/ Record(s)

Watcher(s) == PromoteBackup(s) \/ SetPromotedRole(s) \/ DeleteBackup(s)

Next ==
  \E s \in Servers : Environment(s) \/ Expire(s) \/ Watcher(s) \/ Receive(s) \/ Processor(s)

Spec == Init /\ [][Next]_vars

-----------------------------------------------------------------------------
(* Properties.                                                             *)

\* Every variable keeps to the values that its declaration and the code give it.
TypeOK ==
  /\ up \in [Servers -> {"new", "up", "down"}]
  /\ role \in [Servers -> {"NONE", "PRIMARY", "BACKUP"}]
  /\ wpc \in [Servers -> {"idle", "set_role", "delete_backup"}]
  /\ znode \in [primary: Servers \cup {NoServer}, backup: Servers \cup {NoServer}]
  /\ log \in [Servers -> Seq(Ops)]
  /\ done \in [Servers -> Nat]
  /\ ppc \in [Servers -> {"idle", "replicate", "get_backup", "connect", "record"}]
  /\ target \in [Servers -> Servers \cup {NoServer}]
  /\ flight \in [Servers -> Seq(Messages)]
  /\ ordered \in BOOLEAN
  /\ given \in Seq([by: Servers, id: Nat])
  /\ pair \in [Servers -> Servers \cup {NoServer}]
  /\ joined \in [Servers -> Nat]
  /\ hostLost \subseteq Servers /\ selfSent \subseteq Servers

\* What b has been sent: queued by it, or on its way.
Got(b) == log[b] \o [i \in DOMAIN flight[b] |-> flight[b][i].op]

\* What its primary has sent since b is its backup.
SentTo(b) == SubSeq(log[pair[b]], joined[b] + 1, Replicated(pair[b]))

Occurrences(op, seq) == Cardinality({i \in DOMAIN seq : seq[i] = op})

\* While a backup stays with the primary it registered under, and whether that
\* still runs or not, it has been sent every operation that the primary executed
\* since, none twice and none that the primary did not execute, and in the same
\* order unless the network reorders connections (replicate_to_backup_server and
\* the exit(1) of its callers).
BackupFollows ==
  \A b \in Servers :
    pair[b] # NoServer /\ up[b] = "up" /\ pair[b] \notin hostLost =>
      IF ordered THEN Got(b) = SentTo(b)
      ELSE \A op \in Ops : Occurrences(op, Got(b)) = Occurrences(op, SentTo(b))

\* verify, asked of the backup, answers 1 for an operation.
Verified(op) == znode.backup # NoServer /\ done[znode.backup] > given[op].id

\* The server that gave the operation its identifier has executed it.
Executed(op) == Applied(given[op].by) > given[op].id

\* The backup counts its own tasks, yet as long as it is paired with the primary
\* that gave the identifier, it does not confirm an operation that has not been
\* executed (network_client.c sends verify to the backup, writes to the primary).
VerifyTruthfulInPair ==
  \A op \in DOMAIN given :
    /\ znode.backup # NoServer /\ pair[znode.backup] = given[op].by
    /\ Verified(op)
    => Executed(op)

\* Moreover a backup that was there from the first operation on has itself executed
\* what it confirms, so that a client can read it there (if connections keep order).
ReadsVerifiedWrites ==
  \A op \in DOMAIN given :
    LET b == znode.backup IN
    /\ b # NoServer /\ ordered
    /\ pair[b] = given[op].by /\ joined[b] = 0 /\ pair[b] \notin hostLost
    /\ Verified(op) /\ up[b] = "up"
    => \E i \in 1 .. done[b] : log[b][i] = op

\* The inductive invariant behind VerifyTruthfulInPair.  Who has a role has its
\* znode, and only the owner of both takes itself for the backup:
RolesConsistent ==
  \A s \in Servers :
    /\ up[s] = "up" <=> role[s] # "NONE"
    /\ role[s] = "PRIMARY" => znode.primary = s
    /\ role[s] = "BACKUP" => znode.backup = s
    /\ wpc[s] = "set_role" => role[s] = "BACKUP" /\ znode.primary = s
    /\ wpc[s] = "delete_backup" => role[s] = "PRIMARY" /\ znode.backup = s

\* A server that has not started has done nothing and is known to nobody:
NewUntouched ==
  \A s \in Servers :
    up[s] = "new" =>
      log[s] = <<>> /\ flight[s] = <<>> /\ pair[s] = NoServer /\ s \notin {znode.primary, znode.backup}

\* A primary is nobody's backup, and the registered backup is nobody else's:
PairsConsistent ==
  /\ znode.primary # NoServer => pair[znode.primary] = NoServer
  /\ znode.primary # NoServer /\ znode.backup # NoServer =>
       pair[znode.backup] \in {NoServer, znode.primary}

\* Only a primary sends, and only to servers that no other primary sends to:
ProcessorConsistent ==
  \A s \in Servers :
    /\ done[s] <= Len(log[s])
    /\ ppc[s] # "idle" => done[s] < Len(log[s])
    /\ up[s] = "up" /\ ppc[s] \in {"get_backup", "connect"} => role[s] = "PRIMARY"
    /\ up[s] = "up" /\ ppc[s] = "connect" =>
         /\ target[s] \in Servers /\ up[target[s]] # "new"
         /\ pair[target[s]] \in {NoServer, s}

\* So a backup has not been sent more than its primary is done with:
GotCount(b) == Len(log[b]) + Len(flight[b])
CountBounded ==
  \A b \in Servers : pair[b] # NoServer => GotCount(b) <= Replicated(pair[b])

\* Types and all of these: nobody sends, or is sent, what the roles do not allow.
IInv ==
  /\ TypeOK /\ RolesConsistent /\ NewUntouched /\ PairsConsistent
  /\ ProcessorConsistent /\ CountBounded

\* The inductive invariant behind BackupFollows.  What is on its way to a backup is
\* from its primary, and unless b registered after the primary asked for the address
\* of the backup, which must then be a dead one, the next task goes to b:
PairsFollow ==
  \A b \in Servers : pair[b] # NoServer =>
    LET p == pair[b] IN
    /\ p # b
    /\ up[b] = "up" =>
         /\ joined[b] <= Addressed(p)
         /\ up[p] = "up" /\ ppc[p] = "connect" =>
              IF target[p] = b THEN joined[b] <= done[p] ELSE joined[b] = done[p] + 1
         /\ \A i \in DOMAIN flight[b] : flight[b][i].from = p

\* An identifier is a position in the queue of the server that gave it:
IdentifiersKept ==
  \A op \in DOMAIN given :
    LET by == given[op].by
        id == given[op].id
    IN id < Len(log[by]) /\ log[by][id + 1] = op

\* The operations in the queue of s, those on their way to it, and those that the
\* primary has or will have to send.
LogOps(s) == {log[s][i] : i \in DOMAIN log[s]}
FlightOps(s) == {flight[s][i].op : i \in DOMAIN flight[s]}
ToSend(p) == {log[p][i] : i \in Replicated(p) + 1 .. Len(log[p])} \cup FlightOps(p)

\* Behind QueuedOnce: nothing is twice in a queue and on the way to it, and what the
\* primary has to send is news to the backup.
EachOnce ==
  /\ \A s \in Servers :
       /\ LogOps(s) \cup FlightOps(s) \subseteq 1 .. Len(given)
       /\ LogOps(s) \cap FlightOps(s) = {}
       /\ \A i, j \in DOMAIN log[s] : log[s][i] = log[s][j] => i = j
       /\ \A i, j \in DOMAIN flight[s] : flight[s][i].op = flight[s][j].op => i = j
  /\ LET p == znode.primary
         b == znode.backup
     IN NoServer \notin {p, b} /\ p # b =>
          ToSend(p) \cap (LogOps(b) \cup FlightOps(b)) = {}

OrderInv ==
  /\ IInv /\ PairsFollow /\ BackupFollows /\ IdentifiersKept
  /\ selfSent = {} => EachOnce

\* "+1 if it was successfully executed" (client_stub.h:57-59), whoever is the
\* backup by then.
VerifyTruthful == \A op \in DOMAIN given : Verified(op) => Executed(op)

\* A server queues an operation twice only when one, in the middle of its promotion,
\* took itself for the backup (zk-private.c:201-214, tree_skel.c:108).
QueuedOnce ==
  selfSent = {} => \A s \in Servers, op \in Ops : Occurrences(op, log[s]) <= 1
=============================================================================
