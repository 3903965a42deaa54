# A TLA+ verification of sdistr2020-group48

The repository is a replicated key-value store in C: clients, a primary and a
backup `tree_server`, and ZooKeeper, which tells everybody who is who. This
directory holds models of its parts, their model-checking configurations and
machine-checked proofs. Every action is a translation of the code named in its
comment; `PROJECT.json` maps each definition to its lines.

## 1. The system

### Components

| component | state | operations | what makes it correct |
|---|---|---|---|
| **tree skeleton** `server/tree_skel.c` | the tree, `tree_lock`, the tasks-processor thread | `tree_skel_init`, `invoke`, `process_tasks`, `replicate_to_backup_server`, `tree_skel_destroy` | reads see whole operations; operations take effect once, in the order of their ids; what is sent to the backup is in that order |
| **task queue** `server/tasks-private.c` | queue, list of results, three mutexes, a condition variable, `destroyed`, the last id | `tasks_add_task`, `tasks_get_next`, `tasks_set_result`, `tasks_get_result`, `tasks_destroy` | no task used after it is freed, none lost, no lost wake-up, no deadlock, orders that the early stop of the search needs |
| **main loop** `server/network_server.c` | an array of six `pollfd`, `client_sockets_count` | poll, accept, read-invoke-answer, compaction, close | every open client is polled, no blocking read without input, clients keep their order, places are not lost |
| **roles** `zk-private.c` and `server/tree_server.c` | ZooKeeper's znodes, watches and sessions; `server_role`, `servers_listener` | connect, register, watch, promote, close | at most one primary, roles as ZooKeeper shows them, a lost primary replaced |
| **client** `client/tree_client.c`, `client_stub.c`, `network_client.c` | `rtree` (two addresses, two sockets), `are_servers_connected` | connect, retry, seven requests, disconnect; `on_servers_changed` | requests go to the right server, sockets neither leaked nor closed for another, memory freed once |
| **framing** `inet-private.c` | what is written, under way and read of a connection | `network_send_message`, `network_receive_message`, close | messages arrive whole, once and in order |
| **replication** (the servers together) | two trees, two queues, connections between them | one connection per operation, promotion | the backup misses and repeats nothing; what `verify` confirms has been executed |
| **binary tree** `tree.c` | nodes, cached size and height | put, get, del, size, height, keys, to and from a buffer | it is the map of its header, and its pointers are a search tree |
| **messages** `data.c`, `entry.c`, `message-private.c`, `serialization.c`, `sdmessage.pb-c.c` | — | conversions and copies | what is put into a message is what is taken out |
| **commands** `tree_client.c`, `client_stub.c`, `invoke` of `tree_skel.c` | — | nine commands, their requests and responses | what the user is told is true of the tree |
| logger, tests, build | — | — | — |

### Interaction

A client sends each write to the primary, which answers with an id at once
(`tasks_add_task`) and executes the task later in a second thread: on its tree,
then on the backup, over a connection opened for that one operation, then it
records the result. Reads and `verify` go to the backup, which received the
operation as any other client request, queued it and gave it an id of its own.
Whoever fails to replicate kills itself. ZooKeeper's client library runs a third
thread in every process: it is told once that the children of `/kvstore`
changed, asks to be told again and calls a listener, which promotes a backup
(`on_servers_change`) or closes a client's sockets (`on_servers_changed`).

### What is hard

Interleaved threads with reads outside locks; a shutdown that frees memory in
use; one-shot watches; check-then-create races in ZooKeeper; sessions that
outlive a crash; an array compacted while it is scanned; sockets closed by
another thread, and their numbers reused; the full list, line by line, is under
`hazards` in `PROJECT.json`.

## 2. Modules

| module | models | composed of |
|---|---|---|
| `Operations` | requests, responses, and what operations do to the map | — |
| `AsyncStore` | **abstract**: what a server promises to its clients | `Operations` |
| `TreeSkel` | one server process: `tree_skel.c` + `tasks-private.c`, two threads | `Operations` |
| `TreeSkelProperties` | its properties, its inductive invariant and its refinement of `AsyncStore` | `TreeSkel`, `AsyncStore` |
| `TreeSkelProofs` | proofs about it | `TreeSkelProperties` |
| `NetworkServer` | the main loop of a server, and its clients | — |
| `NetworkServerProofs` | proofs about it | `NetworkServer` |
| `ServerRoles` | registration and promotion of any number of servers, and ZooKeeper | — |
| `ServerRolesProofs` | proofs about it | `ServerRoles` |
| `ClientStub` | one client's two threads, and the servers it sees | — |
| `ClientStubProofs` | proofs about it | `ClientStub` |
| `Replication` | the servers together, and clients that write and verify | what `TreeSkel` and `ServerRoles` do that another server can see |
| `ReplicationProofs` | proofs about it: roles, counts and `verify`; then what a backup was sent, in which order and how often | `Replication` |
| `Messages` | data, entries, messages, their copies and their packing | — |
| `MessagesProofs` | proofs about it | `Messages` |
| `BinaryTree` | the tree with its nodes, and its conversion to a buffer | `Messages` |
| `RemoteTree` | a command from the keyboard to the tree and back | `BinaryTree`, `Operations` (as the abstract map) |
| `RemoteTreeProofs` | proofs about the nodes and about the commands | `RemoteTree`, `MessagesProofs` |
| `MessageChannel` | **abstract**: a channel of whole messages | — |
| `Framing` | one direction of a connection, byte by byte, and its refinement of `MessageChannel` | `MessageChannel` |
| `FramingProofs` | proofs about it | `Framing` |
| `MC…` | symmetries for TLC, and liveness stated for one of several equals; the `.cfg` files give the constants | |

Properties stand at the end of each module (of `TreeSkel` in a module of their
own), each with the code it is about. Operators whose comment starts with
*Fault* are variants of the one that follows, with a plausible mistake; no
specification uses them. They show that the properties can fail: `mutants` in
`PROJECT.json` lists which variant violates which property.

### TreeSkel

`mpc` and `ppc` are the next statements of the main thread and of the tasks
processor; an action is the code up to the next point where the other thread
can tell the difference (a lock, an unlock, an access to a shared variable
outside a lock). `owner` says who holds each mutex, and whether it is
initialised or destroyed. The tree is the map it stores (`store`); its height is
any height that a binary tree with that many nodes can have. `queue` and
`results` are the linked lists from their heads. `ptask` is the processor's
pointer to a task: the model says when such a pointer dangles (`Dangling`), and
what happens then is either of what the build can do, a read of what was there
or a crash (`ProcFault`). `sent` is a ghost: what was sent to the backup.
`AllocMayFail` lets `malloc` fail where the code handles it. `exit(1)` ends both
threads.

`TreeSkelProperties!Abstract` is the refinement mapping: a task is *pending*
until the processor has changed the tree and *executed* from then on, although
its result is recorded later, since `tree_lock` keeps the main thread from
looking in between; a write is answered when it is in the queue.

### NetworkServer

`sockets` are the places 1 to `MAX_CLIENT_SOCKETS` of the array, each with its
descriptor and whether the last poll reported input. `peer[c]` is what the
client at the other end has done: a message comes in two parts, because poll
reports the first byte while the read blocks until the last. `Compacted` is the
outer loop of lines 152-170: `Compacting[n]` is the array after `n` of its rounds, each
of which (`MoveToEnd`) is the inner loop.
A failed `accept` stores -1 in the array as the code does.

### ServerRoles

Each server has a main thread (`mpc`: `zk_connect`, `zk_register_tree_server`,
`zk_register_servers_listener`, `zk_close`) and the watcher of ZooKeeper's
client (`wpc`: `zk_children_watcher`, `on_servers_change`,
`zk_update_server_roles`). Every call to ZooKeeper is one step: what it answered
may be out of date at the next. ZooKeeper itself is external: a linearizable set
of znodes with their owner and data, watches that trigger once, ephemeral znodes
deleted at the end of a session. `Crash` can come at any time; `Expire`, the end
of the session, later.

### ClientStub

The two threads again, with each load of a socket number, each `close`, each
`free` a step. `peer` is the table of descriptors, in which a new socket gets the
lowest one that is closed. `ip` says whether a pointer is null, set or freed: a
second `free` aborts or goes unnoticed. The servers register, die, expire and
are promoted as in `ServerRoles`, at the granularity that a client sees. `missed`
is a ghost: a notification was handled while the client was between its first
look at ZooKeeper and the end of its connecting, and no retry has put that right.

### Replication

A server is its queue of tasks (`log`, of which `done` have results), its
processor (`ppc`: execute, read the role, ask ZooKeeper for the backup, connect and
send, record), its role and the watcher's three steps of a promotion. Queueing
requires `ppc[s] = "idle"`: `invoke2` and `process_tasks` exclude each other by
`tree_lock`, which the processor holds while it replicates; `TreeSkel` shows that.
A write-operation is a number; the identifier that a server gives is the length of
its log. `flight[s]` are the connections made to `s` and not yet read, in the order
in which they were made. They are read in this order if `ordered`, which is chosen
at the start: the accept queue and `AcceptanceOrderKept` give it on one host, a
network that reorders connections does not. `Crash` covers every `exit(1)`;
messages that a dead process sent still arrive, unless its host died too
(`hostLost`, `Lose`). Registration is one step here (`ServerRoles` has its races),
and clients write to the registered primary only (`ClientStub` has the
exceptions). `pair`, `joined`, `given` and `selfSent` are ghosts: the primary a
backup registered under, how much that had sent by then, who gave which
identifier, and who sent a task to itself. No server comes back: a new process is
a new, empty server.

### Messages, BinaryTree, RemoteTree

A pointer is its referent or `NULL`, since every conversion copies; a message
packed is the record of the fields that proto3 writes, which says where an empty
and an absent field become the same (`PackData`, `UnpackData`, `PackMessage`).
`BinaryTree` keeps the heap of nodes, and a `tree_node_t**` is a location, the root
field or a field of a node; `LowestSuccessor` and `ReplaceBySuccessor` are the
statements of `_tree_node_del` in their order. `RemoteTree` keeps one server's
tree, one queued task and the result that is recorded for it (`task_result`). `Told(c, response)` composes the user's command, the
request of the stub, `invoke`, the response and what is printed, each through
`Sent`, the packing and unpacking of a message; writes become tasks by
`Message_dup` and are executed later, or kill the server. Reads do not change the
state, so what they answer is stated of every state (`ToldTrue`).

### Framing

The sender's buffer and how much of it is written, the bytes on the wire, the
receiver's buffer. A byte has `Radix` values and an int `SizeOfInt` bytes, with a
sign; `htonl` and `Unsigned` take a number apart and put it together. `Close` comes at any time, also in the middle of a message, as when the
primary's process ends, and what was written still arrives; `Reset` loses it.
`ImplementsChannel` maps a message that the sender has begun to one in the pipe.

## 3. Runs

| run | instance | what it shows |
|---|---|---|
| `skel` | 2 keys, 2 values, 3 tasks, fairness | the processor's task and the task whose id is returned are never freed memory; the orders of ids; no lost wake-up; answers of verify are stable; **the process implements `AsyncStore`**; every request is answered and every shutdown ends; every queued task is executed or the process dies |
| `skel_nomemory` | the same, `malloc` may fail | the inductive invariant of the proofs, replication in order, and no task lost without a result |
| `net` | 3 connections, 3 places, fairness | the inductive invariant of the proofs; every connection is polled at exactly one place; no blocking read without input; at most the first place is lost; connections keep their order; requests are read; connections are accepted |
| `roles_safety` | 3 servers, fairness | one primary; roles as in ZooKeeper; a listening backup does not sleep through the loss of its primary |
| `roles_promotion` | 2 servers, fairness | *violated*: a backup that registered just before the loss stays a backup |
| `client_safety` | 3 servers, 3 descriptors | the inductive invariant of the proofs; sockets, addresses and routing are right unless a notification met the client while it connected; `rtree` outlives the listener; the only leak is the one of `network_connect` |
| `client_retry` | 2 servers | *violated*: two failed `retry` in a row free an address twice |
| `replication_safety` | 3 servers, 2 operations of clients, logs up to 3 | the inductive invariant of the proofs (`OrderInv`, which contains `IInv`); a backup is sent what its primary executed, once and in order; what it confirms was executed, and by itself if it was there from the start; only a server in mid-promotion queues an operation twice |
| `replication_verify` | as above | *violated*: a backup confirms an operation that nobody executed, under an identifier that another server gave |
| `tree` | 5 keys, 5 nodes, 2 texts | the inductive invariant of the proofs (`WellFormed`): the nodes are a search tree with its size and height; every command tells what the map says; messages and copies are exact; a tree comes back from its buffer; writes do to the map what `Operations` says, and only a `del` of a missing key is without success |
| `tree_missing` | 5 keys, 2 nodes | *violated*: a `del` of a key that is not there does not end with a failure that a client can be told |
| `framing` | bits, 3 of them an int, 4 messages, 5 bits under way, 3 sent | no byte lost, repeated or moved; **the two functions implement `MessageChannel`**; what was sent whole arrives |

**Bounds.** Three tasks make queues with a task executing, one waiting and one
being added, and a list of results with a middle; two keys and values separate
the operations. Three places and three connections give every shape of a hole in
the array (first, middle, last, all); a connection that was closed is opened again,
and once the first place is lost the array is full with two of them and the third
waits outside it. Three servers are a primary, a backup and a newcomer, which is what each race needs;
a client sees with three servers one complete replacement of its pair. `Fds` has
one descriptor more than a connected client needs, so that one can leak or be
reused. `MaxTasks` bounds the ids and `MaxSends` the operations that are
executed again for want of memory; both are guards of `ReceiveRequest` and
`ProcSetResultFails`. `Replication` needs three servers for a backup that outlives its
primary and is joined by a new server; two operations, one of which is executed by
one server and confirmed by another; `MaxLog` leaves room for one that a server
sends to itself. Five keys and nodes include every case of `_tree_node_del`: a
successor that is the child of the node or is below it, with and without a child of
its own. In `Framing` one payload equals an encoded size, one is empty, and a size
is cut at every bit; `Capacity` holds one message with its size and part of the
next. Deadlock is checked in the `TreeSkel` runs (an exited
process stutters); the others may really stop: a server that returned from its
loop, servers that have all gone, a client that has quit.

**Fairness.** `TreeSkel`: the threads of a process run (weak fairness of each),
and the main thread does not lose the race for the queue's mutex for ever
(strong fairness of `LockQueue`: the processor, woken spuriously, may take it in
between infinitely often). `NetworkServer`: the loop runs; `accept` does not fail
for ever; a client that began a message completes it or closes, without which
the code really blocks (line 98 of `inet-private.c`). `ServerRoles`: both threads
of a server run. Nothing is assumed of clients' requests, of signals, or of when a
server starts or dies and its session expires. `PrimaryRestored` is checked for one
server, `RequestsServed` and `ClientsAccepted` for one connection, which stands for
all: nothing in the modules tells servers, or connections, apart.
`Framing`: the receiver reads (weak fairness of `Read` and `ReadFails`); nothing is
assumed of the sender, for `SentIsReceived` speaks of what is already written.
`ClientStub`, `Replication` and `RemoteTree` have no liveness property.

**What the violations mean.** They are disagreements between the code and its
documentation, under `findings`. `replication_verify`: identifiers are positions in
the queue of the server that gave them, and the server that is asked about them
is another; `VerifyTruthfulInPair` says under which condition the two agree.
`tree_missing`: `tree.h` and three tests want a `del` of a key that is not there to
fail, and `verify` to tell so. There are two ways in which it does not. On an empty
tree `tree_del` does answer -1, and `process_tree_del` ends the server; this is TLC's
trace, the shortest. In a tree with nodes it answers 0, and a success is recorded: the
property still fails if the empty tree is left out (put one key, `del` another).
`WritesAreMapWrites` takes no side in either: in both cases the map stays as it was,
and only a `del` of a key that is not there may end without success. Others that were
met while modelling and have no run of their own:

- if the listener runs while a client's main thread reconnects, it may close the new
  primary socket, whose number the backup's connection then gets; both fields of
  `rtree` name one socket and writes go to the backup. `RequestRouted` excludes
  this by `~missed`;
- of two servers that start together one exits although no backup is registered
  (`zk-private.c:131-140`, against `zk-private.h:18-21`);
- after all clients have left, `client_sockets_count` is 1: a server may refuse a
  connection with fewer clients than `MAX_CLIENT_SOCKETS` (`AtMostOnePlaceLost` says
  that it loses no more than that place);
- an empty tree does not come back from its buffer (`TreeRoundTrip`);
- the first write after a promotion ends the new primary, which has no backup
  (`tree_skel.c:109`); the queue of a promoted server goes the same way, or in part
  to itself (`QueuedOnce`);
- `README.md` of the repository says that write-operations are not replicated; the
  code has done so since (`tree_skel.c:103-148`), and the models follow the code.

## 4. Proofs

`TreeSkelProofs` (1344 obligations) proves for every set of keys and values,
any number of tasks, with or without memory: `Spec => []IInv`, and from it
`TypeOK`, `ProcessorTaskAlive`, `ReturnedTaskAlive`, `IdsOrdered`,
`NoLostWakeup`, `TreeLockProtects`, `SearchExact`, `SentInOrder`, and the action
properties `ResultsStable` and `NoTaskForgotten`; and, when memory suffices, that the
two threads implement `AsyncStore` (`Refinement`).

The argument: none of these is inductive alone. That the task of the processor
is the head of the queue depends on nobody else removing the head, hence on who
holds which mutex at each statement (`LocksMatch`). `ReturnedTaskAlive` needs
that `tree_lock` is held by the main thread at its unlocked read, and that the
processor executes, and frees, only under `tree_lock`. The orders of ids need
that the task being added is the newest there is (`NewestTask`). A shutdown takes
no lock, so the invariant speaks of the time before it (`~Stopped`), and
`StoppedStays` says that there is no way back. What was sent is in order because
the task in hand is younger than all that have a result (`SendsConsistent`): the
last id sent is that of the task in hand or older, and after a first one was sent
each result has its send before it. The lemmas follow the groups of
`IInv`: types, locks, tasks; `SearchFinds` and `SearchSound` are about
`tasks_get_result` on any list whose ids descend.

`Refinement` goes step by step: a step of the main thread answers the request that it
has in hand (`RequestInHand` says which one that is at each statement), or changes
nothing that a client can see (`HandlingRefines`); a step of the processor executes
the oldest pending operation, or nothing visible (`ProcessorRefines`, with
`HiddenStep` and `LockedView` for what happens while `tree_lock` hides the tree). An
answer of `verify` is that of the abstract store because the search is exact
(`VerifyAnswer`). Its hypothesis `AllocMayFail = FALSE` is a mode of the model, not an
assumption: where `malloc` fails after an operation was executed, the operation stays
in the queue and is executed again, which no store that executes once can do.

`ServerRolesProofs` (455 obligations) proves for any number of servers
`Spec => []IInv`, `TypeOK`, `AtMostOnePrimary`, `RolesVisible` and the action property
`LossNoticed`. The invariant
says that whoever has a role, is about to set it, or is inside
`zk_update_server_roles`, owns the znode of that role; two primaries would own one
znode. `OthersKept` (a step of one server leaves the others' memory and znodes
alone: here `zoo_delete` must be shown to delete one's own) and `LocalKept` (a
step keeps what the invariant says of its own server) together give the step.
`LossNoticed` is the safety part of `PrimaryRestored`: from the moment that the primary
is lost, a listening backup has an event, or is about to look, and it does not stop before
there is a primary again. The first half is that a watch is never lost without an event
(`WatchKept`), the second that without a primary a backup always finds its own znode, and
its promotion fails only if there is one again (`GoesOnNoticing`). What is left of
`PrimaryRestored` is that the threads run.

`ReplicationProofs` (3022 obligations) proves for any number of servers and
operations in its first part `Spec => []IInv` and `VerifyTruthfulInPair`. That the backup does not
confirm what its primary has not executed is a fact about counts: what a backup
was sent is at most what its primary has got past sending (`CountBounded`). It is
inductive only because nobody else sends to that backup: only primaries send, a
server that has read its role is still the primary when it connects, and the target
that it read is nobody else's backup (`ProcessorConsistent`, `PairsConsistent`,
`RolesConsistent`). A promoted server may send to itself, and a promotion may come
between the look-up of a target and the send: the invariant speaks of the pair, not
of the roles of the moment. `TypesNext`, `RolesNext`, `PairsNext`, `NewNext`,
`ProcessorNext` and `CountNext` are its parts, one case per action.

Its second part proves `Spec => []OrderInv`, and from it `BackupFollows`, `ReadsVerifiedWrites` and
`QueuedOnce`. `BackupFollows` compares a backup's queue and the messages on their way
to it with what its primary has sent since the backup registered. It is inductive with
`PairsFollow`: all that is on its way to a backup comes from its primary, and the next
task of the primary goes to that backup, unless the primary had asked for the address
before the backup registered; then the target is a dead server, and this one task is
not counted (`Addressed`). Both outcomes of `ordered` are covered: an equality of
sequences, and an equality of the number of occurrences, where receiving moves an
element from the middle of one sequence to the end of another (`OccurrencesMoved`).
`IdentifiersKept` ties an identifier to a position in the queue of the server that gave
it, which is what `verify` is about. `QueuedOnce` needs that an operation is in one
place only, in the queue of a server or on its way to it, and that what the primary
has still to send is news to the backup (`EachOnce`), as long as no server in the
middle of its promotion sent to itself.

`NetworkServerProofs` (1128 obligations) proves for any number of places and clients
`Spec => []IInv`, `TypeOK`, `EveryConnectionPolled`, `ReadsOnlyWithInput`,
`AtMostOnePlaceLost` and the action property `AcceptanceOrderKept`. The invariant says
that the connections in the array are below the count, each at one place, and are those
accepted and not closed (`PlacesConsistent`), and that a socket that poll reported and
the loop has not reached yet still has its input, wherever it was moved
(`InputsConsistent`). What the compaction does is an induction over its rounds
(`CompactedArray`): a round keeps every descriptor, their order and their being
different (`MoveToEndKeeps`, `KeepsOn`) and closes the holes from the top down
(`MoveToEndCloses`). A round speaks of one place and of the place of the last
connected socket, so that the induction is over a natural number (`RoundInduction`).

`FramingProofs` (1921 obligations) proves for any messages, any number of values of a
byte and any width of an int `Spec => []IInv`, `StreamExact`, and that the two functions
implement `MessageChannel` (`Refinement`). A size comes back from its bytes because
dividing by one more power of the radix is dividing twice, and because the size of a
message is in the lower half of the numbers (`SizeRoundTrip`). As long as the receiver
reads, what has arrived begins the stream that was sent (`ArrivedBegins`); the receiver
has returned the first messages of it whole, so that the bytes it reads next are those
of the next message: its size (`SizeInStream`), and with this size its content
(`MessageInStream`). Then a complete read is a `Get` of the head of the pipe and any
other step is a `Put`, an `End` or nothing. `EndsConsistent` is what makes this
inductive: the size that was read is that of the next message, and a full buffer never
waits.

`ClientStubProofs` (632 obligations) proves for any number of servers and
descriptors `Spec => []IInv`, `ConnectionSound`, `StaleNoticed`, `RequestRouted`,
`RtreeAlive` and the action property `LeakOnlyWithoutBackup`. Nothing locks what the
two threads share; what replaces a lock is where each of them can be. The listener
runs only while the main thread does not connect (`FlagsConsistent`; otherwise
`missed`), so that the sockets it closes are those it has loaded
(`ClosingConsistent`), and the main thread connects only from where both are closed
and both `sockfd` are -1 (`SocketsConsistent`, `ConnectPrepared`), so that nothing
is forgotten open. That a change is noticed rests on the watch being set, the event
waiting or the watcher about to ask again (`FlagsConsistent`, `ReadConsistent`).
`MissedNext` says that only a retry that finds the sockets closed takes `missed` back.

`MessagesProofs` (277 obligations) proves that every message of every type that the
functions build comes unchanged from packing and unpacking and from `Message_dup`
(`MessageKept`), for all keys, bytes and lengths, and that what is put into a message
is what is taken out (`ContentKept`).

`RemoteTreeProofs` (5113 obligations) proves for any keys, texts and nodes
`Spec => []WellFormed`, and from it `WritesAreMapWrites`, `ToldTrue`, `MessagesKept`
and `TreeRoundTrip`.

- *The invariant.* `Ordered(t, below)` says of a function from nodes to sets of nodes that
  it satisfies the equation of `Subtree`, that its sets cover the tree from the root, and
  that keys to the left are smaller and those to the right larger. It is an equation and no
  recursion, so that a step can be followed by giving the new function and checking the
  equation; that the nodes have one parent, that no node is below itself and that the sets
  on both sides are disjoint follow (`OneParent`, `BelowTransitive`, `SidesApart`). The
  keys are in the equation because with them every node is at the one place where a search
  looks for it.
- *Induction.* `TreeInduction` is on the number of nodes below a node, of which its children
  have fewer. With it, a function that a module defines by recursion over nodes exists
  (`RecursionExists`), and `Subtree` is the `below` of `Ordered` (`SubtreeIsBelow`). A loop
  of the code (`Search`, `LowestSuccessor`) is a function over its rounds, which run out
  because each leaves fewer nodes below (`SearchArrives`, `SuccessorIsLowest`).
- *The changes of pointers.* A search ends at the key or at the only empty place where the
  key can be (`Fits`, `Holds`). `tree_put` fills such a place (`InsertSound`);
  `tree_node_del` replaces a node by its only child (`SpliceSound`), or unlinks the lowest
  successor and puts it there (`ReplaceSound`, which covers a successor that is the
  right child itself).
- *Size and height.* `tree_put` takes the height from the depth of its search
  (`DepthOfSearch`), which is right since nodes beside the path keep their heights
  (`HeightOfInsertion`, `HeightElsewhere`); an overwrite keeps them all (`SameHeight`).
- *The map and the screen.* `PutStep` and `DelStep` say what a step does to the entries,
  `StoredChanges` what this is for the map; that the code's `tree_del` fails exactly when
  the map is empty, which `TreeSkel` relies on, is `StoredKeysAreKeys`. Answers go through `GetFinds`, `KeysAreListed`
  (in order, none missing), and `HeightIsPossible`: the height of a tree is one that
  `Operations` allows for its number of nodes, so that what `TreeSkel` leaves open includes
  what the code does. `ReceivedResponse` and `UnderstoodMessage` take each answer through
  its message by `MessageKept`.
- *The buffer.* It holds each entry after that of its parent (`TreeIsWritten`). Reading it,
  the tree so far is a copy of a part of the original that has the parent of each of its
  nodes (`Copies`), and the next put extends this copy, since a new key fits at one
  place only (`WhereItFits`, `CopyGrows`). A copy of the whole has its shape, size and
  height (`CopyIsWhole`).

Assumptions: the named `ASSUME`s of the modules (sentinels are not data, sets are
finite, bounds are naturals), which TLC evaluates in every run.

Recursive functions over numbers (`Compacting`, `Power`, and those in `Unsigned` and
`Stream`) are shown to satisfy their recursion (`RoundsExist`, `StepsExist`), and facts
about them are proved by an induction that is stated with a set of numbers instead of a
predicate (`RoundInduction`, `StepInduction`).

**Only model-checked**: liveness (`RequestsAnswered`, `TasksExecuted`,
`RequestsServed`, `ClientsAccepted`, `PrimaryRestored`, `SentIsReceived`), which is
beyond the provers with its fairness. Every invariant, action property and refinement
that a passing run checks has a theorem. The four properties that expect a violation
do not hold.

## 5. Not modelled

- *ZooKeeper's failures*: the session of a running process does not expire and
  calls do not fail for want of a connection. The code ignores the expiry
  (`zk-private.c:31-39`); with it, `AtMostOnePrimary` could not hold.
- *The wrap of ids* after 2^31 writes, errors of `pthread_create`.
- *Changes in place*: `data_replace`, `entry_replace`, `entry_initialize` and the
  destructors, for records have no identity in `Messages`; `malloc` succeeds there
  and in `BinaryTree`.
- *Encodings*: the bytes of a protocol-buffers field (the library's), the lengths
  inside the buffer of a tree, `parse_address_port`, `get_host`.
- *The places of a backup's array* in `Replication`: a connection that waits for one
  is in flight.
- *Input and output*: reading a line and cutting it into words, `logger-private.c`,
  the tests.

## 6. Plan

Done: all modules of section 2, and theorems for every safety property of the runs. What
would come next, in this order:

1. one specification of a server that has both the threads of `TreeSkel` and the nodes of
   `RemoteTree`, instead of two that share `Operations`;
2. memory failures in the conversions; a session that expires under a running server, if
   the code came to handle it.
