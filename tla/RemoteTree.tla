----------------------------- MODULE RemoteTree -----------------------------
(***************************************************************************)
(* A command from the keyboard to the tree and back: _run_command of       *)
(* source/client/tree_client.c, the functions of client_stub.c that turn   *)
(* it into a request and read the response, invoke of tree_skel.c, and the *)
(* binary tree with one write-operation waiting for it.                    *)
(*                                                                         *)
(* The client is connected (ClientStub is about that), messages arrive     *)
(* whole (Framing), and the order of tasks is that of TreeSkel.            *)
(***************************************************************************)
EXTENDS BinaryTree, SequencesExt

CONSTANT Texts  \* what a user types for the data of an entry

VARIABLES
  tree,         \* the server's tree
  task,         \* the Message of the task in the queue, or NULL
  task_result,  \* what tasks_get_result answers for the last task
  alive,        \* the server has not killed itself
  asked         \* ghost: the command that the task stems from, or NULL

vars == <<tree, task, task_result, alive, asked>>

TaskResult == [SUCCESSFUL |-> 1, NOT_EXECUTED |-> 0, FAILED |-> -1]

Init ==
  /\ tree = tree_create /\ task = NULL /\ task_result = TaskResult.NOT_EXECUTED
  /\ alive = TRUE /\ asked = NULL

-----------------------------------------------------------------------------
(* tree_client.c: commands, with NULL for an argument that is missing.     *)

Args == Strings \cup {NULL}
Ids == {0, 1}
Commands == [cmd: {"size", "height", "getkeys"}]
            \cup [cmd: {"del", "get"}, key: Args]
            \cup [cmd: {"put"}, key: Args, text: Texts \cup {NULL}]
            \cup [cmd: {"verify"}, id: Ids \cup {-1, NULL}]

ASSUME RemoteTreeAssumption ==
  Texts \subseteq Seq(Bytes \ {0}) /\ 0 \in Bytes /\ NULL \notin Commands

\* The string and its terminator.
entry_create_from_args(key, text) ==
  IF key = NULL \/ text = NULL THEN NULL
  ELSE entry_create(key, data_create2(Len(text) + 1, Append(text, 0)))

\* The bytes that printf("%s") shows.
Shown(data) == SubSeq(data, 1, SelectInSeq(data, LAMBDA byte : byte = 0) - 1)

-----------------------------------------------------------------------------
(* client_stub.c: the request of each function ...                         *)

InvalidArgs(c) ==
  CASE c.cmd \in {"del", "get"} -> c.key = NULL
    [] c.cmd = "put" -> entry_create_from_args(c.key, c.text) = NULL
    [] c.cmd = "verify" -> c.id = NULL \/ c.id = -1
    [] OTHER -> FALSE

Request(c) ==
  CASE c.cmd = "put" ->
         Message(OpCode.PUT, "ENTRY", entry_to_msg(entry_create_from_args(c.key, c.text)))
    [] c.cmd = "get"     -> Message(OpCode.GET, "KEY", c.key)
    [] c.cmd = "del"     -> Message(OpCode.DEL, "KEY", c.key)
    [] c.cmd = "size"    -> Message(OpCode.SIZE, "NONE", NULL)
    [] c.cmd = "height"  -> Message(OpCode.HEIGHT, "NONE", NULL)
    [] c.cmd = "getkeys" -> Message(OpCode.GETKEYS, "NONE", NULL)
    [] c.cmd = "verify"  -> Message(OpCode.VERIFY, "OP_ID", c.id)

(* ... and what it returns for the response.                               *)

Understood(response, content_case) ==
  IF response = NULL THEN FALSE
  ELSE response.op_code # OpCode.ERROR /\ response.content_case = content_case

rtree_put(response) == IF Understood(response, "OP_ID") THEN response.content ELSE -1
rtree_del(response) == rtree_put(response)
rtree_get(response) ==
  IF Understood(response, "VALUE") THEN msg_to_data(response.content) ELSE NULL
rtree_size(response) == IF Understood(response, "INT_RESULT") THEN response.content ELSE -1

\* Fault: a failure is -1, which is also the height of an empty tree.
rtree_height_MinusOne(response) ==
  IF Understood(response, "INT_RESULT") THEN response.content ELSE -1

rtree_height(response) == IF Understood(response, "INT_RESULT") THEN response.content ELSE -2
rtree_get_keys(response) ==
  IF Understood(response, "KEYS") THEN msg_to_keys(response.content) ELSE NULL
rtree_verify(response) == rtree_size(response)

-----------------------------------------------------------------------------
(* tree_skel.c: the response to a request, with the identifier that a task *)
(* would be given and the result that is recorded for the one in question. *)

Response(request, id, result) ==
  LET op == request.op_code
      ct == request.content_case
  IN CASE op = OpCode.SIZE   -> Message(op + 1, "INT_RESULT", tree_size(tree))
       [] op = OpCode.HEIGHT -> Message(op + 1, "INT_RESULT", tree_height(tree))
       [] op = OpCode.GETKEYS -> Message(op + 1, "KEYS", keys_to_msg(tree_get_keys(tree)))
       [] op = OpCode.GET /\ ct = "KEY" ->
            LET value == tree_get(tree, request.content) IN
            IF value = NULL THEN Message(OpCode.ERROR, "NONE", NULL)
            ELSE Message(op + 1, "VALUE", data_to_msg(value))
       [] op = OpCode.DEL /\ ct = "KEY"   -> Message(op + 1, "OP_ID", id)
       [] op = OpCode.PUT /\ ct = "ENTRY" -> Message(op + 1, "OP_ID", id)
       [] op = OpCode.VERIFY /\ ct = "OP_ID" -> Message(op + 1, "INT_RESULT", result)
       [] OTHER -> Message(OpCode.ERROR, "INT_RESULT", -1)

\* What the stub receives for a command: NULL when the server is gone.
Received(c, id, result) ==
  IF alive THEN Sent(Response(Sent(Request(c)), id, result)) ELSE NULL

-----------------------------------------------------------------------------
(* tree_client.c: what the user is told.                                   *)

Say(text) == [say |-> text]
Tell(text, arg) == [say |-> text, arg |-> arg]

Queued(op_id) ==
  IF op_id < 0 THEN Say("Operation failed!") ELSE Tell("Operation queued with id", op_id)

Told(c, response) ==
  CASE InvalidArgs(c) -> Say("Invalid args.")
    [] c.cmd = "size" ->
         LET size == rtree_size(response) IN
         IF size < 0 THEN Say("Query failed!") ELSE Tell("size", size)
    [] c.cmd = "height" ->
         LET height == rtree_height(response) IN
         IF height < -1 THEN Say("Query failed!") ELSE Tell("height", height)
    [] c.cmd = "get" /\ ~InvalidArgs(c) ->
         LET value == rtree_get(response) IN
         IF value = NULL THEN Say("Query failed!")
         ELSE IF value.data = NULL THEN Say("Key not found!")
         ELSE Tell("value", Shown(value.data))
    [] c.cmd = "getkeys" ->
         LET keys == rtree_get_keys(response) IN
         IF keys = NULL THEN Say("Query failed!") ELSE Tell("keys", keys)
    [] c.cmd = "verify" /\ ~InvalidArgs(c) ->
         LET op_result == rtree_verify(response) IN
         IF op_result < 0 THEN Say("Operation failed!")
         ELSE IF op_result = 0 THEN Say("Operation not yet executed!")
         ELSE Say("Operation done!")
    [] c.cmd = "del" /\ ~InvalidArgs(c) -> Queued(rtree_del(response))
    [] c.cmd = "put" /\ ~InvalidArgs(c) -> Queued(rtree_put(response))

-----------------------------------------------------------------------------
(* Steps.                                                                  *)

Writing == {c \in Commands : c.cmd \in {"del", "put"} /\ ~InvalidArgs(c)}

\* A write-operation is queued: tasks_add_task copies the message.
Ask(c) ==
  /\ alive /\ task = NULL
  /\ c \in Writing
  /\ task' = Message_dup(Sent(Request(c)))
  /\ task_result' = TaskResult.NOT_EXECUTED
  /\ asked' = c
  /\ UNCHANGED <<tree, alive>>

Finish(result) == task' = NULL /\ task_result' = result /\ asked' = NULL

\* A new key needs a node, and malloc gives one.
ProcessPut ==
  /\ alive /\ task # NULL
  /\ task.op_code = OpCode.PUT /\ task.content_case = "ENTRY"
  /\ LET entry == msg_to_entry(task.content) IN
       \E n \in IF At(tree, Location(tree, entry.key)) = NULL THEN Free(tree) ELSE {NULL} :
         tree' = tree_put(tree, n, entry.key, entry.value)
  /\ Finish(TaskResult.SUCCESSFUL) /\ UNCHANGED alive

ProcessDel ==
  /\ alive /\ task # NULL
  /\ task.op_code = OpCode.DEL /\ task.content_case = "KEY"
  /\ ~tree_del_Fails(tree)
  /\ tree' = tree_del(tree, task.content)
  /\ Finish(TaskResult.SUCCESSFUL) /\ UNCHANGED alive

\* exit(1), with everything in memory and before any result.
ProcessDelFails ==
  /\ alive /\ task # NULL
  /\ task.op_code = OpCode.DEL /\ task.content_case = "KEY"
  /\ tree_del_Fails(tree)
  /\ alive' = FALSE
  /\ Finish(TaskResult.NOT_EXECUTED) /\ UNCHANGED tree

Next == (\E c \in Commands : Ask(c)) \/ ProcessPut \/ ProcessDel \/ ProcessDelFails

Spec == Init /\ [][Next]_vars

-----------------------------------------------------------------------------
(* Properties.                                                             *)

\* The map that the tree stores, whatever a search in it would find.
Typed == {data_create2(Len(text) + 1, Append(text, 0)) : text \in Texts}

Map == INSTANCE Operations WITH
         Keys <- Strings, Values <- Typed, NoValue <- NotFound, MaxTasks <- 1

Stored(t) ==
  [k \in Strings |->
     IF \E n \in DOMAIN t.heap : t.heap[n].entry.key = k
     THEN t.heap[CHOOSE n \in DOMAIN t.heap : t.heap[n].entry.key = k].entry.value
     ELSE NotFound]

\* The nodes below each node, itself included.
Subtree(t) ==
  LET nodes[n \in DOMAIN t.heap \cup {NULL}] ==
        IF n = NULL THEN {} ELSE {n} \cup nodes[t.heap[n].left] \cup nodes[t.heap[n].right]
  IN nodes

IsTree(t) ==
  /\ t = [heap |-> t.heap, root |-> t.root, size |-> t.size, height |-> t.height]
  /\ DOMAIN t.heap \subseteq Nodes
  /\ t.heap \in [DOMAIN t.heap -> [entry: [key: Strings, value: Typed],
                                   left: Nodes \cup {NULL}, right: Nodes \cup {NULL}]]
  /\ t.root \in Nodes \cup {NULL} /\ t.size \in Nat /\ t.height \in Nat \cup {-1}

\* Every variable keeps to the values that its declaration and the code give it.
TypeOK ==
  /\ IsTree(tree)
  /\ alive \in BOOLEAN /\ task_result \in {TaskResult.SUCCESSFUL, TaskResult.NOT_EXECUTED}
  /\ \/ asked = NULL /\ task = NULL
     \/ asked \in Writing /\ task = Request(asked)

\* The tree has its nodes below its root, none of them below itself, and its keys in order.
Ordered(t, below) ==
  LET nodes == DOMAIN t.heap
      key(n) == t.heap[n].entry.key
  IN /\ below \in [nodes \cup {NULL} -> SUBSET nodes]
     /\ t.root \in nodes \cup {NULL} /\ below[NULL] = {} /\ below[t.root] = nodes
     /\ \A n \in nodes :
          LET left == t.heap[n].left
              right == t.heap[n].right
          IN /\ {left, right} \subseteq nodes \cup {NULL}
             /\ below[n] = {n} \cup below[left] \cup below[right]
             /\ \A m \in below[left] : key(m) < key(n)
             /\ \A m \in below[right] : key(m) > key(n)

\* However keys are put and deleted, no node is lost or shared, smaller keys are to
\* the left, larger ones to the right (the pointers of tree_node_del), the size that
\* tree_put and tree_del count is the number of nodes, and the height that tree_put
\* has from the depth of its search is that of the tree.
WellFormed ==
  /\ TypeOK
  /\ Ordered(tree, Subtree(tree))
  /\ tree.size = Cardinality(DOMAIN tree.heap)
  /\ tree.height = tree_compute_height(tree)

\* What a write-operation does, as the user typed it.
WriteAsked ==
  IF asked.cmd = "del" THEN [op |-> "DEL", key |-> asked.key]
  ELSE [op |-> "PUT", key |-> asked.key,
        value |-> entry_create_from_args(asked.key, asked.text).value]

\* tree_put and tree_del do to the map what Operations says, for the command as the
\* user typed it: nothing is lost on the way through two messages and a copy, no other
\* key changes, and only a del of a key that is not there can end without success.
WritesAreMapWrites ==
  [][task # NULL /\ task' = NULL =>
       /\ Stored(tree') = Map!Apply(Stored(tree), WriteAsked)
       /\ \/ task_result' = TaskResult.SUCCESSFUL
          \/ asked.cmd = "del" /\ Stored(tree)[asked.key] = NotFound]_vars

\* "Retorna 0 (ok) ou -1 (key not found)" (tree.h:40; test_tree.c:144-145 and
\* test_all-private.c:364), and -1 from verify for an operation that failed
\* (client_stub.h:57-59; test_server-private.c:306-307 for a del on an empty tree): a
\* del of a key that is not there ends with FAILED, which a living server can tell.
\* tree_del answers 0 unless the tree is empty, and then process_tree_del ends the
\* process.
MissingKeyTold ==
  [][task # NULL /\ task' = NULL /\ asked.cmd = "del" /\ Stored(tree)[asked.key] = NotFound =>
       alive' /\ task_result' = TaskResult.FAILED]_vars

\* What the user is told of the tree is what the map says, for every command, with
\* none of the answers taken for a failure or the reverse: -1 for the height of an
\* empty tree, no data for a missing key, an empty list, and identifier 0.  When the
\* server is gone every command is told to have failed.
ToldTrue ==
  LET stored == Map!StoredKeys(Stored(tree))
      told(c, id, result) == Told(c, Received(c, id, result))
      answer(cmd) == told([cmd |-> cmd], 0, 0)
      keys == answer("getkeys").arg
  IN IF ~alive
     THEN \A c \in Commands :
            InvalidArgs(c) \/ told(c, 0, 0).say \in {"Query failed!", "Operation failed!"}
     ELSE
     /\ answer("size") = Tell("size", Cardinality(stored))
     /\ \E h \in Map!Heights(Cardinality(stored)) : answer("height") = Tell("height", h)
     /\ answer("getkeys").say = "keys" /\ ToSet(keys) = stored
     /\ \A i, j \in 1 .. Len(keys) : i < j => keys[i] < keys[j]
     /\ \A k \in Strings :
          told([cmd |-> "get", key |-> k], 0, 0) =
            IF k \in stored THEN Tell("value", Front(Stored(tree)[k].data))
            ELSE Say("Key not found!")
     /\ \A c \in Commands, id \in Ids :
          c.cmd \in {"put", "del"} /\ ~InvalidArgs(c) =>
            told(c, id, 0) = Tell("Operation queued with id", id)
     /\ \A id \in Ids, result \in {-1, 0, 1} :
          told([cmd |-> "verify", id |-> id], 0, result).say =
            CASE result = -1 -> "Operation failed!"
              [] result = 0  -> "Operation not yet executed!"
              [] result = 1  -> "Operation done!"

\* No message changes on its way, nor when it is copied: those of the user, the
\* responses to them, and the task as it is sent on to the backup server.
MessagesKept ==
  LET requests == {Request(c) : c \in {d \in Commands : ~InvalidArgs(d)}}
      responses == {Response(r, id, 0) : r \in requests, id \in Ids}
  IN \A m \in requests \cup responses \cup ({task} \ {NULL}) :
       Sent(m) = m /\ Message_dup(m) = m

\* A tree that is not empty comes back from its buffer with the same nodes at the
\* same places, and with the size and the height, counted anew, that tree_put and
\* tree_del kept up; an empty one does not come back (buffer_to_tree).
TreeRoundTrip ==
  LET shape(t) ==
        LET of[n \in DOMAIN t.heap \cup {NULL}] ==
              IF n = NULL THEN NULL
              ELSE [entry |-> t.heap[n].entry, left |-> of[t.heap[n].left], right |-> of[t.heap[n].right]]
        IN <<of[t.root], t.size, t.height>>
      copied == buffer_to_tree(tree_to_buffer(tree))
  IN IF tree.root = NULL THEN copied = NULL ELSE shape(copied) = shape(tree)
=============================================================================
