------------------------------ MODULE TreeSkel ------------------------------
(***************************************************************************)
(* One tree_server process: the skeleton of the tree                       *)
(* (source/server/tree_skel.c) and the queue of write-operations and list  *)
(* of results it works on (source/server/tasks-private.c).                 *)
(*                                                                         *)
(* Two threads share this state.  The main thread answers one request at a *)
(* time: it reads the tree, or queues a write-operation and answers with   *)
(* the identifier of the task.  The tasks-processor thread takes the       *)
(* oldest task, applies it to the tree, replicates it to the backup server *)
(* and records its result.  Each action is the code between two points at  *)
(* which the other thread can observe the difference: mpc and ppc name the *)
(* next statement of each thread.                                          *)
(*                                                                         *)
(* The tree is the map it stores (BinaryTree is about its nodes), the      *)
(* network delivers any request (network_server.c), and the connection to  *)
(* the backup server succeeds or fails.                                    *)
(***************************************************************************)
EXTENDS Operations, Sequences

CONSTANTS
  AllocMayFail,  \* whether malloc may return NULL
  MaxSends       \* bound: operations sent to the backup server before a
                 \* result is lost for want of memory

ASSUME TreeSkelAssumption == AllocMayFail \in BOOLEAN /\ MaxSends \in Nat

VARIABLES
  mpc,            \* next statement of the main thread
  request,        \* the request that main is handling
  mtask,          \* local variable task of tasks_add_task
  response,       \* the response that main is filling
  ppc,            \* next statement of the tasks-processor thread
  ptask,          \* local variable task of process_tasks
  store,          \* the map stored in tree
  last_task_id,   \* last_task_id_assigned
  queue,          \* the tasks from tasks_queue_head on
  results,        \* the nodes from tasks_results_list_head on
  destroyed,      \* the flag that tasks_destroy sets
  owner,          \* who holds each mutex
  role,           \* server_role
  sent            \* ghost: identifiers of the tasks sent to the backup server

locals    == <<request, mtask, response>>
mainVars  == <<mpc, locals>>
procVars  == <<ppc, ptask>>
tasksVars == <<last_task_id, queue, results, destroyed>>
envVars   == <<role, sent>>
vars == <<mainVars, procVars, store, tasksVars, owner, envVars>>

-----------------------------------------------------------------------------
(* Tasks and results.                                                      *)

NoTask == [id |-> -1]

TaskResults == {"SUCCESSFUL", "NOT_EXECUTED", "FAILED"}
ResultNodes == [id: Nat, result: TaskResults]

\* tasks_get_result walks the list from its head and stops at the first node
\* whose task_id is lower than the one it is looking for.
ResultOf(list, id) ==
  LET found == {i \in DOMAIN list : /\ list[i].id = id
                                    /\ \A j \in 1 .. i - 1 : list[j].id > id}
  IN  IF found = {} THEN "NOT_EXECUTED" ELSE list[CHOOSE i \in found : TRUE].result

\* The int_result that a TaskResult is answered as.
IntOf(result) == CASE result = "SUCCESSFUL"   -> 1
                   [] result = "NOT_EXECUTED" -> 0
                   [] result = "FAILED"       -> -1

\* The result that process_tasks records, by the op_code of the task.
Outcome(w) == IF w.op \in {"PUT", "DEL"} THEN "SUCCESSFUL" ELSE "FAILED"

-----------------------------------------------------------------------------
(* Mutexes and the condition variable.  Locking or unlocking a destroyed   *)
(* mutex returns an error that the code ignores, so the thread goes on;    *)
(* destroying a locked mutex fails and leaves it as it is.                 *)

Mutexes == {"tree", "queue", "results"}
Threads == {"main", "processor"}
Free    == "free"
NotInit == "not_initialized"
Gone    == "destroyed"

Acquire(m, thread) ==
  /\ owner[m] \in {Free, Gone}
  /\ owner' = [owner EXCEPT ![m] = IF owner[m] = Gone THEN Gone ELSE thread]

\* The owners when the mutexes of ms have been unlocked, and destroyed.
Released(ms) ==
  [m \in Mutexes |-> IF m \in ms /\ owner[m] # Gone THEN Free ELSE owner[m]]
DestroyedMutex(m) ==
  [owner EXCEPT ![m] = IF owner[m] = Free THEN Gone ELSE owner[m]]

\* pthread_cond_broadcast(&tasks_queue_change).
Broadcast == ppc' = IF ppc = "waiting" THEN "woken" ELSE ppc

-----------------------------------------------------------------------------
(* The main thread: start, one request at a time, shutdown.                *)

MainMoves(from, to) == mpc = from /\ mpc' = to
ProcMoves(from, to) == ppc = from /\ ppc' = to

\* exit(1), and the return of main, end both threads.
Exits == mpc' = "exited" /\ ppc' = "exited"

Init ==
  /\ mpc = "tree_skel_init" /\ ppc = "not_created"
  /\ request = NoMessage /\ mtask = NoTask /\ response = NoMessage
  /\ ptask = NoTask
  /\ store = EmptyStore
  /\ last_task_id = -1 /\ queue = <<>> /\ results = <<>> /\ destroyed = FALSE
  /\ owner = [m \in Mutexes |-> NotInit]
  /\ role = "NONE" /\ sent = <<>>

\* tree_skel_init up to pthread_create: the processor may run from here on.
CreateProcessor ==
  /\ MainMoves("tree_skel_init", "init_tree_lock")
  /\ owner' = [owner EXCEPT !["queue"] = Free, !["results"] = Free]
  /\ ppc' = "lock_queue"
  /\ UNCHANGED <<locals, ptask, store, tasksVars, envVars>>

InitTreeLock ==
  /\ MainMoves("init_tree_lock", "register")
  /\ owner' = [owner EXCEPT !["tree"] = Free]
  /\ UNCHANGED <<locals, procVars, store, tasksVars, envVars>>

\* zk_register_tree_server gives the server a role.
Register ==
  /\ MainMoves("register", "poll")
  /\ role' \in {"PRIMARY", "BACKUP"}
  /\ UNCHANGED <<locals, procVars, store, tasksVars, owner, sent>>

\* Both roles are taken, and the server shuts down.
RegisterFails ==
  /\ MainMoves("register", "destroy_tasks")
  /\ UNCHANGED <<locals, procVars, store, tasksVars, owner, envVars>>

\* network_receive, then invoke up to tree_lock.
ReceiveRequest ==
  /\ MainMoves("poll", "lock_tree")
  /\ request' \in Requests
  /\ request' \in Writes => last_task_id < MaxTasks - 1
  /\ UNCHANGED <<mtask, response, procVars, store, tasksVars, owner, envVars>>

\* Fault: writes are queued without tree_lock.
LockTree_ReadsOnly ==
  /\ MainMoves("lock_tree", "invoke")
  /\ request \in Writes \/ Acquire("tree", "main")
  /\ request \in Writes => UNCHANGED owner
  /\ UNCHANGED <<locals, procVars, store, tasksVars, envVars>>

LockTree ==
  /\ MainMoves("lock_tree", "invoke")
  /\ Acquire("tree", "main")
  /\ UNCHANGED <<locals, procVars, store, tasksVars, envVars>>

\* invoke_tree_size, invoke_tree_height, invoke_tree_get, invoke_tree_get_keys.
InvokeRead ==
  /\ MainMoves("invoke", "unlock_tree")
  /\ request \in Gets \cup Wholes
  /\ \/ response' \in Answers(store, request)
     \/ AllocMayFail /\ request.op \in {"GET", "GETKEYS"} /\ response' = ErrorMessage
  /\ UNCHANGED <<request, mtask, procVars, store, tasksVars, owner, envVars>>

InvokeUnknown ==
  /\ MainMoves("invoke", "unlock_tree")
  /\ request \in Unknowns
  /\ response' = ErrorMessage
  /\ UNCHANGED <<request, mtask, procVars, store, tasksVars, owner, envVars>>

\* tasks_add_task up to _tasks_queue_lock.
CreateTask ==
  /\ MainMoves("invoke", "lock_queue")
  /\ request \in Writes
  /\ last_task_id' = last_task_id + 1
  /\ mtask' = [id |-> last_task_id + 1, write |-> request]
  /\ UNCHANGED <<request, response, procVars, store, queue, results, destroyed,
                 owner, envVars>>

\* tasks_add_task returns -1: the task was not allocated, or its node was not
\* and the identifier is lost.
CreateTaskFails ==
  /\ MainMoves("invoke", "unlock_tree")
  /\ request \in Writes
  /\ AllocMayFail
  /\ last_task_id' \in {last_task_id, last_task_id + 1}
  /\ response' = [op |-> "OP_ID", id |-> -1]
  /\ UNCHANGED <<request, mtask, procVars, store, queue, results, destroyed,
                 owner, envVars>>

\* Fault: the task is appended without the queue's mutex.
LockQueue_Forgotten ==
  /\ MainMoves("lock_queue", "append")
  /\ UNCHANGED <<locals, procVars, store, tasksVars, owner, envVars>>

LockQueue ==
  /\ MainMoves("lock_queue", "append")
  /\ Acquire("queue", "main")
  /\ UNCHANGED <<locals, procVars, store, tasksVars, envVars>>

\* Fault: the task becomes the head of the queue.
AppendTask_AtHead ==
  /\ MainMoves("append", "broadcast")
  /\ queue' = <<mtask>> \o queue
  /\ UNCHANGED <<locals, procVars, store, last_task_id, results, destroyed, owner,
                 envVars>>

AppendTask ==
  /\ MainMoves("append", "broadcast")
  /\ queue' = Append(queue, mtask)
  /\ UNCHANGED <<locals, procVars, store, last_task_id, results, destroyed, owner,
                 envVars>>

\* Fault: nobody is told of the task.
BroadcastAndUnlock_Silent ==
  /\ MainMoves("broadcast", "return_id")
  /\ owner' = Released({"queue"})
  /\ UNCHANGED <<locals, procVars, store, tasksVars, envVars>>

BroadcastAndUnlock ==
  /\ MainMoves("broadcast", "return_id")
  /\ Broadcast
  /\ owner' = Released({"queue"})
  /\ UNCHANGED <<locals, ptask, store, tasksVars, envVars>>

\* `return task->task_id`, after the unlock: it reads the task.
ReturnTaskId ==
  /\ MainMoves("return_id", "unlock_tree")
  /\ response' = [op |-> "OP_ID", id |-> mtask.id]
  /\ mtask' = NoTask
  /\ UNCHANGED <<request, procVars, store, tasksVars, owner, envVars>>

LockResults ==
  /\ MainMoves("invoke", "get_result")
  /\ request \in Verifies
  /\ Acquire("results", "main")
  /\ UNCHANGED <<locals, procVars, store, tasksVars, envVars>>

\* Fault: an early return of tasks_get_result leaves the mutex locked.
GetResult_NoUnlock ==
  /\ MainMoves("get_result", "unlock_tree")
  /\ response' = [op |-> "INT", int |-> IntOf(ResultOf(results, request.id))]
  /\ UNCHANGED <<request, mtask, procVars, store, tasksVars, owner, envVars>>

GetResult ==
  /\ MainMoves("get_result", "unlock_tree")
  /\ response' = [op |-> "INT", int |-> IntOf(ResultOf(results, request.id))]
  /\ owner' = Released({"results"})
  /\ UNCHANGED <<request, mtask, procVars, store, tasksVars, envVars>>

UnlockTree ==
  /\ MainMoves("unlock_tree", "send")
  /\ owner' = Released({"tree"})
  /\ UNCHANGED <<locals, procVars, store, tasksVars, envVars>>

SendResponse ==
  /\ MainMoves("send", "poll")
  /\ request' = NoMessage /\ response' = NoMessage
  /\ UNCHANGED <<mtask, procVars, store, tasksVars, owner, envVars>>

\* SIGINT makes poll fail: network_main_loop returns.
Interrupt ==
  /\ MainMoves("poll", "destroy_tasks")
  /\ UNCHANGED <<locals, procVars, store, tasksVars, owner, envVars>>

\* tasks_destroy takes no lock: each of its steps may meet the processor.
DestroyTasks ==
  /\ MainMoves("destroy_tasks", "destroy_queue")
  /\ last_task_id' = -1 /\ destroyed' = TRUE
  /\ UNCHANGED <<locals, procVars, store, queue, results, owner, envVars>>

DestroyQueue ==
  /\ MainMoves("destroy_queue", "destroy_queue_lock")
  /\ queue' = <<>>
  /\ UNCHANGED <<locals, procVars, store, last_task_id, results, destroyed, owner,
                 envVars>>

DestroyQueueLock ==
  /\ MainMoves("destroy_queue_lock", "destroy_cond")
  /\ owner' = DestroyedMutex("queue")
  /\ UNCHANGED <<locals, procVars, store, tasksVars, envVars>>

DestroyCond ==
  /\ MainMoves("destroy_cond", "destroy_results")
  /\ Broadcast
  /\ UNCHANGED <<locals, ptask, store, tasksVars, owner, envVars>>

DestroyResults ==
  /\ MainMoves("destroy_results", "destroy_tree")
  /\ results' = <<>>
  /\ owner' = DestroyedMutex("results")
  /\ UNCHANGED <<locals, procVars, store, last_task_id, queue, destroyed, envVars>>

\* The rest of tree_skel_destroy.
DestroyTree ==
  /\ MainMoves("destroy_tree", "zk_close")
  /\ owner' = DestroyedMutex("tree")
  /\ store' = EmptyStore
  /\ UNCHANGED <<locals, procVars, tasksVars, envVars>>

Exit ==
  /\ mpc = "zk_close"
  /\ Exits
  /\ role' = "NONE"
  /\ UNCHANGED <<locals, ptask, store, tasksVars, owner, sent>>

-----------------------------------------------------------------------------
(* process_tasks: the tasks-processor thread.                              *)

\* The lock of tasks_get_next, and the one that pthread_cond_wait takes again
\* before it returns.
ProcLockQueue ==
  /\ ppc \in {"lock_queue", "woken"} /\ ppc' = "check"
  /\ Acquire("queue", "processor")
  /\ UNCHANGED <<mainVars, ptask, store, tasksVars, envVars>>

\* tasks_get_next returns NULL without unlocking, and the thread ends.
ProcEnd ==
  /\ ProcMoves("check", "ended")
  /\ destroyed
  /\ UNCHANGED <<mainVars, ptask, store, tasksVars, owner, envVars>>

ProcFoundNone ==
  /\ ProcMoves("check", "cond_wait")
  /\ ~destroyed /\ queue = <<>>
  /\ UNCHANGED <<mainVars, ptask, store, tasksVars, owner, envVars>>

\* pthread_cond_wait; a shutdown may have come, and broadcast, before it.
ProcWait ==
  /\ ProcMoves("cond_wait", "waiting")
  /\ owner' = Released({"queue"})
  /\ UNCHANGED <<mainVars, ptask, store, tasksVars, envVars>>

ProcFound ==
  /\ ProcMoves("check", "pick")
  /\ ~destroyed /\ queue # <<>>
  /\ UNCHANGED <<mainVars, ptask, store, tasksVars, owner, envVars>>

SpuriousWakeup ==
  /\ ProcMoves("waiting", "woken")
  /\ UNCHANGED <<mainVars, ptask, store, tasksVars, owner, envVars>>

\* Fault: the task leaves the queue when it is taken.
ProcPick_Pop ==
  /\ ProcMoves("pick", "read_task")
  /\ queue # <<>>
  /\ ptask' = Head(queue) /\ queue' = Tail(queue)
  /\ owner' = Released({"queue"})
  /\ UNCHANGED <<mainVars, store, last_task_id, results, destroyed, envVars>>

\* The task stays in the queue until its result is set.
ProcPick ==
  /\ ProcMoves("pick", "read_task")
  /\ queue # <<>>
  /\ ptask' = Head(queue)
  /\ owner' = Released({"queue"})
  /\ UNCHANGED <<mainVars, store, tasksVars, envVars>>

\* process_tasks copies task_id, op_code and content_case, with no lock.
ProcReadTask ==
  /\ ProcMoves("read_task", "lock_tree")
  /\ UNCHANGED <<mainVars, ptask, store, tasksVars, owner, envVars>>

ProcLockTree ==
  /\ ProcMoves("lock_tree", "execute")
  /\ Acquire("tree", "processor")
  /\ UNCHANGED <<mainVars, ptask, store, tasksVars, envVars>>

\* Fault: tree_lock protects the operation on the tree only.
ProcExecute_Unlocks ==
  /\ ProcMoves("execute", "replicate")
  /\ ~WriteFails(store, ptask.write)
  /\ store' = Apply(store, ptask.write)
  /\ owner' = Released({"tree"})
  /\ UNCHANGED <<mainVars, ptask, tasksVars, envVars>>

\* process_tree_del and process_tree_put: the operation on the tree, or exit(1).
ProcExecute ==
  /\ ProcMoves("execute", "replicate")
  /\ ~WriteFails(store, ptask.write)
  /\ store' = Apply(store, ptask.write)
  /\ UNCHANGED <<mainVars, ptask, tasksVars, owner, envVars>>

ProcExecuteFails ==
  /\ ppc = "execute"
  /\ WriteFails(store, ptask.write) \/ (AllocMayFail /\ ptask.write \in Puts)
  /\ Exits
  /\ UNCHANGED <<locals, ptask, store, tasksVars, owner, envVars>>

\* replicate_to_backup_server, whose every failure is an exit(1).
ProcReplicate ==
  /\ ProcMoves("replicate", "record_lock_queue")
  /\ sent' = IF role = "BACKUP" THEN sent ELSE Append(sent, ptask.id)
  /\ UNCHANGED <<mainVars, ptask, store, tasksVars, owner, role>>

\* Fault: a failure to replicate is ignored.
ProcReplicateFails_Ignored ==
  /\ ProcMoves("replicate", "record_lock_queue")
  /\ role # "BACKUP"
  /\ UNCHANGED <<mainVars, ptask, store, tasksVars, owner, envVars>>

ProcReplicateFails ==
  /\ ppc = "replicate"
  /\ role # "BACKUP"
  /\ Exits
  /\ UNCHANGED <<locals, ptask, store, tasksVars, owner, envVars>>

ProcRecordLockQueue ==
  /\ ProcMoves("record_lock_queue", "record_lock_results")
  /\ Acquire("queue", "processor")
  /\ UNCHANGED <<mainVars, ptask, store, tasksVars, envVars>>

ProcRecordLockResults ==
  /\ ProcMoves("record_lock_results", "set_result")
  /\ Acquire("results", "processor")
  /\ UNCHANGED <<mainVars, ptask, store, tasksVars, envVars>>

AtHead == queue # <<>> /\ Head(queue).id = ptask.id

\* Fault: the new node is not linked to the previous results.
ProcSetResult_Unlinked ==
  /\ ProcMoves("set_result", "unlock_tree")
  /\ AtHead
  /\ results' = <<[id |-> ptask.id, result |-> Outcome(ptask.write)]>>
  /\ queue' = Tail(queue)
  /\ ptask' = NoTask
  /\ owner' = Released({"queue", "results"})
  /\ UNCHANGED <<mainVars, store, last_task_id, destroyed, envVars>>

ProcSetResult ==
  /\ ProcMoves("set_result", "unlock_tree")
  /\ AtHead
  /\ results' = <<[id |-> ptask.id, result |-> Outcome(ptask.write)]>> \o results
  /\ queue' = Tail(queue)
  /\ ptask' = NoTask
  /\ owner' = Released({"queue", "results"})
  /\ UNCHANGED <<mainVars, store, last_task_id, destroyed, envVars>>

\* Fault: out of memory, the task is freed without a result.
ProcSetResultFails_Pops ==
  /\ ProcMoves("set_result", "unlock_tree")
  /\ AtHead => AllocMayFail /\ Len(sent) < MaxSends
  /\ queue' = IF AtHead THEN Tail(queue) ELSE queue
  /\ ptask' = NoTask
  /\ owner' = Released({"queue", "results"})
  /\ UNCHANGED <<mainVars, store, last_task_id, results, destroyed, envVars>>

\* tasks_set_result records nothing, and frees nothing, for a task that is not
\* at the head of the queue or when it finds no memory.  Its callers ignore it.
ProcSetResultFails ==
  /\ ProcMoves("set_result", "unlock_tree")
  /\ AtHead => AllocMayFail /\ Len(sent) < MaxSends
  /\ ptask' = NoTask
  /\ owner' = Released({"queue", "results"})
  /\ UNCHANGED <<mainVars, store, tasksVars, envVars>>

ProcUnlockTree ==
  /\ ProcMoves("unlock_tree", "lock_queue")
  /\ owner' = Released({"tree"})
  /\ UNCHANGED <<mainVars, ptask, store, tasksVars, envVars>>

\* The statements of the processor that read through a pointer to a task or to
\* the head of the queue, and the states in which that memory has been freed.
Dereferences == {"pick", "read_task", "execute", "replicate", "record_lock_queue"}
Dangling ==
  /\ ppc \in Dereferences
  /\ queue # <<>> => ppc # "pick" /\ ptask # Head(queue)

\* A read of freed memory finds what was there, as in the actions above, or
\* the process crashes.
ProcFault ==
  /\ Dangling
  /\ Exits
  /\ UNCHANGED <<locals, ptask, store, tasksVars, owner, envVars>>

-----------------------------------------------------------------------------
(* The process.                                                            *)

\* on_servers_change, in the thread of the ZooKeeper client.
Promote ==
  /\ role = "BACKUP" /\ mpc # "exited"
  /\ role' = "PRIMARY"
  /\ UNCHANGED <<mainVars, procVars, store, tasksVars, owner, sent>>

Starting == CreateProcessor \/ InitTreeLock \/ Register \/ RegisterFails

Handling ==
  \/ LockTree \/ InvokeRead \/ InvokeUnknown \/ CreateTask \/ CreateTaskFails
  \/ LockQueue \/ AppendTask \/ BroadcastAndUnlock \/ ReturnTaskId
  \/ LockResults \/ GetResult \/ UnlockTree \/ SendResponse

ShuttingDown ==
  \/ DestroyTasks \/ DestroyQueue \/ DestroyQueueLock \/ DestroyCond
  \/ DestroyResults \/ DestroyTree \/ Exit

Main == Starting \/ Handling \/ ShuttingDown

Processor ==
  \/ ProcLockQueue \/ ProcEnd \/ ProcFoundNone \/ ProcWait \/ ProcFound \/ ProcPick
  \/ ProcReadTask \/ ProcLockTree \/ ProcExecute \/ ProcExecuteFails \/ ProcReplicate
  \/ ProcReplicateFails \/ ProcRecordLockQueue \/ ProcRecordLockResults
  \/ ProcSetResult \/ ProcSetResultFails \/ ProcUnlockTree \/ ProcFault

\* What neither thread decides: clients, signals, ZooKeeper and the scheduler.
Environment == ReceiveRequest \/ Interrupt \/ Promote \/ SpuriousWakeup

Exited == mpc = "exited" /\ UNCHANGED vars

Next == Main \/ Processor \/ Environment \/ Exited

Spec == Init /\ [][Next]_vars

\* Each thread runs, and main gets the queue's mutex in the end although the
\* processor, woken for nothing, takes it now and then.
Fairness == WF_vars(Main) /\ WF_vars(Processor) /\ SF_vars(LockQueue)

FairSpec == Spec /\ Fairness
=============================================================================
