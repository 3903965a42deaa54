------------------------- MODULE TreeSkelProperties -------------------------
(***************************************************************************)
(* The correctness properties of TreeSkel: what the threads of a           *)
(* tree_server owe to each other and to the clients.                       *)
(***************************************************************************)
EXTENDS TreeSkel

Stopped == mpc \in {"destroy_tasks", "destroy_queue", "destroy_queue_lock",
                    "destroy_cond", "destroy_results", "destroy_tree", "zk_close",
                    "exited"}

\* Where each thread is between locking a mutex and unlocking it.
MainHolds ==
  [tree    |-> {"invoke", "lock_queue", "append", "broadcast", "return_id",
                "get_result", "unlock_tree"},
   queue   |-> {"append", "broadcast"},
   results |-> {"get_result"}]

ProcHolds ==
  [tree    |-> {"execute", "replicate", "record_lock_queue", "record_lock_results",
                "set_result", "unlock_tree"},
   queue   |-> {"check", "cond_wait", "pick", "record_lock_results", "set_result"},
   results |-> {"set_result"}]

\* Before the server has a role.
Beginning == mpc \in {"tree_skel_init", "init_tree_lock", "register"}

\* Between taking a task and setting its result.
HasTask == ppc \in {"read_task", "lock_tree", "execute", "replicate",
                    "record_lock_queue", "record_lock_results", "set_result"}

\* The operation is in the tree and its result is not set.
Unrecorded == ppc \in {"replicate", "record_lock_queue", "record_lock_results",
                       "set_result"}

-----------------------------------------------------------------------------
(* Invariants.                                                             *)

\* Every variable stays in the set of values that its C declaration and the
\* threads' code give it.
TypeOK ==
  /\ mpc \in {"tree_skel_init", "init_tree_lock", "register", "poll", "lock_tree",
              "invoke", "lock_queue", "append", "broadcast", "return_id",
              "get_result", "unlock_tree", "send", "destroy_tasks",
              "destroy_queue", "destroy_queue_lock", "destroy_cond",
              "destroy_results", "destroy_tree", "zk_close", "exited"}
  /\ ppc \in {"not_created", "lock_queue", "check", "cond_wait", "waiting", "woken",
              "pick", "read_task", "lock_tree", "execute", "replicate",
              "record_lock_queue", "record_lock_results", "set_result",
              "unlock_tree", "ended", "exited"}
  /\ request \in Requests \cup {NoMessage}
  /\ response \in Responses \cup {NoMessage}
  /\ mtask \in Tasks \cup {NoTask}
  /\ ptask \in Tasks \cup {NoTask}
  /\ store \in [Keys -> Values \cup {NoValue}]
  /\ last_task_id \in Int /\ last_task_id >= -1
  /\ queue \in Seq(Tasks)
  /\ results \in Seq(ResultNodes)
  /\ destroyed \in BOOLEAN
  /\ owner \in [Mutexes -> Threads \cup {Free, NotInit, Gone}]
  /\ role \in {"NONE", "PRIMARY", "BACKUP"}
  /\ sent \in Seq(Nat)

\* process_tasks works on the task at the head of the queue, which nobody frees
\* while it does, although it holds no lock when it reads it
\* (tree_skel.c:183-190, tasks-private.c:157-169).
ProcessorTaskAlive ==
  ~Stopped =>
    /\ HasTask => queue # <<>> /\ ptask = Head(queue)
    /\ ppc = "pick" => queue # <<>>

\* The task that tasks_add_task reads after it unlocked the queue
\* (tasks-private.c:153-154) has not been executed and freed meanwhile: tree_lock,
\* which the caller of tasks_add_task holds, keeps the processor from it.
ReturnedTaskAlive ==
  mpc = "return_id" => \E i \in DOMAIN queue : queue[i] = mtask

\* The orders that the comments at tasks-private.c:41-44 and 49-52 promise: ids
\* ascend from the head of the queue and descend from the head of the results,
\* and every task with a result is older than every task in the queue.
IdsOrdered ==
  ~Stopped =>
    /\ \A i, j \in DOMAIN queue : i < j => queue[i].id < queue[j].id
    /\ \A i, j \in DOMAIN results : i < j => results[i].id > results[j].id
    /\ \A i \in DOMAIN queue, j \in DOMAIN results : queue[i].id > results[j].id
    /\ \A i \in DOMAIN queue : queue[i].id <= last_task_id

\* tasks_get_result stops early (tasks-private.c:224) and still finds every
\* result there is.
SearchExact ==
  ~Stopped => \A i \in DOMAIN results : ResultOf(results, results[i].id) = results[i].result

\* The processor never sleeps on a task: when it waits, or is about to, with
\* the queue not empty, the broadcast of tasks_add_task is still to come.
NoLostWakeup ==
  ~Stopped /\ ppc \in {"cond_wait", "waiting"} => queue = <<>> \/ mpc = "broadcast"

\* tree_lock separates the main thread's dispatch from the execution of a task
\* up to its result (tree_skel.c:82-98 and 192-209), and nobody locks it before
\* tree_skel_init initialised it, after it created the thread that does
\* (tree_skel.c:218-222).
TreeLockProtects ==
  /\ ~(mpc \in MainHolds.tree /\ ppc \in ProcHolds.tree)
  /\ ppc \in {"lock_tree"} \cup ProcHolds.tree => owner["tree"] # NotInit

\* The primary sends its operations to the backup in their order, and once it
\* has sent one, no later one gets a result unless it was sent too.
SentInOrder ==
  LET sentIds == {sent[i] : i \in DOMAIN sent} IN
  /\ \A i, j \in DOMAIN sent :
       i < j => sent[i] < sent[j] \/ (AllocMayFail /\ sent[i] = sent[j])
  /\ \A i \in DOMAIN results :
       sent # <<>> /\ results[i].id > sent[1] => results[i].id \in sentIds

-----------------------------------------------------------------------------
(* Action properties.                                                      *)

\* While the server runs, what verify answers for an operation changes once:
\* from not executed to its result.
ResultsStable ==
  [][ ~Stopped' =>
        \A id \in 0 .. MaxTasks :
          ResultOf(results, id) # "NOT_EXECUTED" =>
            ResultOf(results', id) = ResultOf(results, id) ]_vars

\* A queued task leaves the queue only with a result, even when malloc fails in
\* tasks_set_result (tasks-private.c:196-202).
NoTaskForgotten ==
  [][ ~Stopped' =>
        \A i \in DOMAIN queue :
          \/ \E j \in DOMAIN queue' : queue'[j] = queue[i]
          \/ \E j \in DOMAIN results' : results'[j].id = queue[i].id ]_vars

-----------------------------------------------------------------------------
(* The inductive invariant behind the invariants above.                    *)

\* A local pointer to a task is set where the thread uses it.
TasksKnown ==
  /\ HasTask => ptask \in Tasks
  /\ mpc \in {"lock_queue", "append", "broadcast", "return_id"} => mtask \in Tasks

\* A mutex is held by the thread that is between its lock and its unlock, and
\* by nobody else; before its initialisation there is nothing to do.
HeldBetween(m, mainPcs, procPcs) ==
  /\ owner[m] = "main" <=> mpc \in mainPcs
  /\ owner[m] = "processor" <=> ppc \in procPcs
  /\ owner[m] # Gone

LocksMatch ==
  /\ HeldBetween("tree", MainHolds.tree, ProcHolds.tree)
  /\ HeldBetween("queue", MainHolds.queue, ProcHolds.queue)
  /\ HeldBetween("results", MainHolds.results, ProcHolds.results)
  /\ mpc \in {"tree_skel_init", "init_tree_lock"} => owner["tree"] = NotInit
  /\ mpc = "tree_skel_init" => ppc = "not_created"
  /\ ppc \notin {"ended", "exited"}
  /\ ~destroyed

\* The task that main is queueing is the newest there is.
NewestTask ==
  /\ mpc \in {"lock_queue", "append"} =>
       /\ mtask.id = last_task_id
       /\ \A i \in DOMAIN queue : queue[i].id < last_task_id
       /\ \A i \in DOMAIN results : results[i].id < last_task_id
  /\ mpc \in {"broadcast", "return_id"} => \E i \in DOMAIN queue : queue[i] = mtask
  /\ \A i \in DOMAIN results : results[i].id <= last_task_id
  /\ Beginning => queue = <<>>

Initialised == owner["tree"] = NotInit => mpc \in {"tree_skel_init", "init_tree_lock"}

\* Where the main thread is in its answer, what it has in hand: the request from
\* its reception on, the task with the write it was made for, the response once
\* there is one.  Before the first request nothing has happened.
RequestInHand ==
  /\ Beginning => store = EmptyStore /\ results = <<>> /\ sent = <<>>
  /\ Beginning \/ mpc = "poll" => request = NoMessage
  /\ mpc \in {"lock_tree", "invoke", "unlock_tree", "send"} => request \in Requests
  /\ mpc \in {"lock_tree", "invoke"} /\ request \in Writes => last_task_id < MaxTasks - 1
  /\ mpc \in {"lock_queue", "append", "broadcast", "return_id"} =>
       request \in Writes /\ mtask.write = request
  /\ mpc = "get_result" => request \in Verifies
  /\ IF mpc \in {"unlock_tree", "send"} THEN response \in Responses
                                        ELSE response = NoMessage
  /\ last_task_id < MaxTasks
  /\ \A i \in DOMAIN results : results[i].result = "SUCCESSFUL"

\* The operation has been sent to the backup, by a server that has one.
Replicated == ppc \in {"record_lock_queue", "record_lock_results", "set_result"}

\* Nothing later was sent, nor the same unless memory was short.
SentBefore(id) ==
  \A i \in DOMAIN sent : sent[i] < id \/ (AllocMayFail /\ sent[i] = id)

\* The processor's task lies between the results and the tasks not sent yet, also
\* while the server shuts down; a backup sends nothing, and never becomes one.
SendsConsistent ==
  /\ \A i, j \in DOMAIN queue : i < j => queue[i].id < queue[j].id
  /\ \A i \in DOMAIN queue, j \in DOMAIN results : queue[i].id > results[j].id
  /\ HasTask => \A i \in DOMAIN results : results[i].id < ptask.id
  /\ HasTask /\ queue # <<>> => ptask = Head(queue)
  /\ ppc # "exited" /\ ~Replicated => \A i \in DOMAIN queue : SentBefore(queue[i].id)
  /\ HasTask /\ ~Replicated => SentBefore(ptask.id)
  /\ Replicated => /\ \A i \in DOMAIN sent : sent[i] <= ptask.id
                   /\ sent # <<>> => \E i \in DOMAIN sent : sent[i] = ptask.id
  /\ ~Stopped => \A i \in DOMAIN sent : sent[i] <= last_task_id
  /\ mpc \in {"lock_queue", "append"} => \A i \in DOMAIN sent : sent[i] < mtask.id
  /\ role = "BACKUP" => sent = <<>>
  /\ SentInOrder

IInv ==
  /\ TypeOK /\ TasksKnown /\ Initialised
  /\ ~Stopped => LocksMatch /\ NewestTask /\ RequestInHand
  /\ ProcessorTaskAlive /\ IdsOrdered /\ NoLostWakeup /\ SendsConsistent

-----------------------------------------------------------------------------
(* Refinement: the process is an AsyncStore.  A task takes effect when the *)
(* processor executes it, a write is answered when it is in the queue, and *)
(* nothing is left when the process stops.                                 *)

Serving == ~Stopped /\ ~Beginning

Results == {results[i].id : i \in {j \in DOMAIN results : results[j].result = "SUCCESSFUL"}}

MappedPhase    == IF Stopped THEN "down" ELSE IF Beginning THEN "starting" ELSE "up"
MappedStore    == IF Serving THEN store ELSE EmptyStore
MappedPending  == IF ~Serving THEN <<>> ELSE IF Unrecorded THEN Tail(queue) ELSE queue
MappedExecuted == IF ~Serving THEN {}
                  ELSE Results \cup (IF Unrecorded THEN {ptask.id} ELSE {})
MappedRequest  == IF Serving THEN request ELSE NoMessage
MappedResponse == IF ~Serving THEN NoMessage
                  ELSE IF mpc \in {"broadcast", "return_id"}
                       THEN [op |-> "OP_ID", id |-> mtask.id] ELSE response

Abstract == INSTANCE AsyncStore WITH
  phase   <- MappedPhase,   store    <- MappedStore,
  pending <- MappedPending, executed <- MappedExecuted,
  request <- MappedRequest, response <- MappedResponse

\* What the clients see of the two threads is what AsyncStore allows, as long
\* as memory lasts.
ImplementsAsyncStore == Abstract!Spec

-----------------------------------------------------------------------------
(* Liveness.                                                               *)

\* Every request is answered, and a shutdown ends, whatever the processor does:
\* no deadlock over the three mutexes, nobody keeps one for ever.
RequestsAnswered == mpc # "poll" ~> mpc \in {"poll", "exited"}

\* Once no more requests come, every queued task is executed, or the process
\* has died.
TasksExecuted == <>[](mpc = "poll") => <>[](queue = <<>>)
=============================================================================
