--------------------------- MODULE TreeSkelProofs ---------------------------
(***************************************************************************)
(* Proofs about TreeSkel for every set of keys and values, every number of *)
(* tasks and whether or not malloc fails.                                  *)
(***************************************************************************)
EXTENDS TreeSkelProperties, TLAPS, FiniteSetTheorems

USE DEF Free, NotInit, Gone

\* What the read-operations answer is a response.
LEMMA AnswersType ==
  ASSUME NEW s \in [Keys -> Values \cup {NoValue}], NEW r \in Gets \cup Wholes
  PROVE  Answers(s, r) \subseteq Responses
<1>1. Cardinality(StoredKeys(s)) \in Int
  <2>1. IsFiniteSet(StoredKeys(s))
    BY OperationsAssumption, FS_Subset DEF StoredKeys
  <2> QED BY <2>1, FS_CardinalityType
<1>2. CASE r \in Gets
  BY <1>2 DEF Answers, Gets, Responses
<1>3. CASE r \in Wholes
  <2>1. CASE r.op = "SIZE" BY <1>1, <2>1 DEF Answers, Responses
  <2>2. CASE r.op = "HEIGHT"
    <3>1. Heights(Cardinality(StoredKeys(s))) \subseteq Int
      BY <1>1 DEF Heights
    <3> QED BY <2>2, <3>1 DEF Answers, Responses
  <2>3. CASE r.op = "GETKEYS" BY <2>3 DEF Answers, Responses, StoredKeys
  <2> QED BY <1>3, <2>1, <2>2, <2>3 DEF Wholes
<1> QED BY <1>2, <1>3

\* A search in the list of results ends in one of the three results.
LEMMA ResultOfType ==
  ASSUME NEW list \in Seq(ResultNodes), NEW id
  PROVE  ResultOf(list, id) \in TaskResults
<1> DEFINE found == {i \in DOMAIN list : /\ list[i].id = id
                                         /\ \A j \in 1 .. i - 1 : list[j].id > id}
<1>1. CASE found = {}
  BY <1>1 DEF ResultOf, TaskResults
<1>2. CASE found # {}
  <2>1. (CHOOSE i \in found : TRUE) \in DOMAIN list
    BY <1>2
  <2>2. list[CHOOSE i \in found : TRUE] \in ResultNodes
    BY <2>1
  <2> QED BY <1>2, <2>2 DEF ResultOf, ResultNodes
<1> QED BY <1>1, <1>2

\* The types, with those of the local pointers to tasks.
Types == TypeOK /\ TasksKnown

\* They hold at the start, and every step keeps them.
LEMMA TypesInit == Init => Types
<1> SUFFICES ASSUME Init PROVE Types
  OBVIOUS
<1> USE DEF Init
<1>1. store \in [Keys -> Values \cup {NoValue}]
  BY DEF EmptyStore
<1>2. owner \in [Mutexes -> Threads \cup {Free, NotInit, Gone}]
  OBVIOUS
<1>3. queue \in Seq(Tasks) /\ results \in Seq(ResultNodes) /\ sent \in Seq(Nat)
  OBVIOUS
<1>4. TasksKnown
  BY DEF TasksKnown, HasTask
<1>5. last_task_id \in Int /\ last_task_id >= -1
  OBVIOUS
<1>6. destroyed \in BOOLEAN
  OBVIOUS
<1>7. mtask \in Tasks \cup {NoTask} /\ ptask \in Tasks \cup {NoTask}
  OBVIOUS
<1> QED BY <1>1, <1>2, <1>3, <1>4, <1>5, <1>6, <1>7 DEF Types, TypeOK

\* Every step of the two threads keeps the types.
LEMMA TypesNext == Types /\ [Next]_vars => Types'
<1> SUFFICES ASSUME Types, [Next]_vars PROVE Types'
  OBVIOUS
<1> USE DEF Types, TypeOK, TasksKnown, HasTask, MainMoves, ProcMoves, Exits, Mutexes,
            Threads, locals, mainVars, procVars, tasksVars, envVars
<1>1. CASE InvokeRead
  BY <1>1, AnswersType DEF InvokeRead, Responses, ErrorMessage
<1>2. CASE InvokeUnknown
  BY <1>2 DEF InvokeUnknown, Responses, ErrorMessage
<1>3. CASE CreateTask
  BY <1>3 DEF CreateTask, Tasks
<1>4. CASE CreateTaskFails
  BY <1>4 DEF CreateTaskFails, Responses
<1>5. CASE AppendTask
  BY <1>5 DEF AppendTask
<1>6. CASE ReturnTaskId
  BY <1>6 DEF ReturnTaskId, Tasks, Responses, NoTask
<1>7. CASE GetResult
  BY <1>7, ResultOfType DEF GetResult, Released, Responses, IntOf, TaskResults
<1>8. CASE DestroyTree
  BY <1>8 DEF DestroyTree, DestroyedMutex, EmptyStore
<1>9. CASE ProcPick
  BY <1>9 DEF ProcPick, Released
<1>10. CASE ProcExecute
  BY <1>10 DEF ProcExecute, Apply, Tasks, Writes, Puts, Dels
<1>11. CASE ProcReplicate
  BY <1>11 DEF ProcReplicate, Tasks
<1>12. CASE ProcSetResult
  BY <1>12 DEF ProcSetResult, AtHead, Released, Tasks, ResultNodes, TaskResults, Outcome
<1>13. CASE DestroyTasks
  BY <1>13 DEF DestroyTasks
<1>14. CASE Starting
  BY <1>14 DEF
     Starting, CreateProcessor, InitTreeLock, Register, RegisterFails,
     Acquire, Released, DestroyedMutex, Broadcast
<1>15. CASE Handling
  BY <1>15, <1>1, <1>2, <1>3, <1>4, <1>5, <1>6, <1>7 DEF
     Handling, LockTree, LockQueue, BroadcastAndUnlock, LockResults,
     UnlockTree, SendResponse, Acquire, Released, DestroyedMutex, Broadcast
<1>16. CASE ShuttingDown
  <2>1. CASE DestroyQueue
    BY <2>1 DEF DestroyQueue
  <2>2. CASE DestroyResults
    BY <2>2 DEF DestroyResults, DestroyedMutex
  <2>3. CASE DestroyQueueLock \/ DestroyCond \/ Exit
    BY <2>3 DEF DestroyQueueLock, DestroyCond, Exit, DestroyedMutex, Broadcast
  <2> QED BY <1>16, <1>8, <1>13, <2>1, <2>2, <2>3 DEF ShuttingDown
<1>17. CASE Processor
  BY <1>17, <1>9, <1>10, <1>11, <1>12 DEF
     Processor, ProcLockQueue, ProcEnd, ProcFoundNone, ProcWait, ProcFound,
     ProcReadTask, ProcLockTree, ProcExecuteFails, ProcReplicateFails,
     ProcRecordLockQueue, ProcRecordLockResults, ProcSetResultFails,
     ProcUnlockTree, ProcFault, Acquire, Released, DestroyedMutex,
     Broadcast
<1>18. CASE Environment
  BY <1>18 DEF
     Environment, ReceiveRequest, Interrupt, Promote, SpuriousWakeup,
     Acquire, Released, DestroyedMutex, Broadcast
<1>19. CASE UNCHANGED vars
  BY <1>19 DEF vars
<1> QED BY <1>14, <1>15, <1>16, <1>17, <1>18, <1>19 DEF Next, Main, Exited

\* A process that stops does not serve again.
LEMMA StoppedStays == Stopped /\ [Next]_vars => Stopped'
<1> SUFFICES ASSUME Stopped, [Next]_vars PROVE Stopped'
  OBVIOUS
<1> USE DEF Stopped, MainMoves, Exits, mainVars
<1>1. CASE Main
  BY <1>1 DEF Main, Starting, Handling, ShuttingDown,
     CreateProcessor, InitTreeLock, Register, RegisterFails, LockTree, InvokeRead, InvokeUnknown, CreateTask, CreateTaskFails, LockQueue, AppendTask, BroadcastAndUnlock, ReturnTaskId, LockResults, GetResult, UnlockTree, SendResponse, DestroyTasks, DestroyQueue, DestroyQueueLock, DestroyCond, DestroyResults, DestroyTree, Exit
<1>2. CASE Processor
  BY <1>2 DEF Processor,
     ProcLockQueue, ProcEnd, ProcFoundNone, ProcWait, ProcFound, ProcPick, ProcReadTask, ProcLockTree, ProcExecute, ProcExecuteFails, ProcReplicate, ProcReplicateFails, ProcRecordLockQueue, ProcRecordLockResults, ProcSetResult, ProcSetResultFails, ProcUnlockTree, ProcFault
<1>3. CASE Environment
  BY <1>3 DEF Environment, ReceiveRequest, Interrupt, Promote, SpuriousWakeup
<1>4. CASE UNCHANGED vars
  BY <1>4 DEF vars
<1> QED BY <1>1, <1>2, <1>3, <1>4 DEF Next, Exited

\* Mutexes stay with the thread that is between their lock and their unlock.
LEMMA LocksNext == IInv /\ [Next]_vars /\ ~Stopped' => LocksMatch'
<1> SUFFICES ASSUME IInv, [Next]_vars, ~Stopped' PROVE LocksMatch'
  OBVIOUS
<1>1. /\ ~Stopped /\ LocksMatch
      /\ owner \in [Mutexes -> Threads \cup {Free, NotInit, Gone}]
  BY StoppedStays DEF IInv, TypeOK
<1> USE DEF LocksMatch, HeldBetween, MainHolds, ProcHolds, Mutexes, Threads, MainMoves,
            ProcMoves, Exits, mainVars, procVars, tasksVars, Stopped
<1>2. CASE Starting
  BY <1>1, <1>2 DEF
     Starting, CreateProcessor, InitTreeLock, Register, RegisterFails,
     Acquire, Released, Broadcast
<1>3. CASE Handling
  BY <1>1, <1>3 DEF
     Handling, LockTree, InvokeRead, InvokeUnknown, CreateTask,
     CreateTaskFails, LockQueue, AppendTask, BroadcastAndUnlock,
     ReturnTaskId, LockResults, GetResult, UnlockTree, SendResponse,
     Acquire, Released, Broadcast
<1>4. CASE ShuttingDown
  BY <1>1, <1>4 DEF
     ShuttingDown, DestroyTasks, DestroyQueue, DestroyQueueLock,
     DestroyCond, DestroyResults, DestroyTree, Exit, Acquire, Released,
     Broadcast
<1>5. CASE Processor
  BY <1>1, <1>5 DEF
     Processor, ProcLockQueue, ProcEnd, ProcFoundNone, ProcWait, ProcFound,
     ProcPick, ProcReadTask, ProcLockTree, ProcExecute, ProcExecuteFails,
     ProcReplicate, ProcReplicateFails, ProcRecordLockQueue,
     ProcRecordLockResults, ProcSetResult, ProcSetResultFails,
     ProcUnlockTree, ProcFault, Acquire, Released, Broadcast
<1>6. CASE Environment
  BY <1>1, <1>6 DEF
     Environment, ReceiveRequest, Interrupt, Promote, SpuriousWakeup,
     Acquire, Released, Broadcast
<1>7. CASE UNCHANGED vars
  BY <1>1, <1>7 DEF vars
<1> QED BY <1>2, <1>3, <1>4, <1>5, <1>6, <1>7 DEF Next, Main, Exited

\* The steps of either thread respect what the other one relies on.
LEMMA TasksNext ==
  IInv /\ [Next]_vars /\ ~Stopped' =>
    ProcessorTaskAlive' /\ NewestTask' /\ IdsOrdered' /\ NoLostWakeup'
<1> DEFINE Goal == ProcessorTaskAlive /\ NewestTask /\ IdsOrdered /\ NoLostWakeup
<1> SUFFICES ASSUME IInv, [Next]_vars, ~Stopped' PROVE Goal'
  OBVIOUS
<1>1. /\ ~Stopped /\ LocksMatch /\ NewestTask
      /\ ProcessorTaskAlive /\ IdsOrdered /\ NoLostWakeup
  BY StoppedStays DEF IInv
<1>2. /\ queue \in Seq(Tasks) /\ results \in Seq(ResultNodes)
      /\ last_task_id \in Int
      /\ HasTask => ptask \in Tasks
      /\ mpc = "append" => mtask \in Tasks
  BY DEF IInv, TypeOK, TasksKnown
<1>3. /\ \A i \in DOMAIN queue : queue[i].id \in Int
      /\ \A i \in DOMAIN results : results[i].id \in Int
  <2>1. \A i \in DOMAIN queue : queue[i] \in Tasks
    BY <1>2
  <2>2. \A i \in DOMAIN results : results[i] \in ResultNodes
    BY <1>2
  <2> QED BY <2>1, <2>2 DEF Tasks, ResultNodes
<1> USE DEF MainMoves, ProcMoves, Exits, mainVars, procVars, tasksVars, locals, Stopped, Beginning,
            ProcessorTaskAlive, NewestTask, IdsOrdered, NoLostWakeup, HasTask
<1>4. CASE AppendTask
  <2>1. /\ DOMAIN queue' = DOMAIN queue \cup {Len(queue) + 1}
        /\ \A i \in DOMAIN queue : queue'[i] = queue[i]
        /\ queue'[Len(queue) + 1] = mtask
        /\ queue' # <<>>
        /\ queue # <<>> => Head(queue') = Head(queue)
    BY <1>2, <1>4 DEF AppendTask
  <2>2. ~(ppc \in {"cond_wait"})
    BY <1>1, <1>4 DEF AppendTask, LocksMatch, HeldBetween, MainHolds, ProcHolds
  <2>3. IdsOrdered'
    BY <1>1, <1>2, <1>3, <1>4, <2>1 DEF AppendTask
  <2> QED BY <1>1, <1>2, <1>3, <1>4, <2>1, <2>2, <2>3 DEF AppendTask
<1>5. CASE ProcSetResult
  <2>1. /\ \A i \in DOMAIN queue' : queue'[i] = queue[i + 1] /\ i + 1 \in DOMAIN queue
        /\ DOMAIN results' = 1 .. Len(results) + 1
        /\ results'[1].id = ptask.id
        /\ \A i \in DOMAIN results' : i # 1 => results'[i] = results[i - 1] /\ i - 1 \in DOMAIN results
    BY <1>2, <1>5 DEF ProcSetResult, AtHead
  <2>2. 1 \in DOMAIN queue /\ queue[1] = ptask
    BY <1>1, <1>2, <1>3, <1>5 DEF ProcSetResult, AtHead
  <2>3. mpc \notin MainHolds.tree
    BY <1>1, <1>5 DEF ProcSetResult, LocksMatch, HeldBetween, MainHolds, ProcHolds
  <2>4. /\ DOMAIN queue' = 1 .. Len(queue) - 1 /\ DOMAIN queue = 1 .. Len(queue)
        /\ DOMAIN results = 1 .. Len(results) /\ last_task_id' = last_task_id
        /\ Len(queue) \in Nat /\ Len(results) \in Nat /\ queue[1].id = ptask.id
    BY <1>2, <1>5, <2>2 DEF ProcSetResult, AtHead
  <2>5. \A i, j \in DOMAIN queue' : i < j => queue'[i].id < queue'[j].id
    BY <1>1, <2>1, <2>4
  <2>6. \A i, j \in DOMAIN results' : i < j => results'[i].id > results'[j].id
    BY <1>1, <1>3, <2>1, <2>2, <2>4, SMTT(30)
  <2>7. \A i \in DOMAIN queue', j \in DOMAIN results' : queue'[i].id > results'[j].id
    BY <1>1, <1>3, <2>1, <2>2, <2>4
  <2>8. \A i \in DOMAIN queue' : queue'[i].id <= last_task_id'
    BY <1>1, <2>1, <2>4
  <2>9. IdsOrdered'
    BY <2>5, <2>6, <2>7, <2>8
  <2>10. ProcessorTaskAlive' /\ NoLostWakeup'
    BY <1>1, <1>5, <2>3 DEF ProcSetResult, MainHolds
  <2>11. NewestTask'
    <3>1. /\ mpc \notin {"lock_queue", "append", "broadcast", "return_id"}
          /\ mpc' = mpc /\ queue # <<>>
      BY <1>5, <2>2, <2>3 DEF ProcSetResult, MainHolds
    <3>2. \A i \in DOMAIN results' : results'[i].id <= last_task_id'
      BY <1>1, <1>3, <2>1, <2>2, <2>4
    <3> QED BY <1>1, <3>1, <3>2
  <2> QED BY <2>9, <2>10, <2>11
<1>6. CASE CreateTask
  <2>1. /\ last_task_id' = last_task_id + 1 /\ mtask'.id = last_task_id'
        /\ UNCHANGED <<queue, results, ppc, ptask>>
    BY <1>6 DEF CreateTask
  <2> QED BY <1>1, <1>2, <1>3, <1>6, <2>1 DEF CreateTask
<1>7. CASE CreateTaskFails
  <2>1. last_task_id' \in Int /\ last_task_id' >= last_task_id
    BY <1>2, <1>7 DEF CreateTaskFails
  <2> QED BY <1>1, <1>2, <1>3, <1>7, <2>1 DEF CreateTaskFails
<1>8. CASE BroadcastAndUnlock
  <2>1. ppc # "cond_wait"
    BY <1>1, <1>8 DEF BroadcastAndUnlock, LocksMatch, HeldBetween, MainHolds, ProcHolds
  <2> QED BY <1>1, <1>2, <1>3, <1>8, <2>1 DEF BroadcastAndUnlock, Broadcast
<1>9. CASE Starting
  BY <1>1, <1>2, <1>3, <1>9 DEF
     Starting, CreateProcessor, InitTreeLock, Register, RegisterFails,
     Broadcast
<1>10. CASE Handling
  BY <1>1, <1>2, <1>3, <1>10, <1>4, <1>6, <1>7, <1>8 DEF
     Handling, LockTree, InvokeRead, InvokeUnknown, CreateTask,
     LockQueue, BroadcastAndUnlock, ReturnTaskId,
     LockResults, GetResult, UnlockTree, SendResponse, Broadcast
<1>11. CASE ShuttingDown
  BY <1>1, <1>2, <1>3, <1>11 DEF
     ShuttingDown, DestroyTasks, DestroyQueue, DestroyQueueLock,
     DestroyCond, DestroyResults, DestroyTree, Exit, Broadcast
<1>12. CASE Processor
  BY <1>1, <1>2, <1>3, <1>12, <1>5 DEF
     Processor, ProcLockQueue, ProcEnd, ProcFoundNone, ProcWait, ProcFound,
     ProcPick, ProcReadTask, ProcLockTree, ProcExecute, ProcExecuteFails,
     ProcReplicate, ProcReplicateFails, ProcRecordLockQueue,
     ProcRecordLockResults, ProcSetResultFails, ProcUnlockTree, ProcFault,
     Broadcast
<1>13. CASE Environment
  BY <1>1, <1>2, <1>3, <1>13 DEF
     Environment, ReceiveRequest, Interrupt, Promote, SpuriousWakeup,
     Broadcast
<1>14. CASE UNCHANGED vars
  BY <1>1, <1>2, <1>3, <1>14 DEF vars
<1> QED BY <1>4, <1>5, <1>6, <1>7, <1>8, <1>9, <1>10, <1>11, <1>12, <1>13, <1>14 DEF Next, Main, Exited

\* tree_lock is initialised before the first request is received, and stays so.
LEMMA InitialisedNext == IInv /\ [Next]_vars => Initialised'
<1> SUFFICES ASSUME IInv, [Next]_vars PROVE Initialised'
  OBVIOUS
<1>1. Initialised /\ owner \in [Mutexes -> Threads \cup {Free, NotInit, Gone}]
  BY DEF IInv, TypeOK
<1>0. owner["tree"] = NotInit => ppc \notin Dereferences
  <2> SUFFICES ASSUME owner["tree"] = NotInit PROVE ppc \notin Dereferences
    OBVIOUS
  <2>1. mpc \in {"tree_skel_init", "init_tree_lock"} /\ ~Stopped
    BY <1>1 DEF Initialised, Stopped
  <2> QED BY <2>1 DEF IInv, NewestTask, Beginning, ProcessorTaskAlive, HasTask, Dereferences
<1> USE DEF Initialised, MainMoves, ProcMoves, Exits, mainVars, procVars, Mutexes,
            Threads
<1>2. CASE Starting
  BY <1>1, <1>2 DEF
     Starting, CreateProcessor, InitTreeLock, Register, RegisterFails,
     Acquire, Released, DestroyedMutex
<1>3. CASE Handling
  BY <1>1, <1>3 DEF
     Handling, LockTree, InvokeRead, InvokeUnknown, CreateTask,
     CreateTaskFails, LockQueue, AppendTask, BroadcastAndUnlock,
     ReturnTaskId, LockResults, GetResult, UnlockTree, SendResponse,
     Acquire, Released, DestroyedMutex
<1>4. CASE ShuttingDown
  BY <1>1, <1>4 DEF
     ShuttingDown, DestroyTasks, DestroyQueue, DestroyQueueLock,
     DestroyCond, DestroyResults, DestroyTree, Exit, Acquire, Released,
     DestroyedMutex
<1>5. CASE Processor
  BY <1>0, <1>1, <1>5 DEF Dangling, Dereferences,
     Processor, ProcLockQueue, ProcEnd, ProcFoundNone, ProcWait, ProcFound,
     ProcPick, ProcReadTask, ProcLockTree, ProcExecute, ProcExecuteFails,
     ProcReplicate, ProcReplicateFails, ProcRecordLockQueue,
     ProcRecordLockResults, ProcSetResult, ProcSetResultFails,
     ProcUnlockTree, ProcFault, Acquire, Released, DestroyedMutex
<1>6. CASE Environment
  BY <1>1, <1>6 DEF
     Environment, ReceiveRequest, Interrupt, Promote, SpuriousWakeup,
     Acquire, Released, DestroyedMutex
<1>7. CASE UNCHANGED vars
  BY <1>1, <1>7 DEF vars
<1> QED BY <1>2, <1>3, <1>4, <1>5, <1>6, <1>7 DEF Next, Main, Exited

\* The main thread keeps what it has in hand.
LEMMA RequestNext == IInv /\ [Next]_vars /\ ~Stopped' => RequestInHand'
<1> SUFFICES ASSUME IInv, [Next]_vars, ~Stopped' PROVE RequestInHand'
  OBVIOUS
<1>1. /\ ~Stopped /\ RequestInHand
      /\ Beginning => ~HasTask
  BY StoppedStays DEF IInv, NewestTask, ProcessorTaskAlive
<1>2. /\ results \in Seq(ResultNodes) /\ last_task_id \in Int /\ MaxTasks \in Nat
      /\ response \in Responses \cup {NoMessage}
      /\ HasTask => ptask \in Tasks
  BY OperationsAssumption DEF IInv, TypeOK, TasksKnown
<1> USE DEF MainMoves, ProcMoves, Exits, mainVars, procVars, tasksVars, envVars, locals,
            Stopped, RequestInHand, Beginning, HasTask
<1>3. CASE Starting
  BY <1>1, <1>2, <1>3 DEF
     Starting, CreateProcessor, InitTreeLock, Register, RegisterFails, Broadcast
<1>4. CASE InvokeRead
  <2>1. response' \in Responses
    <3>1. store \in [Keys -> Values \cup {NoValue}]
      BY DEF IInv, TypeOK
    <3> QED BY <1>4, <3>1, AnswersType DEF InvokeRead, ErrorMessage, Responses
  <2> QED BY <1>1, <1>2, <1>4, <2>1 DEF InvokeRead
<1>5. CASE InvokeUnknown
  BY <1>1, <1>2, <1>5 DEF InvokeUnknown, ErrorMessage, Responses
<1>6. CASE CreateTask
  BY <1>1, <1>2, <1>6 DEF CreateTask
<1>7. CASE CreateTaskFails
  BY <1>1, <1>2, <1>7 DEF CreateTaskFails, Responses
<1>8. CASE ReturnTaskId
  <2>1. response' \in Responses /\ request \in Requests
    BY <1>1, <1>8 DEF ReturnTaskId, Responses, Requests, IInv, TasksKnown, Tasks
  <2> QED BY <1>1, <1>2, <1>8, <2>1 DEF ReturnTaskId
<1>9. CASE GetResult
  <2>1. response' \in Responses
    <3>1. ResultOf(results, request.id) \in TaskResults
      BY <1>2, ResultOfType
    <3> QED BY <1>9, <3>1 DEF GetResult, IntOf, TaskResults, Responses
  <2>2. request \in Requests
    BY <1>1, <1>9 DEF GetResult, Requests
  <2> QED BY <1>1, <1>2, <1>9, <2>1, <2>2 DEF GetResult
<1>10. CASE Handling
  BY <1>1, <1>2, <1>10, <1>4, <1>5, <1>6, <1>7, <1>8, <1>9 DEF
     Handling, LockTree, LockQueue, AppendTask, BroadcastAndUnlock, LockResults,
     UnlockTree, SendResponse, Broadcast
<1>11. CASE ShuttingDown
  BY <1>1, <1>2, <1>11 DEF
     ShuttingDown, DestroyTasks, DestroyQueue, DestroyQueueLock, DestroyCond,
     DestroyResults, DestroyTree, Exit
<1>12. CASE ProcSetResult
  <2>1. \A i \in DOMAIN results' : results'[i].result = "SUCCESSFUL"
    <3>1. Outcome(ptask.write) = "SUCCESSFUL"
      BY <1>2, <1>12 DEF ProcSetResult, Outcome, Tasks, Writes, Puts, Dels
    <3>2. /\ DOMAIN results' = 1 .. Len(results) + 1
          /\ results'[1].result = Outcome(ptask.write)
          /\ \A i \in DOMAIN results' :
               i # 1 => results'[i] = results[i - 1] /\ i - 1 \in DOMAIN results
      BY <1>2, <1>12 DEF ProcSetResult
    <3> QED BY <1>1, <3>1, <3>2
  <2> QED BY <1>1, <1>2, <1>12, <2>1 DEF ProcSetResult
<1>13. CASE Processor
  BY <1>1, <1>2, <1>13, <1>12 DEF
     Processor, ProcLockQueue, ProcEnd, ProcFoundNone, ProcWait, ProcFound, ProcPick,
     ProcReadTask, ProcLockTree, ProcExecute, ProcExecuteFails, ProcReplicate,
     ProcReplicateFails, ProcRecordLockQueue, ProcRecordLockResults,
     ProcSetResultFails, ProcUnlockTree, ProcFault
<1>14. CASE Environment
  BY <1>1, <1>2, <1>14 DEF
     Environment, ReceiveRequest, Interrupt, Promote, SpuriousWakeup
<1>15. CASE UNCHANGED vars
  BY <1>1, <1>2, <1>15 DEF vars
<1> QED BY <1>3, <1>10, <1>11, <1>13, <1>14, <1>15 DEF Next, Main, Exited

\* Operations are sent in their order, and not again unless memory is short, also
\* while the server shuts down.
LEMMA SendsNext == IInv /\ [Next]_vars => SendsConsistent'
<1> SUFFICES ASSUME IInv, [Next]_vars PROVE SendsConsistent'
  OBVIOUS
<1>1. /\ SendsConsistent
      /\ ~Stopped => NewestTask /\ ProcessorTaskAlive /\ RequestInHand
  BY DEF IInv
<1>2. /\ queue \in Seq(Tasks) /\ results \in Seq(ResultNodes) /\ sent \in Seq(Nat)
      /\ last_task_id \in Int
      /\ HasTask => ptask \in Tasks
      /\ mpc = "append" => mtask \in Tasks
  BY DEF IInv, TypeOK, TasksKnown
<1>3. /\ \A i \in DOMAIN queue : queue[i].id \in Int
      /\ \A i \in DOMAIN results : results[i].id \in Int
      /\ \A i \in DOMAIN sent : sent[i] \in Int
  <2>1. \A i \in DOMAIN queue : queue[i] \in Tasks
    BY <1>2
  <2>2. \A i \in DOMAIN results : results[i] \in ResultNodes
    BY <1>2
  <2> QED BY <1>2, <2>1, <2>2 DEF Tasks, ResultNodes
<1> USE DEF MainMoves, ProcMoves, Exits, mainVars, procVars, tasksVars, envVars, locals,
            Stopped, Beginning, HasTask, Replicated, SendsConsistent, SentBefore,
            SentInOrder
<1>4. CASE AppendTask
  <2>1. /\ DOMAIN queue' = DOMAIN queue \cup {Len(queue) + 1}
        /\ \A i \in DOMAIN queue : queue'[i] = queue[i] /\ i < Len(queue) + 1
        /\ queue'[Len(queue) + 1] = mtask
        /\ queue # <<>> => Head(queue') = Head(queue)
        /\ UNCHANGED <<results, sent, last_task_id, ppc, ptask, role>>
        /\ mpc = "append" /\ mpc' = "broadcast" /\ mtask.id \in Int
    BY <1>2, <1>4 DEF AppendTask, Tasks
  <2>2. /\ mtask.id = last_task_id
        /\ \A i \in DOMAIN queue : queue[i].id < mtask.id
        /\ \A i \in DOMAIN results : results[i].id < mtask.id
        /\ \A i \in DOMAIN sent : sent[i] < mtask.id
        /\ HasTask => queue # <<>>
    BY <1>1, <2>1 DEF NewestTask, ProcessorTaskAlive
  <2>3. \A i, j \in DOMAIN queue' : i < j => queue'[i].id < queue'[j].id
    BY <1>1, <1>2, <2>1, <2>2
  <2>4. \A i \in DOMAIN queue', j \in DOMAIN results' : queue'[i].id > results'[j].id
    BY <1>1, <1>3, <2>1, <2>2
  <2>5. ppc # "exited" /\ ~Replicated => \A i \in DOMAIN queue' : SentBefore(queue'[i].id)
    BY <1>1, <1>3, <2>1, <2>2
  <2> QED BY <1>1, <2>1, <2>2, <2>3, <2>4, <2>5
<1>5. CASE CreateTask \/ CreateTaskFails
  <2>1. /\ last_task_id' \in Int /\ last_task_id' >= last_task_id
        /\ UNCHANGED <<queue, results, sent, ppc, ptask, role>>
        /\ mpc = "invoke"
        /\ mpc' = "lock_queue" => mtask'.id = last_task_id + 1
        /\ mpc' \in {"lock_queue", "unlock_tree"}
    BY <1>2, <1>5 DEF CreateTask, CreateTaskFails
  <2>2. \A i \in DOMAIN sent : sent[i] <= last_task_id
    BY <1>1, <2>1
  <2>3. ~Stopped' => \A i \in DOMAIN sent' : sent'[i] <= last_task_id'
    BY <1>2, <1>3, <2>1, <2>2
  <2>4. mpc' \in {"lock_queue", "append"} => \A i \in DOMAIN sent' : sent'[i] < mtask'.id
    BY <1>2, <1>3, <2>1, <2>2
  <2> QED BY <1>1, <2>1, <2>3, <2>4
<1>6. CASE ProcPick
  <2>1. /\ queue # <<>> /\ ptask' = queue[1] /\ 1 \in DOMAIN queue
        /\ ppc = "pick" /\ ppc' = "read_task"
        /\ UNCHANGED <<queue, results, sent, last_task_id, role, mpc, mtask>>
    BY <1>2, <1>6 DEF ProcPick
  <2> QED BY <1>1, <1>2, <1>3, <2>1
<1>7. CASE ProcReplicate
  <2>1. /\ ppc = "replicate" /\ ppc' = "record_lock_queue" /\ ptask.id \in Int
        /\ UNCHANGED <<queue, results, last_task_id, role, mpc, mtask, ptask>>
        /\ sent' = IF role = "BACKUP" THEN sent ELSE Append(sent, ptask.id)
    BY <1>2, <1>7 DEF ProcReplicate, Tasks
  <2>2. CASE role = "BACKUP"
    BY <1>1, <1>2, <1>3, <2>1, <2>2
  <2>3. CASE role # "BACKUP"
    <3>1. /\ DOMAIN sent' = DOMAIN sent \cup {Len(sent) + 1}
          /\ \A i \in DOMAIN sent : sent'[i] = sent[i] /\ i < Len(sent) + 1
          /\ sent'[Len(sent) + 1] = ptask.id
          /\ sent # <<>> => sent'[1] = sent[1]
          /\ sent = <<>> => sent'[1] = ptask.id
      BY <1>2, <2>1, <2>3
    <3>2. \A i \in DOMAIN sent' : sent'[i] <= ptask.id /\ sent'[i] \in Int
      BY <1>1, <1>3, <2>1, <3>1
    <3>3. \E i \in DOMAIN sent' : sent'[i] = ptask.id
      BY <3>1
    <3>4. \A i, j \in DOMAIN sent' :
            i < j => sent'[i] < sent'[j] \/ (AllocMayFail /\ sent'[i] = sent'[j])
      BY <1>1, <1>2, <1>3, <2>1, <3>1
    <3>5. \A i \in DOMAIN results' :
            sent' # <<>> /\ results'[i].id > sent'[1] =>
              results'[i].id \in {sent'[k] : k \in DOMAIN sent'}
      <4> SUFFICES ASSUME NEW i \in DOMAIN results, results[i].id > sent'[1]
                   PROVE  results[i].id \in {sent'[k] : k \in DOMAIN sent'}
        BY <2>1
      <4>1. results[i].id < ptask.id
        BY <1>1, <2>1
      <4>2. sent # <<>>
        BY <1>3, <2>1, <3>1, <4>1
      <4>3. results[i].id \in {sent[k] : k \in DOMAIN sent}
        BY <1>1, <3>1, <4>2
      <4> QED BY <3>1, <4>3
    <3>6. SentInOrder'
      BY <3>4, <3>5
    <3>7. ~Stopped' => \A i \in DOMAIN sent' : sent'[i] <= last_task_id'
      <4> SUFFICES ASSUME ~Stopped PROVE ptask.id <= last_task_id
        BY <1>1, <1>3, <2>1, <3>1
      <4>1. queue # <<>> /\ ptask = queue[1] /\ 1 \in DOMAIN queue
        BY <1>1, <1>2, <2>1 DEF ProcessorTaskAlive
      <4> QED BY <4>1 DEF IInv, IdsOrdered
    <3>8. mpc' \in {"lock_queue", "append"} => \A i \in DOMAIN sent' : sent'[i] < mtask'.id
      <4>1. CASE mpc \in {"lock_queue", "append"}
        <5>1. queue # <<>> /\ ptask = queue[1] /\ 1 \in DOMAIN queue
          BY <1>1, <1>2, <2>1, <4>1 DEF ProcessorTaskAlive
        <5>2. ptask.id < mtask.id
          BY <1>1, <4>1, <5>1 DEF NewestTask
        <5> QED BY <1>1, <2>1, <3>1, <4>1, <5>2
      <4> QED BY <2>1, <4>1
    <3> QED BY <1>1, <2>1, <2>3, <3>2, <3>3, <3>6, <3>7, <3>8
  <2> QED BY <2>2, <2>3
<1>8. CASE ProcSetResult
  <2>1. /\ \A i \in DOMAIN queue' : queue'[i] = queue[i + 1] /\ i + 1 \in DOMAIN queue
        /\ DOMAIN results' = 1 .. Len(results) + 1 /\ DOMAIN results = 1 .. Len(results)
        /\ results'[1].id = ptask.id
        /\ \A i \in DOMAIN results' :
             i # 1 => results'[i] = results[i - 1] /\ i - 1 \in DOMAIN results
        /\ 1 \in DOMAIN queue /\ queue[1] = Head(queue) /\ queue # <<>>
        /\ DOMAIN queue = 1 .. Len(queue) /\ DOMAIN queue' = 1 .. Len(queue) - 1
        /\ Len(queue) \in Nat /\ Len(results) \in Nat
        /\ UNCHANGED <<sent, role, last_task_id, mpc, mtask>>
        /\ ppc = "set_result" /\ ppc' = "unlock_tree"
    BY <1>2, <1>8 DEF ProcSetResult, AtHead
  <2>2. /\ queue[1] = ptask /\ ptask.id \in Int
        /\ \A i \in DOMAIN queue' : queue'[i].id > ptask.id /\ queue'[i].id \in Int
        /\ \A i \in DOMAIN sent : sent[i] <= ptask.id
        /\ \A i \in DOMAIN results' : results'[i].id <= ptask.id /\ results'[i].id \in Int
    <3>1. queue[1] = ptask /\ ptask.id \in Int
      BY <1>1, <1>3, <2>1
    <3>2. \A i \in DOMAIN queue' : queue'[i].id > ptask.id /\ queue'[i].id \in Int
      BY <1>1, <1>3, <2>1, <3>1
    <3>3. \A i \in DOMAIN results' : results'[i].id <= ptask.id /\ results'[i].id \in Int
      BY <1>1, <1>3, <2>1, <3>1
    <3> QED BY <1>1, <2>1, <3>1, <3>2, <3>3
  <2>3. \A i, j \in DOMAIN queue' : i < j => queue'[i].id < queue'[j].id
    BY <1>1, <2>1
  <2>4. \A i \in DOMAIN queue', j \in DOMAIN results' : queue'[i].id > results'[j].id
    BY <2>2
  <2>5. \A i \in DOMAIN queue' : SentBefore(queue'[i].id)
    BY <1>3, <2>2
  <2>6. \A i \in DOMAIN results' :
          sent # <<>> /\ results'[i].id > sent[1] =>
            results'[i].id \in {sent[k] : k \in DOMAIN sent}
    BY <1>1, <2>1
  <2>7. SentInOrder'
    BY <1>1, <2>1, <2>6
  <2> QED BY <1>1, <2>1, <2>3, <2>4, <2>5, <2>7
<1>9. CASE ProcSetResultFails
  <2>1. /\ UNCHANGED <<queue, results, sent, role, last_task_id, mpc, mtask>>
        /\ ppc = "set_result" /\ ppc' = "unlock_tree"
        /\ queue # <<>> => queue[1] = Head(queue) /\ 1 \in DOMAIN queue
        /\ DOMAIN queue = 1 .. Len(queue) /\ Len(queue) \in Nat
        /\ queue # <<>> /\ Head(queue).id = ptask.id => AllocMayFail
    BY <1>2, <1>9 DEF ProcSetResultFails, AtHead
  <2>2. ASSUME NEW i \in DOMAIN queue PROVE SentBefore(queue[i].id)
    <3>1. AllocMayFail /\ queue[1] = ptask /\ queue[1].id <= queue[i].id
      BY <1>1, <1>3, <2>1
    <3>2. \A k \in DOMAIN sent : sent[k] <= queue[i].id
      BY <1>1, <1>3, <2>1, <3>1
    <3> QED BY <1>3, <3>1, <3>2
  <2> QED BY <1>1, <2>1, <2>2
\* The other steps add nothing and send nothing; a task in hand stays the same.
<1> DEFINE Quiet ==
      /\ UNCHANGED <<sent, ptask>>
      /\ UNCHANGED queue \/ queue' = <<>>
      /\ UNCHANGED results \/ results' = <<>>
      /\ Stopped' \/ (UNCHANGED last_task_id /\ ~Stopped)
      /\ mpc' \in {"lock_queue", "append"} =>
           mpc \in {"lock_queue", "append"} /\ UNCHANGED mtask
      /\ role' = "BACKUP" => role = "BACKUP" \/ mpc = "register"
      /\ \/ ppc' = "exited"
         \/ Replicated' = Replicated /\ (HasTask' => HasTask) /\ ppc # "exited"
<1>10. Quiet => SendsConsistent'
  <2> SUFFICES ASSUME Quiet PROVE SendsConsistent'
    OBVIOUS
  <2>1. \A i, j \in DOMAIN queue' : i < j => queue'[i].id < queue'[j].id
    BY <1>1
  <2>2. \A i \in DOMAIN queue', j \in DOMAIN results' : queue'[i].id > results'[j].id
    BY <1>1
  <2>3. /\ HasTask' => \A i \in DOMAIN results' : results'[i].id < ptask'.id
        /\ HasTask' /\ queue' # <<>> => ptask' = Head(queue')
    BY <1>1
  <2>4. /\ ppc' # "exited" /\ ~Replicated' =>
             \A i \in DOMAIN queue' : SentBefore(queue'[i].id)
        /\ HasTask' /\ ~Replicated' => SentBefore(ptask'.id)
    BY <1>1
  <2>5. Replicated' => /\ \A i \in DOMAIN sent' : sent'[i] <= ptask'.id
                       /\ sent' # <<>> => \E i \in DOMAIN sent' : sent'[i] = ptask'.id
    BY <1>1
  <2>6. /\ ~Stopped' => \A i \in DOMAIN sent' : sent'[i] <= last_task_id'
        /\ mpc' \in {"lock_queue", "append"} => \A i \in DOMAIN sent' : sent'[i] < mtask'.id
        /\ role' = "BACKUP" => sent' = <<>>
    <3>1. ~Stopped' => \A i \in DOMAIN sent' : sent'[i] <= last_task_id'
      BY <1>1
    <3>2. mpc' \in {"lock_queue", "append"} => \A i \in DOMAIN sent' : sent'[i] < mtask'.id
      BY <1>1
    <3>3. role' = "BACKUP" => sent' = <<>>
      BY <1>1 DEF RequestInHand
    <3> QED BY <3>1, <3>2, <3>3
  <2>7. SentInOrder'
    BY <1>1
  <2> QED BY <2>1, <2>2, <2>3, <2>4, <2>5, <2>6, <2>7
<1>11. CASE Starting
  <2>1. Quiet
    BY <1>1, <1>11 DEF
     Starting, CreateProcessor, InitTreeLock, Register, RegisterFails, IInv, LocksMatch
  <2> QED BY <1>10, <2>1
<1>12. CASE Handling
  BY <1>1, <1>10, <1>12, <1>4, <1>5 DEF
     Handling, LockTree, InvokeRead, InvokeUnknown, LockQueue, BroadcastAndUnlock,
     ReturnTaskId, LockResults, GetResult, UnlockTree, SendResponse, Broadcast
<1>13. CASE ShuttingDown
  BY <1>1, <1>10, <1>13 DEF
     ShuttingDown, DestroyTasks, DestroyQueue, DestroyQueueLock, DestroyCond,
     DestroyResults, DestroyTree, Exit, Broadcast
<1>14. CASE Processor
  BY <1>1, <1>10, <1>14, <1>6, <1>7, <1>8, <1>9 DEF
     Processor, ProcLockQueue, ProcEnd, ProcFoundNone, ProcWait, ProcFound,
     ProcReadTask, ProcLockTree, ProcExecute, ProcExecuteFails,
     ProcReplicateFails, ProcRecordLockQueue, ProcRecordLockResults,
     ProcUnlockTree, ProcFault
<1>15. CASE Environment
  BY <1>1, <1>10, <1>15 DEF
     Environment, ReceiveRequest, Interrupt, Promote, SpuriousWakeup
<1>16. CASE UNCHANGED vars
  BY <1>1, <1>16 DEF vars
<1> QED BY <1>11, <1>12, <1>13, <1>14, <1>15, <1>16 DEF Next, Main, Exited

\* The inductive invariant holds in every state of every behaviour.
THEOREM InvariantHolds == Spec => []IInv
<1>1. Init => IInv
  <2> SUFFICES ASSUME Init PROVE IInv
    OBVIOUS
  <2>1. TypeOK /\ TasksKnown
    BY TypesInit DEF Types
  <2>2. LocksMatch
    BY DEF Init, LocksMatch, HeldBetween, MainHolds, ProcHolds, Mutexes
  <2>3. NewestTask /\ ProcessorTaskAlive /\ IdsOrdered /\ NoLostWakeup /\ Initialised
    BY DEF Init, NewestTask, ProcessorTaskAlive, IdsOrdered, NoLostWakeup, HasTask,
           Initialised
  <2>4. RequestInHand
    BY OperationsAssumption DEF Init, RequestInHand, Beginning
  <2>5. SendsConsistent
    BY DEF Init, SendsConsistent, SentInOrder, HasTask, Replicated
  <2> QED BY <2>1, <2>2, <2>3, <2>4, <2>5 DEF IInv
<1>2. IInv /\ [Next]_vars => IInv'
  <2> SUFFICES ASSUME IInv, [Next]_vars PROVE IInv'
    OBVIOUS
  <2>1. TypeOK' /\ TasksKnown'
    BY TypesNext DEF Types, IInv
  <2>2. CASE Stopped'
    BY <2>1, <2>2, InitialisedNext, SendsNext
       DEF IInv, ProcessorTaskAlive, IdsOrdered, NoLostWakeup
  <2>3. CASE ~Stopped'
    BY <2>1, <2>3, InitialisedNext, LocksNext, TasksNext, RequestNext, SendsNext DEF IInv
  <2> QED BY <2>2, <2>3
<1> QED BY <1>1, <1>2, PTL DEF Spec

\* Every variable keeps to its values.
THEOREM TypesCorrect == Spec => []TypeOK
<1>1. IInv => TypeOK
  BY DEF IInv
<1> QED BY <1>1, InvariantHolds, PTL

\* The processor never works on a task that somebody freed.
THEOREM ProcessorTaskSafe == Spec => []ProcessorTaskAlive
<1>1. IInv => ProcessorTaskAlive
  BY DEF IInv
<1> QED BY <1>1, InvariantHolds, PTL

\* tasks_add_task reads the task it queued before anybody frees it.
THEOREM ReturnedTaskSafe == Spec => []ReturnedTaskAlive
<1>1. IInv => ReturnedTaskAlive
  BY DEF IInv, NewestTask, ReturnedTaskAlive, Stopped
<1> QED BY <1>1, InvariantHolds, PTL

\* The queue and the list of results keep the orders their comments promise.
THEOREM OrdersKept == Spec => []IdsOrdered
<1>1. IInv => IdsOrdered
  BY DEF IInv
<1> QED BY <1>1, InvariantHolds, PTL

\* The processor never sleeps on a task.
THEOREM WakeupsKept == Spec => []NoLostWakeup
<1>1. IInv => NoLostWakeup
  BY DEF IInv
<1> QED BY <1>1, InvariantHolds, PTL

\* tree_lock is initialised when it is used, and keeps the threads apart.
THEOREM TreeLockCorrect == Spec => []TreeLockProtects
<1>1. IInv => TreeLockProtects
  <2> SUFFICES ASSUME IInv PROVE TreeLockProtects
    OBVIOUS
  <2>1. ~(mpc \in MainHolds.tree /\ ppc \in ProcHolds.tree)
    BY DEF IInv, Stopped, LocksMatch, HeldBetween, MainHolds, ProcHolds
  <2>2. ppc \in {"lock_tree"} \cup ProcHolds.tree => owner["tree"] # NotInit
    <3> SUFFICES ASSUME ppc \in {"lock_tree"} \cup ProcHolds.tree, owner["tree"] = NotInit
                 PROVE  FALSE
      OBVIOUS
    <3>1. mpc \in {"tree_skel_init", "init_tree_lock"} /\ ~Stopped
      BY DEF IInv, Initialised, Stopped
    <3>2. queue = <<>> /\ ~HasTask
      BY <3>1 DEF IInv, NewestTask, Beginning, ProcessorTaskAlive
    <3>3. ppc \notin ProcHolds.tree
      BY <3>1 DEF IInv, LocksMatch, HeldBetween
    <3> QED BY <3>2, <3>3 DEF HasTask
  <2> QED BY <2>1, <2>2 DEF TreeLockProtects
<1> QED BY <1>1, InvariantHolds, PTL

-----------------------------------------------------------------------------
(* The search in the list of results, and what a step does to it.          *)

\* In a list whose ids descend, the early stop of tasks_get_result skips nothing.
LEMMA SearchFinds ==
  ASSUME NEW list \in Seq(ResultNodes),
         \A i, j \in DOMAIN list : i < j => list[i].id > list[j].id,
         NEW k \in DOMAIN list
  PROVE  ResultOf(list, list[k].id) = list[k].result
<1> DEFINE found == {i \in DOMAIN list : /\ list[i].id = list[k].id
                                         /\ \A j \in 1 .. i - 1 : list[j].id > list[k].id}
<1>1. \A i \in DOMAIN list : list[i].id \in Int
  <2>1. \A i \in DOMAIN list : list[i] \in ResultNodes
    OBVIOUS
  <2> QED BY <2>1 DEF ResultNodes
<1>2. k \in found
  BY <1>1
<1>3. \A i \in found : i = k
  BY <1>1
<1>4. found # {} /\ (CHOOSE i \in found : TRUE) = k
  BY <1>2, <1>3
<1> QED BY <1>4 DEF ResultOf

\* An answer other than NOT_EXECUTED comes from a node with that id.
LEMMA SearchSound ==
  ASSUME NEW list \in Seq(ResultNodes), NEW id, ResultOf(list, id) # "NOT_EXECUTED"
  PROVE  \E k \in DOMAIN list : list[k].id = id
BY DEF ResultOf

\* While the server runs, two statements change the queue or the results.
LEMMA QueueSteps ==
  [Next]_vars /\ ~Stopped' =>
    AppendTask \/ ProcSetResult \/ UNCHANGED <<queue, results>>
<1> SUFFICES ASSUME [Next]_vars, ~Stopped'
             PROVE  AppendTask \/ ProcSetResult \/ UNCHANGED <<queue, results>>
  OBVIOUS
<1> USE DEF Stopped, tasksVars
<1>1. CASE Starting
  BY <1>1 DEF
     Starting, CreateProcessor, InitTreeLock, Register, RegisterFails,
     MainMoves
<1>2. CASE Handling
  BY <1>2 DEF
     Handling, LockTree, InvokeRead, InvokeUnknown, CreateTask,
     CreateTaskFails, LockQueue, BroadcastAndUnlock, ReturnTaskId,
     LockResults, GetResult, UnlockTree, SendResponse, MainMoves
<1>3. CASE ShuttingDown
  BY <1>3 DEF
     ShuttingDown, DestroyTasks, DestroyQueue, DestroyQueueLock,
     DestroyCond, DestroyResults, DestroyTree, Exit, MainMoves
<1>4. CASE Processor
  BY <1>4 DEF
     Processor, ProcLockQueue, ProcEnd, ProcFoundNone, ProcWait, ProcFound,
     ProcPick, ProcReadTask, ProcLockTree, ProcExecute, ProcExecuteFails,
     ProcReplicate, ProcReplicateFails, ProcRecordLockQueue,
     ProcRecordLockResults, ProcSetResultFails, ProcUnlockTree, ProcFault,
     MainMoves
<1>5. CASE Environment
  BY <1>5 DEF
     Environment, ReceiveRequest, Interrupt, Promote, SpuriousWakeup,
     MainMoves
<1>6. CASE UNCHANGED vars
  BY <1>6 DEF vars
<1> QED BY <1>1, <1>2, <1>3, <1>4, <1>5, <1>6 DEF Next, Main, Exited, vars

\* verify's search finds every result.
THEOREM SearchCorrect == Spec => []SearchExact
<1>1. IInv => SearchExact
  <2> SUFFICES ASSUME IInv, ~Stopped, NEW i \in DOMAIN results
               PROVE  ResultOf(results, results[i].id) = results[i].result
    BY DEF SearchExact
  <2>1. results \in Seq(ResultNodes)
    BY DEF IInv, TypeOK
  <2>2. \A k, l \in DOMAIN results : k < l => results[k].id > results[l].id
    BY DEF IInv, IdsOrdered
  <2> QED BY <2>1, <2>2, SearchFinds
<1> QED BY <1>1, InvariantHolds, PTL

\* Once verify has answered the result of an operation it keeps answering it.
THEOREM ResultsKept == Spec => ResultsStable
<1> DEFINE Kept == \A id \in 0 .. MaxTasks :
                     ResultOf(results, id) # "NOT_EXECUTED" =>
                       ResultOf(results', id) = ResultOf(results, id)
<1>1. IInv /\ IInv' /\ [Next]_vars => [~Stopped' => Kept]_vars
  <2> SUFFICES ASSUME IInv, IInv', [Next]_vars, ~Stopped',
                      NEW id \in 0 .. MaxTasks, ResultOf(results, id) # "NOT_EXECUTED"
               PROVE  ResultOf(results', id) = ResultOf(results, id)
    OBVIOUS
  <2>1. CASE UNCHANGED <<queue, results>>
    BY <2>1
  <2>2. CASE AppendTask
    BY <2>2 DEF AppendTask
  <2>3. CASE ProcSetResult
    <3>1. /\ results \in Seq(ResultNodes) /\ results' \in Seq(ResultNodes)
          /\ ~Stopped
      BY StoppedStays DEF IInv, TypeOK
    <3>2. /\ \A i, j \in DOMAIN results : i < j => results[i].id > results[j].id
          /\ \A i, j \in DOMAIN results' : i < j => results'[i].id > results'[j].id
      BY <3>1 DEF IInv, IdsOrdered
    <3>3. PICK k \in DOMAIN results : results[k].id = id
      BY <3>1, SearchSound
    <3>4. k + 1 \in DOMAIN results' /\ results'[k + 1] = results[k]
      BY <2>3, <3>1 DEF ProcSetResult
    <3>5. ResultOf(results, id) = results[k].result
      BY <3>1, <3>2, <3>3, SearchFinds
    <3>6. ResultOf(results', results'[k + 1].id) = results'[k + 1].result
      BY <3>1, <3>2, <3>4, SearchFinds
    <3> QED BY <3>3, <3>4, <3>5, <3>6
  <2> QED BY <2>1, <2>2, <2>3, QueueSteps
<1> QED BY <1>1, InvariantHolds, PTL DEF Spec, ResultsStable

\* A task leaves the queue with its result and in no other way.
THEOREM TasksKept == Spec => NoTaskForgotten
<1> DEFINE Kept == \A i \in DOMAIN queue :
                     \/ \E j \in DOMAIN queue' : queue'[j] = queue[i]
                     \/ \E j \in DOMAIN results' : results'[j].id = queue[i].id
<1>1. IInv /\ [Next]_vars => [~Stopped' => Kept]_vars
  <2> SUFFICES ASSUME IInv, [Next]_vars, ~Stopped', NEW i \in DOMAIN queue
               PROVE  \/ \E j \in DOMAIN queue' : queue'[j] = queue[i]
                      \/ \E j \in DOMAIN results' : results'[j].id = queue[i].id
    OBVIOUS
  <2>1. /\ queue \in Seq(Tasks) /\ results \in Seq(ResultNodes)
        /\ HasTask => queue # <<>> /\ ptask = Head(queue)
    BY StoppedStays DEF IInv, TypeOK, ProcessorTaskAlive
  <2>2. CASE UNCHANGED <<queue, results>>
    BY <2>2
  <2>3. CASE AppendTask
    <3>1. i \in DOMAIN queue' /\ queue'[i] = queue[i]
      BY <2>1, <2>3 DEF AppendTask
    <3> QED BY <3>1
  <2>4. CASE ProcSetResult
    <3>1. CASE i = 1
      <4>1. 1 \in DOMAIN results' /\ results'[1].id = ptask.id
        BY <2>1, <2>4 DEF ProcSetResult
      <4>2. ptask = queue[1]
        BY <2>1, <2>4 DEF ProcSetResult, ProcMoves, HasTask
      <4> QED BY <3>1, <4>1, <4>2
    <3>2. CASE i # 1
      <4>1. i - 1 \in DOMAIN queue' /\ queue'[i - 1] = queue[i]
        BY <2>1, <2>4, <3>2 DEF ProcSetResult
      <4> QED BY <4>1
    <3> QED BY <3>1, <3>2
  <2> QED BY <2>2, <2>3, <2>4, QueueSteps
<1> QED BY <1>1, InvariantHolds, PTL DEF Spec, NoTaskForgotten

\* The primary sends its operations in their order, and from the first on all of them.
THEOREM ReplicationOrdered == Spec => []SentInOrder
<1>1. IInv => SentInOrder
  BY DEF IInv, SendsConsistent
<1> QED BY <1>1, InvariantHolds, PTL

-----------------------------------------------------------------------------
(* The refinement of AsyncStore.                                           *)

\* The two modules speak of the same requests, answers and writes.
LEMMA SameOperations ==
  /\ Abstract!Requests = Requests /\ Abstract!Writes = Writes
  /\ Abstract!Gets = Gets /\ Abstract!Wholes = Wholes
  /\ Abstract!Verifies = Verifies /\ Abstract!Unknowns = Unknowns
  /\ Abstract!NoMessage = NoMessage /\ Abstract!ErrorMessage = ErrorMessage
  /\ Abstract!EmptyStore = EmptyStore
  /\ \A s, r : Abstract!Answers(s, r) = Answers(s, r)
  /\ \A s, w : Abstract!Apply(s, w) = Apply(s, w)
BY DEF Abstract!Requests, Abstract!Writes, Abstract!Puts, Abstract!Dels, Abstract!Gets,
       Abstract!Wholes, Abstract!Verifies, Abstract!Unknowns, Abstract!NoMessage,
       Abstract!ErrorMessage, Abstract!EmptyStore, Abstract!Answers, Abstract!Apply,
       Abstract!StoredKeys, Abstract!Heights, Requests, Writes, Puts, Dels, Gets, Wholes,
       Verifies, Unknowns, NoMessage, ErrorMessage, EmptyStore, Answers, Apply,
       StoredKeys, Heights

\* A process that stops, from wherever, takes its contents along.
LEMMA StopRefines == Stopped' => Abstract!Stop
BY SameOperations
   DEF Abstract!Stop, Abstract!Fresh, MappedPhase, MappedStore, MappedPending,
       MappedExecuted, MappedRequest, MappedResponse, Serving

\* A step that clients cannot see.
LEMMA HiddenStep ==
  ASSUME ~Stopped, ~Stopped', Beginning' <=> Beginning,
         UNCHANGED <<store, queue, results, request>>,
         Unrecorded' <=> Unrecorded, Unrecorded => UNCHANGED ptask,
         UNCHANGED MappedResponse
  PROVE  UNCHANGED Abstract!vars
<1>1. (Serving' <=> Serving) /\ Results' = Results
  BY DEF Serving, Results
<1>2. UNCHANGED <<MappedPhase, MappedStore, MappedPending, MappedExecuted, MappedRequest>>
  BY <1>1, Zenon DEF MappedPhase, MappedStore, MappedPending, MappedExecuted, MappedRequest
<1> QED BY <1>2 DEF Abstract!vars

\* tree_lock: the main thread, where it holds it, finds every executed operation
\* with its result.
LEMMA LockedView ==
  ASSUME IInv, ~Stopped, mpc \in MainHolds.tree
  PROVE  /\ Serving /\ ~Unrecorded
         /\ MappedPhase = "up" /\ MappedStore = store /\ MappedPending = queue
         /\ MappedExecuted = {results[i].id : i \in DOMAIN results}
         /\ MappedRequest = request
<1>1. ~Unrecorded
  BY DEF IInv, LocksMatch, HeldBetween, MainHolds, ProcHolds, Unrecorded
<1>2. Serving
  BY DEF Serving, Beginning, MainHolds
<1>3. Results = {results[i].id : i \in DOMAIN results}
  BY DEF IInv, RequestInHand, Results
<1> QED BY <1>1, <1>2, <1>3 DEF MappedPhase, MappedStore, MappedPending, MappedExecuted,
                               MappedRequest, Serving

\* What verify answers says whether the operation has been executed.
LEMMA VerifyAnswer ==
  ASSUME IInv, ~Stopped, NEW id
  PROVE  IntOf(ResultOf(results, id)) =
           IF id \in {results[i].id : i \in DOMAIN results} THEN 1 ELSE 0
<1>1. /\ results \in Seq(ResultNodes)
      /\ \A i, j \in DOMAIN results : i < j => results[i].id > results[j].id
      /\ \A i \in DOMAIN results : results[i].result = "SUCCESSFUL"
  BY DEF IInv, TypeOK, IdsOrdered, RequestInHand
<1>2. CASE id \in {results[i].id : i \in DOMAIN results}
  <2>1. PICK k \in DOMAIN results : results[k].id = id
    BY <1>2
  <2>2. ResultOf(results, id) = "SUCCESSFUL"
    BY <1>1, <2>1, SearchFinds
  <2> QED BY <1>2, <2>2 DEF IntOf
<1>3. CASE id \notin {results[i].id : i \in DOMAIN results}
  <2>1. ResultOf(results, id) = "NOT_EXECUTED"
    BY <1>1, <1>3, SearchSound
  <2> QED BY <1>3, <2>1 DEF IntOf
<1> QED BY <1>2, <1>3

\* Each step of the main thread while it serves is one of AsyncStore's, or hidden.
LEMMA HandlingRefines ==
  ASSUME AllocMayFail = FALSE, IInv, IInv', ~Stopped, ~Stopped', Handling
  PROVE  [Abstract!Next]_(Abstract!vars)
<1>1. /\ TypeOK /\ LocksMatch /\ NewestTask /\ RequestInHand /\ IdsOrdered /\ TasksKnown
      /\ RequestInHand'
  BY DEF IInv
<1> USE DEF MainMoves, mainVars, procVars, tasksVars, envVars, locals
<1>2. CASE LockTree \/ CreateTask \/ LockQueue \/ BroadcastAndUnlock \/ ReturnTaskId
           \/ LockResults \/ UnlockTree
  <2>1. /\ UNCHANGED <<store, queue, results, request, ptask>>
        /\ ~Beginning /\ ~Beginning'
        /\ Unrecorded' <=> Unrecorded
    BY <1>2 DEF LockTree, CreateTask, LockQueue, BroadcastAndUnlock, ReturnTaskId,
                LockResults, UnlockTree, Broadcast, Beginning, Unrecorded
  <2>2. UNCHANGED MappedResponse
    <3>1. Serving /\ Serving'
      BY <2>1 DEF Serving
    <3>2. CASE LockTree \/ CreateTask \/ LockQueue \/ LockResults \/ UnlockTree
      BY <1>1, <3>1, <3>2 DEF LockTree, CreateTask, LockQueue, LockResults, UnlockTree,
                              MappedResponse
    <3>3. CASE BroadcastAndUnlock
      BY <3>1, <3>3 DEF BroadcastAndUnlock, MappedResponse
    <3>4. CASE ReturnTaskId
      BY <3>1, <3>4 DEF ReturnTaskId, MappedResponse
    <3> QED BY <1>2, <3>2, <3>3, <3>4
  <2> QED BY <2>1, <2>2, HiddenStep
\* The answers given under tree_lock: what the mapping makes of such a step.
<1> DEFINE Answered ==
      /\ MappedPhase = "up" /\ MappedPhase' = "up" /\ MappedStore = store
      /\ MappedExecuted = {results[i].id : i \in DOMAIN results}
      /\ UNCHANGED <<MappedStore, MappedPending, MappedExecuted, MappedRequest>>
      /\ MappedRequest = request
      /\ MappedResponse = NoMessage /\ MappedResponse' = response'
<1>3. ASSUME mpc \in {"invoke", "get_result"}, mpc' = "unlock_tree",
             UNCHANGED <<store, queue, results, request, ppc>>
      PROVE  Answered
  <2>1. mpc \in MainHolds.tree /\ mpc' \in MainHolds.tree
    BY <1>3 DEF MainHolds
  <2>2. /\ Serving /\ MappedPhase = "up" /\ MappedStore = store /\ MappedPending = queue
        /\ MappedExecuted = {results[i].id : i \in DOMAIN results}
        /\ MappedRequest = request
    BY <2>1, LockedView
  <2>3. /\ ~Beginning' /\ Serving' /\ ~Unrecorded'
    <3>1. ~Unrecorded
      BY <2>1, LockedView
    <3> QED BY <1>3, <3>1 DEF Beginning, Serving, Unrecorded
  <2>4. Results' = Results /\ ~Unrecorded
    BY <1>3, <2>1, LockedView DEF Results
  <2>5. /\ UNCHANGED <<MappedStore, MappedPending, MappedExecuted, MappedRequest>>
        /\ MappedPhase' = "up"
    BY <1>3, <2>2, <2>3, <2>4 DEF MappedStore, MappedPending, MappedExecuted,
                                   MappedRequest, MappedPhase
  <2>6. MappedResponse = NoMessage /\ MappedResponse' = response'
    BY <1>1, <1>3, <2>2, <2>3 DEF MappedResponse, RequestInHand
  <2> QED BY <2>2, <2>5, <2>6
<1>4. CASE InvokeRead
  <2>1. /\ request \in Gets \cup Wholes /\ response' \in Answers(store, request)
        /\ Answered
    BY <1>3, <1>4 DEF InvokeRead
  <2>2. request # NoMessage
    BY <2>1 DEF Gets, Wholes, NoMessage
  <2>3. Abstract!AnswerRead
    BY <2>1, <2>2, SameOperations DEF Abstract!AnswerRead, Abstract!Answering
  <2> QED BY <2>3 DEF Abstract!Next
<1>5. CASE InvokeUnknown
  <2>1. request \in Unknowns /\ response' = ErrorMessage /\ Answered
    BY <1>3, <1>5 DEF InvokeUnknown
  <2>2. request # NoMessage
    BY <2>1 DEF Unknowns, NoMessage
  <2>3. Abstract!AnswerUnknown
    BY <2>1, <2>2, SameOperations DEF Abstract!AnswerUnknown, Abstract!Answering
  <2> QED BY <2>3 DEF Abstract!Next
<1>6. CASE GetResult
  <2>1. /\ request \in Verifies /\ Answered
        /\ response' = [op |-> "INT", int |-> IntOf(ResultOf(results, request.id))]
    BY <1>1, <1>3, <1>6 DEF GetResult, RequestInHand
  <2>2. request # NoMessage
    BY <2>1 DEF Verifies, NoMessage
  <2>3. Abstract!AnswerVerify
    BY <2>1, <2>2, VerifyAnswer, SameOperations
       DEF Abstract!AnswerVerify, Abstract!Answering
  <2> QED BY <2>3 DEF Abstract!Next
<1>7. CASE AppendTask
  <2>1. /\ mpc = "append" /\ mpc' = "broadcast" /\ queue' = Append(queue, mtask)
        /\ UNCHANGED <<store, results, request, response, mtask, ppc>>
    BY <1>7 DEF AppendTask
  <2>2. /\ request \in Writes /\ response = NoMessage /\ mtask \in Tasks
        /\ mtask.write = request /\ mtask.id = last_task_id /\ last_task_id < MaxTasks
        /\ \A i \in DOMAIN queue : queue[i].id < mtask.id
        /\ \A i \in DOMAIN results : results[i].id < mtask.id
    BY <1>1, <2>1 DEF RequestInHand, NewestTask, TasksKnown
  <2>3. mtask = [id |-> mtask.id, write |-> request] /\ mtask.id \in 0 .. MaxTasks
    BY <2>2, OperationsAssumption DEF Tasks
  <2>4. mpc \in MainHolds.tree /\ mpc' \in MainHolds.tree
    BY <2>1 DEF MainHolds
  <2>5. /\ Serving /\ MappedPhase = "up" /\ MappedStore = store /\ MappedPending = queue
        /\ MappedExecuted = {results[i].id : i \in DOMAIN results}
        /\ MappedRequest = request /\ ~Unrecorded
    BY <2>4, LockedView
  <2>6. ~Beginning' /\ Serving' /\ ~Unrecorded' /\ Results' = Results
    BY <2>1, <2>5 DEF Beginning, Serving, Unrecorded, Results
  <2>7. /\ UNCHANGED <<MappedPhase, MappedStore, MappedExecuted, MappedRequest>>
        /\ MappedPending' = Append(queue, mtask)
    BY <2>1, <2>5, <2>6 DEF MappedStore, MappedPending, MappedExecuted,
                            MappedRequest, MappedPhase
  <2>8. MappedResponse = NoMessage /\ MappedResponse' = [op |-> "OP_ID", id |-> mtask.id]
    BY <2>1, <2>2, <2>5, <2>6 DEF MappedResponse
  <2>9. \A other \in Abstract!Identifiers : mtask.id > other
    BY <2>2, <2>5 DEF Abstract!Identifiers
  <2>10. request # NoMessage
    BY <2>2 DEF Writes, Puts, Dels, NoMessage
  <2>11. Abstract!AcceptWrite
    <3>1. /\ Abstract!Answering /\ request \in Abstract!Writes
      BY <2>2, <2>5, <2>8, <2>10, SameOperations DEF Abstract!Answering
    <3>2. /\ MappedPending' = Append(MappedPending, [id |-> mtask.id, write |-> MappedRequest])
          /\ MappedResponse' = [op |-> "OP_ID", id |-> mtask.id]
      BY <2>3, <2>5, <2>7, <2>8
    <3> QED BY <2>3, <2>5, <2>7, <2>9, <3>1, <3>2 DEF Abstract!AcceptWrite
  <2> QED BY <2>11 DEF Abstract!Next
<1>8. CASE SendResponse
  <2>1. /\ mpc = "send" /\ mpc' = "poll" /\ response # NoMessage
        /\ request' = NoMessage /\ response' = NoMessage
        /\ UNCHANGED <<store, queue, results, ppc, ptask>>
    BY <1>1, <1>8 DEF SendResponse, RequestInHand, Responses, NoMessage
  <2>2. /\ Serving /\ Serving' /\ ~Beginning /\ ~Beginning'
        /\ (Unrecorded' <=> Unrecorded) /\ Results' = Results
    BY <2>1 DEF Serving, Beginning, Unrecorded, Results
  <2>3. /\ UNCHANGED <<MappedPhase, MappedStore, MappedPending, MappedExecuted>>
        /\ MappedPhase = "up"
    BY <2>1, <2>2 DEF MappedStore, MappedPending, MappedExecuted, MappedPhase
  <2>4. /\ MappedResponse # NoMessage /\ MappedResponse' = NoMessage
        /\ MappedRequest' = NoMessage
    BY <2>1, <2>2 DEF MappedResponse, MappedRequest
  <2>5. Abstract!Deliver
    BY <2>3, <2>4, SameOperations DEF Abstract!Deliver
  <2> QED BY <2>5 DEF Abstract!Next
<1>9. ~CreateTaskFails
  BY DEF CreateTaskFails
<1> QED BY <1>2, <1>4, <1>5, <1>6, <1>7, <1>8, <1>9 DEF Handling

\* The processor executes the oldest pending task, and does nothing else that
\* clients can see.
LEMMA ProcessorRefines ==
  ASSUME AllocMayFail = FALSE, IInv, ~Stopped, ~Stopped', Processor
  PROVE  [Abstract!Next]_(Abstract!vars)
<1>1. /\ TypeOK /\ TasksKnown /\ LocksMatch /\ NewestTask /\ RequestInHand
      /\ ProcessorTaskAlive
      /\ Beginning => ~HasTask
  BY DEF IInv, NewestTask, ProcessorTaskAlive
<1> USE DEF ProcMoves, mainVars, procVars, tasksVars, envVars, locals
<1>2. ASSUME UNCHANGED <<mpc, locals, store, queue, results, ptask>>, Unrecorded' <=> Unrecorded
      PROVE  UNCHANGED Abstract!vars
  <2>1. UNCHANGED MappedResponse /\ (Beginning' <=> Beginning)
    BY <1>2 DEF MappedResponse, Serving, Stopped, Beginning
  <2> QED BY <1>2, <2>1, HiddenStep
<1>3. CASE ProcExecute
  <2>1. /\ ppc = "execute" /\ ppc' = "replicate"
        /\ store' = Apply(store, ptask.write)
        /\ UNCHANGED <<mpc, request, mtask, response, queue, results, ptask>>
    BY <1>3 DEF ProcExecute
  <2>2. /\ HasTask /\ queue # <<>> /\ ptask = Head(queue)
        /\ Serving /\ Serving' /\ ~Beginning /\ ~Beginning'
        /\ ~Unrecorded /\ Unrecorded' /\ Results' = Results
    BY <1>1, <2>1 DEF HasTask, ProcessorTaskAlive, Serving, Stopped, Beginning,
                      Unrecorded, Results
  <2>3. /\ MappedPhase = "up" /\ MappedPhase' = "up"
        /\ MappedStore = store /\ MappedStore' = Apply(store, ptask.write)
        /\ MappedPending = queue /\ MappedPending' = Tail(queue)
        /\ MappedExecuted = Results /\ MappedExecuted' = Results \cup {ptask.id}
        /\ UNCHANGED MappedRequest
    BY <2>1, <2>2 DEF MappedPhase, MappedStore, MappedPending, MappedExecuted,
                      MappedRequest
  <2>4. UNCHANGED MappedResponse
    BY <2>1, <2>2 DEF MappedResponse
  <2>5. Abstract!Execute
    BY <2>2, <2>3, <2>4, SameOperations DEF Abstract!Execute
  <2> QED BY <2>5 DEF Abstract!Next
<1>4. CASE ProcSetResult
  <2>1. /\ ppc = "set_result" /\ ppc' = "unlock_tree" /\ queue' = Tail(queue)
        /\ results' = <<[id |-> ptask.id, result |-> Outcome(ptask.write)]>> \o results
        /\ UNCHANGED <<mpc, request, mtask, response, store>>
    BY <1>4 DEF ProcSetResult
  <2>2. /\ Serving /\ Serving' /\ Unrecorded /\ ~Unrecorded' /\ ~Beginning /\ ~Beginning'
        /\ ptask \in Tasks /\ results \in Seq(ResultNodes)
    BY <1>1, <2>1 DEF TypeOK, TasksKnown, HasTask, Serving, Stopped, Beginning, Unrecorded
  <2>3. Results' = Results \cup {ptask.id}
    <3>1. Outcome(ptask.write) = "SUCCESSFUL"
      BY <2>2 DEF Outcome, Tasks, Writes, Puts, Dels
    <3>2. /\ DOMAIN results' = 1 .. Len(results) + 1 /\ DOMAIN results = 1 .. Len(results)
          /\ Len(results) \in Nat
          /\ results'[1] = [id |-> ptask.id, result |-> "SUCCESSFUL"]
          /\ \A i \in DOMAIN results : i + 1 \in DOMAIN results' /\ results'[i + 1] = results[i]
          /\ \A i \in DOMAIN results' :
               i # 1 => i - 1 \in DOMAIN results /\ results'[i] = results[i - 1]
      BY <2>1, <2>2, <3>1
    <3>3. Results' \subseteq Results \cup {ptask.id}
      BY <3>2 DEF Results
    <3>4. Results \cup {ptask.id} \subseteq Results'
      BY <3>2 DEF Results
    <3> QED BY <3>3, <3>4
  <2>4. UNCHANGED <<MappedPhase, MappedStore, MappedPending, MappedExecuted, MappedRequest>>
    BY <2>1, <2>2, <2>3 DEF MappedPhase, MappedStore, MappedPending, MappedExecuted,
                            MappedRequest, Stopped
  <2>5. UNCHANGED MappedResponse
    BY <2>1, <2>2 DEF MappedResponse
  <2> QED BY <2>4, <2>5 DEF Abstract!vars
<1>5. CASE ProcPick
  <2>1. ~Beginning /\ ~Beginning' /\ UNCHANGED MappedResponse
    BY <1>1, <1>5 DEF ProcPick, Beginning, MappedResponse, Serving, Stopped, NewestTask
  <2> QED BY <1>5, <2>1, HiddenStep DEF ProcPick, Unrecorded
<1>6. ~ProcSetResultFails
  <2> SUFFICES ASSUME ProcSetResultFails PROVE FALSE
    OBVIOUS
  <2>1. ~AtHead /\ ppc = "set_result"
    BY DEF ProcSetResultFails
  <2> QED BY <1>1, <2>1 DEF AtHead, ProcessorTaskAlive, HasTask
<1>7. ~(ProcExecuteFails \/ ProcReplicateFails \/ ProcFault)
  BY DEF ProcExecuteFails, ProcReplicateFails, ProcFault, Exits, Stopped
<1>8. CASE ProcLockQueue \/ ProcEnd \/ ProcFoundNone \/ ProcWait \/ ProcFound
           \/ ProcReadTask \/ ProcLockTree \/ ProcReplicate \/ ProcRecordLockQueue
           \/ ProcRecordLockResults \/ ProcUnlockTree
  <2>1. UNCHANGED <<mpc, locals, store, queue, results, ptask>> /\ (Unrecorded' <=> Unrecorded)
    BY <1>8 DEF ProcLockQueue, ProcEnd, ProcFoundNone, ProcWait, ProcFound, ProcReadTask,
                ProcLockTree, ProcReplicate, ProcRecordLockQueue, ProcRecordLockResults,
                ProcUnlockTree, Unrecorded
  <2> QED BY <1>2, <2>1
<1> QED BY <1>3, <1>4, <1>5, <1>6, <1>7, <1>8 DEF Processor

\* The server starts to serve when it has its role.
LEMMA StartingRefines ==
  ASSUME IInv, ~Stopped, ~Stopped', Starting
  PROVE  [Abstract!Next]_(Abstract!vars)
<1>1. Beginning
  BY DEF Starting, CreateProcessor, InitTreeLock, Register, RegisterFails, MainMoves,
         Beginning
<1>2. /\ store = EmptyStore /\ queue = <<>> /\ results = <<>> /\ ~Unrecorded
      /\ request = NoMessage /\ response = NoMessage
  BY <1>1 DEF IInv, NewestTask, RequestInHand, ProcessorTaskAlive, HasTask, Unrecorded,
              Beginning
<1> USE DEF MainMoves, procVars, tasksVars, locals
<1>3. CASE Register
  <2>1. /\ UNCHANGED <<store, queue, results, request, response, ppc>> /\ mpc' = "poll"
    BY <1>3 DEF Register
  <2>2. Serving' /\ ~Serving /\ ~Unrecorded' /\ ~Beginning' /\ Results' = {}
    BY <1>1, <1>2, <2>1 DEF Serving, Beginning, Unrecorded, Results
  <2>3. Abstract!Start
    BY <1>1, <1>2, <2>1, <2>2 DEF Abstract!Start, MappedPhase, MappedStore, MappedPending,
       MappedExecuted, MappedRequest, MappedResponse
  <2> QED BY <2>3 DEF Abstract!Next
<1>4. CASE CreateProcessor \/ InitTreeLock
  <2>1. ~Serving /\ ~Serving' /\ Beginning'
    BY <1>1, <1>4 DEF CreateProcessor, InitTreeLock, Serving, Beginning
  <2> QED BY <1>1, <2>1 DEF Abstract!vars, MappedPhase, MappedStore, MappedPending,
       MappedExecuted, MappedRequest, MappedResponse
<1>5. ~RegisterFails
  BY DEF RegisterFails, Stopped
<1> QED BY <1>3, <1>4, <1>5 DEF Starting

\* Requests arrive when none is being answered; the rest of the environment is hidden.
LEMMA EnvironmentRefines ==
  ASSUME IInv, ~Stopped, ~Stopped', Environment
  PROVE  [Abstract!Next]_(Abstract!vars)
<1> USE DEF MainMoves, ProcMoves, mainVars, procVars, tasksVars, envVars, locals
<1>1. CASE ReceiveRequest
  <2>1. /\ mpc = "poll" /\ mpc' = "lock_tree" /\ request' \in Requests
        /\ UNCHANGED <<store, queue, results, response, mtask, ppc, ptask>>
    BY <1>1 DEF ReceiveRequest
  <2>2. request = NoMessage
    BY <2>1 DEF IInv, RequestInHand
  <2>3. /\ Serving /\ Serving' /\ ~Beginning /\ ~Beginning'
        /\ (Unrecorded' <=> Unrecorded) /\ Results' = Results
    BY <2>1 DEF Serving, Beginning, Unrecorded, Results
  <2>4. /\ UNCHANGED <<MappedPhase, MappedStore, MappedPending, MappedExecuted>>
        /\ MappedPhase = "up" /\ MappedRequest = NoMessage /\ MappedRequest' = request'
    BY <2>1, <2>2, <2>3 DEF MappedPhase, MappedStore, MappedPending, MappedExecuted,
                            MappedRequest
  <2>5. UNCHANGED MappedResponse
    BY <2>1, <2>3 DEF MappedResponse
  <2>6. Abstract!Receive
    BY <2>1, <2>4, <2>5, SameOperations DEF Abstract!Receive
  <2> QED BY <2>6 DEF Abstract!Next
<1>2. ~Interrupt
  BY DEF Interrupt, Stopped
<1>3. CASE Promote \/ SpuriousWakeup
  <2>1. /\ UNCHANGED <<mpc, store, queue, results, request, response, mtask, ptask>>
        /\ Unrecorded' <=> Unrecorded
    BY <1>3 DEF Promote, SpuriousWakeup, Unrecorded
  <2>2. UNCHANGED MappedResponse /\ (Beginning' <=> Beginning)
    BY <2>1 DEF MappedResponse, Serving, Stopped, Beginning
  <2> QED BY <2>1, <2>2, HiddenStep
<1> QED BY <1>1, <1>2, <1>3 DEF Environment

\* With memory enough, a server is the map that AsyncStore describes: every write
\* it has answered takes effect once, in the order of the identifiers, what verify
\* confirms has taken effect, and every read sees whole operations.
THEOREM Refinement ==
  ASSUME AllocMayFail = FALSE
  PROVE  Spec => ImplementsAsyncStore
<1>1. Init => Abstract!Init
  <2> SUFFICES ASSUME Init PROVE Abstract!Init
    OBVIOUS
  <2>1. ~Stopped /\ Beginning /\ ~Serving
    BY DEF Init, Stopped, Beginning, Serving
  <2> QED BY <2>1, SameOperations DEF Abstract!Init, Abstract!Fresh, MappedPhase,
       MappedStore, MappedPending, MappedExecuted, MappedRequest, MappedResponse
<1>2. IInv /\ IInv' /\ [Next]_vars => [Abstract!Next]_(Abstract!vars)
  <2> SUFFICES ASSUME IInv, IInv', [Next]_vars
               PROVE  [Abstract!Next]_(Abstract!vars)
    OBVIOUS
  <2>1. CASE Stopped'
    BY <2>1, StopRefines DEF Abstract!Next
  <2>2. CASE ~Stopped'
    <3>1. ~Stopped
      BY <2>2, StoppedStays
    <3>2. ~ShuttingDown /\ ~Exited
      BY <2>2, <3>1 DEF ShuttingDown, DestroyTasks, DestroyQueue, DestroyQueueLock,
         DestroyCond, DestroyResults, DestroyTree, Exit, Exited, MainMoves, Stopped
    <3>3. CASE UNCHANGED vars
      <4>1. /\ UNCHANGED <<mpc, ppc, store, queue, results, request, response, mtask, ptask>>
        BY <3>3 DEF vars, mainVars, procVars, tasksVars, locals
      <4>2. UNCHANGED MappedResponse /\ (Beginning' <=> Beginning)
            /\ (Unrecorded' <=> Unrecorded)
        BY <4>1 DEF MappedResponse, Serving, Stopped, Beginning, Unrecorded
      <4> QED BY <2>2, <3>1, <4>1, <4>2, HiddenStep
    <3> QED BY <2>2, <3>1, <3>2, <3>3, HandlingRefines, ProcessorRefines,
               StartingRefines, EnvironmentRefines DEF Next, Main
  <2> QED BY <2>1, <2>2
<1> QED BY <1>1, <1>2, InvariantHolds, PTL DEF Spec, ImplementsAsyncStore, Abstract!Spec
=============================================================================
