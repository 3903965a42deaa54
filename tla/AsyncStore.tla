----------------------------- MODULE AsyncStore -----------------------------
(***************************************************************************)
(* What a tree_server promises to its clients, whatever its threads do:    *)
(* a map on which requests take effect one at a time.  A write-operation   *)
(* is answered at once with a new identifier and takes effect later, in    *)
(* the order of the identifiers and exactly once; verify tells whether it  *)
(* has taken effect, and from then on every answer reflects it.  Nothing   *)
(* is promised across a stop: the contents die with the process.           *)
(***************************************************************************)
EXTENDS Operations, Sequences

VARIABLES
  phase,      \* "starting", "up" or "down"
  store,      \* the map
  pending,    \* the tasks accepted that have not taken effect, oldest first
  executed,   \* the identifiers of the tasks that have
  request,    \* the request being answered
  response    \* its answer

vars == <<phase, store, pending, executed, request, response>>

Fresh ==
  /\ store = EmptyStore /\ pending = <<>> /\ executed = {}
  /\ request = NoMessage /\ response = NoMessage

Init == phase = "starting" /\ Fresh

Start ==
  /\ phase = "starting" /\ phase' = "up"
  /\ UNCHANGED <<store, pending, executed, request, response>>

Receive ==
  /\ phase = "up" /\ request = NoMessage
  /\ request' \in Requests
  /\ UNCHANGED <<phase, store, pending, executed, response>>

Answering == phase = "up" /\ request # NoMessage /\ response = NoMessage

\* The identifiers that have been given out.
Identifiers == {pending[i].id : i \in DOMAIN pending} \cup executed

AnswerRead ==
  /\ Answering
  /\ request \in Gets \cup Wholes
  /\ response' \in Answers(store, request)
  /\ UNCHANGED <<phase, store, pending, executed, request>>

AcceptWrite ==
  /\ Answering
  /\ request \in Writes
  /\ \E id \in 0 .. MaxTasks :
       /\ \A other \in Identifiers : id > other
       /\ pending' = Append(pending, [id |-> id, write |-> request])
       /\ response' = [op |-> "OP_ID", id |-> id]
  /\ UNCHANGED <<phase, store, executed, request>>

AnswerVerify ==
  /\ Answering
  /\ request \in Verifies
  /\ response' = [op |-> "INT", int |-> IF request.id \in executed THEN 1 ELSE 0]
  /\ UNCHANGED <<phase, store, pending, executed, request>>

AnswerUnknown ==
  /\ Answering
  /\ request \in Unknowns
  /\ response' = ErrorMessage
  /\ UNCHANGED <<phase, store, pending, executed, request>>

Deliver ==
  /\ phase = "up" /\ response # NoMessage
  /\ request' = NoMessage /\ response' = NoMessage
  /\ UNCHANGED <<phase, store, pending, executed>>

\* The oldest task takes effect, whatever request is being answered.
Execute ==
  /\ phase = "up" /\ pending # <<>>
  /\ store' = Apply(store, Head(pending).write)
  /\ executed' = executed \cup {Head(pending).id}
  /\ pending' = Tail(pending)
  /\ UNCHANGED <<phase, request, response>>

Stop == phase' = "down" /\ Fresh'

Next ==
  \/ Start \/ Receive \/ AnswerRead \/ AcceptWrite \/ AnswerVerify \/ AnswerUnknown
  \/ Deliver \/ Execute \/ Stop

Spec == Init /\ [][Next]_vars
=============================================================================
