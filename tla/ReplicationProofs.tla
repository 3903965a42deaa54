------------------------- MODULE ReplicationProofs -------------------------
(***************************************************************************)
(* Whatever the number of servers, operations and crashes: a backup that   *)
(* is paired with a primary confirms no operation of that primary before   *)
(* the primary has executed it; it is sent what its primary executed, each *)
(* operation once and in order; what it confirms can be read there; and a  *)
(* server that never sent to itself queues no operation twice.             *)
(***************************************************************************)
EXTENDS Replication, SequenceTheorems, FunctionTheorems, FiniteSetTheorems, TLAPS

-----------------------------------------------------------------------------
(* Sequences and counts.                                                   *)

\* Taking one message out of those in flight leaves the others.
LEMMA RemoveAtProperties ==
  ASSUME NEW S, NEW q \in Seq(S), NEW i \in DOMAIN q
  PROVE  RemoveAt(q, i) \in Seq(S) /\ Len(RemoveAt(q, i)) = Len(q) - 1
<1>1. i \in 1 .. Len(q) /\ Len(q) \in Nat
  BY LenProperties
<1> DEFINE before == SubSeq(q, 1, i - 1)
           after  == SubSeq(q, i + 1, Len(q))
<1>2. before \in Seq(S) /\ Len(before) = i - 1
  BY <1>1, SMT
<1>3. after \in Seq(S) /\ Len(after) = Len(q) - i
  BY <1>1, SMT
<1>4. before \o after \in Seq(S) /\ Len(before \o after) = Len(before) + Len(after)
  BY <1>2, <1>3, ConcatProperties
<1>6. Len(before) + Len(after) = Len(q) - 1
  BY <1>1, <1>2, <1>3, SMTT(30)
<1>5. RemoveAt(q, i) = before \o after
  BY DEF RemoveAt
<1> QED
  BY <1>4, <1>5, <1>6, Zenon

-----------------------------------------------------------------------------
(* Types.                                                                  *)

\* Every action keeps the types.
LEMMA TypesNext ==
  ASSUME IInv, NEW s \in Servers,
         Environment(s) \/ Expire(s) \/ Watcher(s) \/ Receive(s) \/ Processor(s)
  PROVE  TypeOK'
<1> USE DEF IInv, TypeOK, taskVars, ghosts
<1>1. CASE RegisterPrimary(s)
  BY <1>1 DEF RegisterPrimary, Unpair
<1>2. CASE RegisterBackup(s)
  <2>1. znode.primary \in Servers
    BY <1>2 DEF RegisterBackup
  <2>2. Addressed(znode.primary) \in Nat
    BY <2>1 DEF Addressed
  <2>3. joined' \in [Servers -> Nat] /\ pair' \in [Servers -> Servers \cup {NoServer}]
    BY <1>2, <2>1, <2>2 DEF RegisterBackup
  <2>4. znode' \in [primary: Servers \cup {NoServer}, backup: Servers \cup {NoServer}]
    BY <1>2 DEF RegisterBackup
  <2> QED
    BY <1>2, <2>3, <2>4 DEF RegisterBackup
<1>3. CASE Crash(s)
  BY <1>3, EmptySeq DEF Crash, Dies
<1>4. CASE Lose(s)
  <2>1. PICK i \in DOMAIN flight[s] : flight' = [flight EXCEPT ![s] = RemoveAt(@, i)]
    BY <1>4 DEF Lose
  <2>2. RemoveAt(flight[s], i) \in Seq(Messages)
    BY RemoveAtProperties
  <2> QED
    BY <1>4, <2>1, <2>2 DEF Lose
<1>5. CASE Write(s)
  <2>1. Len(given) + 1 \in Ops
    BY <1>5, ReplicationAssumption, LenProperties DEF Write, Ops
  <2>2. log' \in [Servers -> Seq(Ops)]
    BY <1>5, <2>1, AppendProperties DEF Write, Queue
  <2>3. given' \in Seq([by: Servers, id: Nat])
    BY <1>5, LenProperties, AppendProperties DEF Write
  <2> QED
    BY <1>5, <2>2, <2>3 DEF Write
<1>6. CASE Expire(s)
  BY <1>6 DEF Expire
<1>7. CASE Watcher(s)
  <2>1. CASE PromoteBackup(s)
    BY <2>1 DEF PromoteBackup, Unpair
  <2>2. CASE SetPromotedRole(s)
    BY <2>2 DEF SetPromotedRole
  <2>3. CASE DeleteBackup(s)
    BY <2>3 DEF DeleteBackup
  <2> QED
    BY <1>7, <2>1, <2>2, <2>3 DEF Watcher
<1>8. CASE Receive(s)
  <2>1. PICK i \in DOMAIN flight[s] :
          /\ log' = [log EXCEPT ![s] = Append(@, flight[s][i].op)]
          /\ flight' = [flight EXCEPT ![s] = RemoveAt(@, i)]
    BY <1>8 DEF Receive, Queue
  <2>2. flight[s][i] \in Messages
    BY ElementOfSeq, LenProperties
  <2>3. flight[s][i].op \in Ops
    BY <2>2 DEF Messages
  <2>4. RemoveAt(flight[s], i) \in Seq(Messages)
    BY RemoveAtProperties
  <2>5. log' \in [Servers -> Seq(Ops)]
    BY <2>1, <2>3, AppendProperties
  <2> QED
    BY <1>8, <2>1, <2>4, <2>5 DEF Receive
<1>9. CASE Execute(s) \/ ReadRole(s)
  BY <1>9 DEF Execute, ReadRole, ProcMoves
<1>12. CASE GetBackup(s)
  BY <1>12 DEF GetBackup, ProcMoves
<1>13. CASE Record(s)
  BY <1>13, SMTT(30) DEF Record, ProcMoves
<1>10. CASE Send(s)
  <2>5. up[s] = "up" /\ ppc[s] = "connect"
    BY <1>10 DEF Send, ProcMoves
  <2>7. target[s] \in Servers /\ done[s] < Len(log[s])
    BY <2>5 DEF ProcessorConsistent
  <2>8. done[s] \in Nat /\ Len(log[s]) \in Nat
    BY LenProperties
  <2>6. target[s] \in Servers /\ done[s] + 1 \in 1 .. Len(log[s])
    BY <2>7, <2>8, SMTT(30)
  <2>1. target[s] \in Servers /\ log[s][done[s] + 1] \in Ops
    BY <2>6, ElementOfSeq
  <2>2. [from |-> s, op |-> log[s][done[s] + 1]] \in Messages
    BY <2>1 DEF Messages
  <2>3. flight' \in [Servers -> Seq(Messages)]
    BY <1>10, <2>1, <2>2, AppendProperties DEF Send
  <2>4. ppc' \in [Servers -> {"idle", "replicate", "get_backup", "connect", "record"}]
    BY <1>10 DEF Send, ProcMoves
  <2>9. UNCHANGED <<up, role, wpc, znode, log, done, target, ordered, given, ghosts>>
    BY <1>10 DEF Send
  <2>10. selfSent' \in {selfSent, selfSent \cup {s}}
    BY <1>10 DEF Send
  <2> QED
    BY <2>3, <2>4, <2>9, <2>10
<1>11. CASE ReplicationFails(s)
  BY <1>11, EmptySeq DEF ReplicationFails, Dies
<1> QED
  BY <1>1, <1>2, <1>3, <1>4, <1>5, <1>6, <1>7, <1>8, <1>9, <1>10, <1>11, <1>12, <1>13
  DEF Environment, Processor

-----------------------------------------------------------------------------
(* Roles.                                                                  *)

\* Roles and znodes change together, whatever the three steps of a promotion meet.
LEMMA RolesNext ==
  ASSUME IInv, NEW s \in Servers,
         Environment(s) \/ Expire(s) \/ Watcher(s) \/ Receive(s) \/ Processor(s)
  PROVE  RolesConsistent'
<1> USE ReplicationAssumption DEF IInv, TypeOK, RolesConsistent
<1>1. CASE RegisterPrimary(s)
  BY <1>1 DEF RegisterPrimary
<1>2. CASE RegisterBackup(s)
  BY <1>2 DEF RegisterBackup
<1>3. CASE Crash(s) \/ ReplicationFails(s)
  BY <1>3, SMTT(30) DEF Crash, ReplicationFails, Dies
<1>4. CASE Expire(s)
  BY <1>4 DEF Expire
<1>5. CASE PromoteBackup(s)
  BY <1>5 DEF PromoteBackup
<1>6. CASE SetPromotedRole(s)
  BY <1>6 DEF SetPromotedRole
<1>7. CASE DeleteBackup(s)
  BY <1>7 DEF DeleteBackup
<1>8. CASE UNCHANGED <<up, role, wpc, znode>>
  BY <1>8
<1> QED
  BY <1>1, <1>2, <1>3, <1>4, <1>5, <1>6, <1>7, <1>8
  DEF Environment, Watcher, Processor, Lose, Write, Receive, Execute, ReadRole,
      GetBackup, Send, Record

\* Who is paired with whom changes with the registered primary and backup only.
LEMMA PairsNext ==
  ASSUME IInv, NEW s \in Servers,
         Environment(s) \/ Expire(s) \/ Watcher(s) \/ Receive(s) \/ Processor(s)
  PROVE  PairsConsistent'
<1> USE ReplicationAssumption DEF IInv, TypeOK, PairsConsistent
<1>1. CASE RegisterPrimary(s)
  BY <1>1 DEF RegisterPrimary, Unpair, NewUntouched
<1>2. CASE RegisterBackup(s)
  BY <1>2 DEF RegisterBackup, NewUntouched
<1>3. CASE Expire(s)
  BY <1>3 DEF Expire, ghosts
<1>4. CASE PromoteBackup(s)
  BY <1>4 DEF PromoteBackup, Unpair
<1>5. CASE DeleteBackup(s)
  BY <1>5 DEF DeleteBackup, ghosts
<1>6. CASE UNCHANGED <<znode, pair>>
  BY <1>6
<1> QED
  BY <1>1, <1>2, <1>3, <1>4, <1>5, <1>6
  DEF Environment, Watcher, Processor, Crash, ReplicationFails, Dies, Lose, Write,
      Receive, SetPromotedRole, Execute, ReadRole, GetBackup, Send, Record, ghosts

\* A server is written to, sent to or registered only once it has started.
LEMMA NewNext ==
  ASSUME IInv, NEW s \in Servers,
         Environment(s) \/ Expire(s) \/ Watcher(s) \/ Receive(s) \/ Processor(s)
  PROVE  NewUntouched'
<1> USE ReplicationAssumption DEF IInv, TypeOK, NewUntouched
<1>1. CASE RegisterPrimary(s) \/ RegisterBackup(s)
  BY <1>1, SMTT(30) DEF RegisterPrimary, RegisterBackup, Unpair, taskVars
<1>2. CASE Crash(s) \/ ReplicationFails(s)
  BY <1>2, SMTT(30) DEF Crash, ReplicationFails, Dies, taskVars
<1>3. CASE Write(s) \/ Receive(s)
  BY <1>3, SMTT(30) DEF Write, Receive, Queue, ghosts
<1>4. CASE Lose(s)
  BY <1>4 DEF Lose, taskVars, ghosts
<1>5. CASE Expire(s)
  BY <1>5 DEF Expire, taskVars, ghosts
<1>6. CASE PromoteBackup(s)
  BY <1>6 DEF PromoteBackup, Unpair, RolesConsistent, taskVars
<1>7. CASE SetPromotedRole(s) \/ DeleteBackup(s)
  BY <1>7, SMTT(30) DEF SetPromotedRole, DeleteBackup, taskVars, ghosts
<1>8. CASE Send(s)
  BY <1>8, SMTT(30) DEF Send, ProcMoves, ghosts
<1>9. CASE Execute(s) \/ ReadRole(s) \/ GetBackup(s) \/ Record(s)
  BY <1>9 DEF Execute, ReadRole, GetBackup, Record, ghosts
<1> QED
  BY <1>1, <1>2, <1>3, <1>4, <1>5, <1>6, <1>7, <1>8, <1>9
  DEF Environment, Watcher, Processor

-----------------------------------------------------------------------------
(* Sending and counting.                                                   *)

\* Queues grow at their end, and only what is there is executed; the server that
\* a primary sends to is its own backup, or no primary's any more.
LEMMA ProcessorNext ==
  ASSUME IInv, NEW s \in Servers,
         Environment(s) \/ Expire(s) \/ Watcher(s) \/ Receive(s) \/ Processor(s)
  PROVE  ProcessorConsistent'
<1> USE ReplicationAssumption DEF IInv, TypeOK, ProcessorConsistent
<1>1. CASE RegisterPrimary(s)
  <2>1. /\ UNCHANGED taskVars /\ up[s] = "new"
        /\ up' = [up EXCEPT ![s] = "up"] /\ role' = [role EXCEPT ![s] = "PRIMARY"]
        /\ \A b \in Servers : pair'[b] \in {NoServer, pair[b]}
    BY <1>1 DEF RegisterPrimary, Unpair
  <2>2. ppc[s] = "idle"
    <3>1. log[s] = <<>> /\ Len(log[s]) = 0
      BY <2>1 DEF NewUntouched
    <3>2. ~(done[s] < Len(log[s]))
      BY <3>1
    <3> QED BY <3>2
  <2> QED BY <2>1, <2>2 DEF taskVars
<1>13. CASE RegisterBackup(s)
  <2>1. /\ UNCHANGED taskVars /\ up[s] = "new" /\ znode.primary \in Servers
        /\ up' = [up EXCEPT ![s] = "up"] /\ role' = [role EXCEPT ![s] = "BACKUP"]
        /\ pair' = [pair EXCEPT ![s] = znode.primary]
    BY <1>13 DEF RegisterBackup
  <2>2. ~(up[s] = "up" /\ ppc[s] \in {"get_backup", "connect"}) /\ ppc[s] = "idle"
    <3>1. log[s] = <<>> /\ Len(log[s]) = 0
      BY <2>1 DEF NewUntouched
    <3>2. ~(done[s] < Len(log[s]))
      BY <3>1
    <3> QED BY <3>2
  <2>3. \A r \in Servers : up[r] = "up" /\ ppc[r] = "connect" => target[r] # s
    BY <2>1
  <2> QED BY <2>1, <2>2, <2>3 DEF taskVars
<1>2. CASE Crash(s) \/ ReplicationFails(s)
  <2>1. /\ UNCHANGED taskVars /\ UNCHANGED pair
        /\ up' = [up EXCEPT ![s] = "down"] /\ role' = [role EXCEPT ![s] = "NONE"]
    BY <1>2 DEF Crash, ReplicationFails, Dies
  <2> QED BY <2>1 DEF taskVars
<1>3. CASE Write(s) \/ Receive(s)
  <2>1. PICK op \in Ops : log' = [log EXCEPT ![s] = Append(@, op)]
    <3>1. CASE Write(s)
      <4>1. Len(given) + 1 \in Ops
        BY <3>1, LenProperties DEF Write, Ops
      <4> QED BY <3>1, <4>1 DEF Write, Queue
    <3>2. CASE Receive(s)
      <4>1. PICK i \in DOMAIN flight[s] : log' = [log EXCEPT ![s] = Append(@, flight[s][i].op)]
        BY <3>2 DEF Receive, Queue
      <4>2. flight[s][i] \in Messages
        BY ElementOfSeq, LenProperties
      <4> QED BY <4>1, <4>2 DEF Messages
    <3> QED BY <1>3, <3>1, <3>2
  <2>2. \A t \in Servers : Len(log[t]) <= Len(log'[t])
    <3> TAKE t \in Servers
    <3>1. Len(log[t]) \in Nat /\ Len(Append(log[t], op)) = Len(log[t]) + 1
      BY LenProperties, AppendProperties
    <3> QED BY <2>1, <3>1
  <2>3. UNCHANGED <<up, role, done, ppc, target, pair>>
    BY <1>3 DEF Write, Receive, ghosts
  <2>4. \A t \in Servers : Len(log[t]) \in Nat /\ Len(log'[t]) \in Nat
    <3> TAKE t \in Servers
    <3>1. Append(log[t], op) \in Seq(Ops)
      BY AppendProperties
    <3>2. log'[t] \in Seq(Ops)
      BY <2>1, <3>1
    <3> QED BY <3>2, LenProperties
  <2>5. \A t \in Servers :
          /\ done[t] <= Len(log[t]) => done[t] <= Len(log'[t])
          /\ done[t] < Len(log[t]) => done[t] < Len(log'[t])
    <3> TAKE t \in Servers
    <3>1. done[t] \in Nat /\ Len(log[t]) \in Nat /\ Len(log'[t]) \in Nat
      BY <2>4
    <3>2. Len(log[t]) <= Len(log'[t])
      BY <2>2
    <3> HIDE DEF IInv, TypeOK, ProcessorConsistent
    <3> QED BY <3>1, <3>2
  <2> QED BY <2>3, <2>5
<1>4. CASE Lose(s)
  BY <1>4 DEF Lose, taskVars, ghosts
<1>5. CASE Expire(s)
  BY <1>5 DEF Expire, taskVars, ghosts
<1>6. CASE PromoteBackup(s)
  BY <1>6 DEF PromoteBackup, Unpair, taskVars
<1>7. CASE SetPromotedRole(s)
  BY <1>7 DEF SetPromotedRole, taskVars, ghosts
<1>14. CASE DeleteBackup(s)
  BY <1>14 DEF DeleteBackup, taskVars, ghosts
<1>8. CASE Execute(s)
  BY <1>8 DEF Execute, ProcMoves, ghosts
<1>9. CASE ReadRole(s)
  BY <1>9 DEF ReadRole, ProcMoves, RolesConsistent, ghosts
<1>10. CASE GetBackup(s)
  <2>1. role[s] = "PRIMARY" /\ znode.primary = s
    BY <1>10 DEF GetBackup, ProcMoves, RolesConsistent
  <2>2. znode.backup \in Servers /\ up[znode.backup] # "new"
    BY <1>10 DEF GetBackup, NewUntouched
  <2>3. pair[znode.backup] \in {NoServer, s}
    BY <2>1, <2>2 DEF PairsConsistent
  <2> QED
    BY <1>10, <2>1, <2>2, <2>3 DEF GetBackup, ProcMoves, ghosts
<1>11. CASE Send(s)
  BY <1>11, SMTT(30) DEF Send, ProcMoves, ghosts
<1>12. CASE Record(s)
  <2>1. done[s] < Len(log[s]) /\ done[s] \in Nat /\ Len(log[s]) \in Nat
    BY <1>12, LenProperties DEF Record, ProcMoves
  <2> QED
    BY <1>12, <2>1, SMTT(30) DEF Record, ProcMoves, ghosts
<1> QED
  BY <1>1, <1>2, <1>3, <1>4, <1>5, <1>6, <1>7, <1>8, <1>9, <1>10, <1>11, <1>12, <1>13, <1>14
  DEF Environment, Watcher, Processor

\* What a backup has been sent grows only with what its primary has done, or not
\* at all.
LEMMA CountNext ==
  ASSUME IInv, TypeOK', NEW s \in Servers,
         Environment(s) \/ Expire(s) \/ Watcher(s) \/ Receive(s) \/ Processor(s)
  PROVE  CountBounded'
<1> USE ReplicationAssumption
<1>0. \A b \in Servers : /\ Len(log[b]) \in Nat /\ Len(log'[b]) \in Nat
                         /\ Len(flight[b]) \in Nat /\ Len(flight'[b]) \in Nat
                         /\ Replicated(b) \in Nat /\ Replicated(b)' \in Nat
                         /\ GotCount(b) \in Nat /\ GotCount(b)' \in Nat
                         /\ GotCount(b) = Len(log[b]) + Len(flight[b])
                         /\ GotCount(b)' = Len(log'[b]) + Len(flight'[b])
  <2> TAKE b \in Servers
  <2>1. /\ log[b] \in Seq(Ops) /\ log'[b] \in Seq(Ops)
        /\ flight[b] \in Seq(Messages) /\ flight'[b] \in Seq(Messages)
        /\ done[b] \in Nat /\ done'[b] \in Nat
    BY DEF IInv, TypeOK
  <2>2. /\ Len(log[b]) \in Nat /\ Len(log'[b]) \in Nat
        /\ Len(flight[b]) \in Nat /\ Len(flight'[b]) \in Nat
    BY <2>1, LenProperties
  <2>3. Replicated(b) \in Nat /\ Replicated(b)' \in Nat
    BY <2>1 DEF Replicated
  <2>4. GotCount(b) = Len(log[b]) + Len(flight[b])
    BY DEF GotCount
  <2>5. GotCount(b)' = Len(log'[b]) + Len(flight'[b])
    BY DEF GotCount
  <2>6. \A x, y \in Nat : x + y \in Nat
    OBVIOUS
  <2>7. GotCount(b) \in Nat /\ GotCount(b)' \in Nat
    BY <2>2, <2>4, <2>5, <2>6
  <2> QED BY <2>2, <2>3, <2>4, <2>5, <2>7
\* What leaves no server with more has left the two parts of it no larger.
<1>a. ASSUME NEW b \in Servers,
             Len(log'[b]) <= Len(log[b]), Len(flight'[b]) <= Len(flight[b])
      PROVE  GotCount(b)' <= GotCount(b)
  <2>1. \A x, y, z, w \in Nat : z <= x /\ w <= y => z + w <= x + y
    OBVIOUS
  <2>2. Len(log'[b]) + Len(flight'[b]) <= Len(log[b]) + Len(flight[b])
    BY <1>0, <1>a, <2>1
  <2> QED BY <1>0, <2>2
<1>b. ASSUME NEW t \in Servers, done'[t] = done[t], ppc'[t] = ppc[t]
      PROVE  Replicated(t) <= Replicated(t)'
  <2>1. Replicated(t) = Replicated(t)'
    BY <1>b DEF Replicated
  <2>2. \A n \in Nat : n <= n
    OBVIOUS
  <2> QED BY <1>0, <2>1, <2>2
\* The steps that send nothing to a paired backup and undo nothing.
<1>1. ASSUME \A b \in Servers : pair'[b] # NoServer =>
               pair'[b] = pair[b] /\ GotCount(b)' <= GotCount(b),
             \A t \in Servers : Replicated(t) <= Replicated(t)'
      PROVE  CountBounded'
  <2> SUFFICES ASSUME NEW b \in Servers, pair'[b] # NoServer
               PROVE  GotCount(b)' <= Replicated(pair[b])' /\ pair'[b] = pair[b]
    BY DEF CountBounded
  <2>1. pair'[b] = pair[b] /\ pair[b] \in Servers
    BY <1>1 DEF IInv, TypeOK
  <2>2. GotCount(b) <= Replicated(pair[b]) /\ Replicated(pair[b]) <= Replicated(pair[b])'
    BY <1>1, <2>1 DEF IInv, CountBounded
  <2>3. GotCount(b)' <= GotCount(b)
    BY <1>1
  <2>4. GotCount(b) \in Nat /\ GotCount(b)' \in Nat
    BY <1>0
  <2>5. Replicated(pair[b]) \in Nat /\ Replicated(pair[b])' \in Nat
    BY <1>0, <2>1
  <2>6. GotCount(b)' <= Replicated(pair[b])'
    BY <2>2, <2>3, <2>4, <2>5
  <2> QED BY <2>1, <2>6
<1>2. CASE RegisterPrimary(s) \/ PromoteBackup(s)
  <2>1. UNCHANGED <<log, flight, done, ppc>>
    BY <1>2 DEF RegisterPrimary, PromoteBackup, taskVars
  <2>2. \A b \in Servers : pair'[b] # NoServer => pair'[b] = pair[b]
    BY <1>2 DEF RegisterPrimary, PromoteBackup, Unpair
  <2>3. \A b \in Servers : GotCount(b)' <= GotCount(b)
    BY <1>0, <1>a, <2>1
  <2>4. \A t \in Servers : Replicated(t) <= Replicated(t)'
    BY <1>b, <2>1
  <2> QED BY <1>1, <2>2, <2>3, <2>4
<1>3. CASE RegisterBackup(s)
  <2>1. /\ UNCHANGED <<log, flight, done, ppc>>
        /\ pair' = [pair EXCEPT ![s] = znode.primary]
        /\ up[s] = "new"
    BY <1>3 DEF RegisterBackup, taskVars
  <2>2. Len(log[s]) = 0 /\ Len(flight[s]) = 0
    BY <2>1 DEF IInv, NewUntouched
  <2>3. \A b \in Servers : GotCount(b)' = GotCount(b) /\ Replicated(b)' = Replicated(b)
    BY <2>1 DEF Replicated, GotCount
  <2>4. GotCount(s) = 0
    BY <2>2 DEF GotCount
  <2>5. \A b \in Servers \ {s} : pair'[b] = pair[b]
    BY <2>1 DEF IInv, TypeOK
  <2>6. pair'[s] = znode.primary /\ znode.primary \in Servers
    BY <1>3, <2>1 DEF RegisterBackup, IInv, TypeOK
  <2>7. \A b \in Servers : pair'[b] # NoServer => GotCount(b)' <= Replicated(pair'[b])
    <3> TAKE b \in Servers
    <3> HAVE pair'[b] # NoServer
    <3>1. CASE b = s
      <4>1. GotCount(b)' = 0 /\ pair'[b] \in Servers
        BY <2>3, <2>4, <2>6, <3>1
      <4>2. Replicated(pair'[b]) \in Nat
        BY <1>0, <4>1
      <4>3. \A n \in Nat : 0 <= n
        OBVIOUS
      <4> QED BY <4>1, <4>2, <4>3
    <3>2. CASE b # s
      BY <2>3, <2>5, <3>2 DEF IInv, CountBounded
    <3> QED BY <3>1, <3>2
  <2>8. \A b \in Servers : pair'[b] # NoServer => Replicated(pair[b])' = Replicated(pair'[b])
    BY <2>1 DEF Replicated
  <2> QED BY <2>1, <2>7 DEF CountBounded, Replicated
<1>4. CASE Crash(s) \/ ReplicationFails(s)
  <2>1. UNCHANGED taskVars /\ UNCHANGED pair /\ flight' = [flight EXCEPT ![s] = <<>>]
    BY <1>4 DEF Crash, ReplicationFails, Dies
  <2>2. \A b \in Servers : Len(flight'[b]) <= Len(flight[b])
    <3> TAKE b \in Servers
    <3>1. CASE b = s
      BY <1>0, <2>1, <3>1 DEF IInv, TypeOK
    <3>2. CASE b # s
      BY <1>0, <2>1, <3>2 DEF IInv, TypeOK
    <3> QED BY <3>1, <3>2
  <2>3. \A b \in Servers : GotCount(b)' <= GotCount(b) /\ Replicated(b) <= Replicated(b)'
    <3> TAKE b \in Servers
    <3>1. /\ Len(log'[b]) <= Len(log[b]) /\ Len(flight'[b]) <= Len(flight[b])
          /\ done'[b] = done[b] /\ ppc'[b] = ppc[b]
      BY <1>0, <2>1, <2>2 DEF taskVars
    <3> QED BY <1>a, <1>b, <3>1
  <2> QED BY <1>1, <2>1, <2>3
<1>5. CASE Lose(s)
  <2>1. PICK i \in DOMAIN flight[s] : flight' = [flight EXCEPT ![s] = RemoveAt(@, i)]
    BY <1>5 DEF Lose
  <2>2. Len(RemoveAt(flight[s], i)) = Len(flight[s]) - 1
    BY RemoveAtProperties DEF IInv, TypeOK
  <2>3. \A b \in Servers : Len(flight'[b]) <= Len(flight[b])
    BY <1>0, <2>1, <2>2 DEF IInv, TypeOK
  <2>4. UNCHANGED <<pair, log, done, ppc>>
    BY <1>5 DEF Lose, taskVars, ghosts
  <2>5. \A b \in Servers : GotCount(b)' <= GotCount(b) /\ Replicated(b) <= Replicated(b)'
    <3> TAKE b \in Servers
    <3>1. /\ Len(log'[b]) <= Len(log[b]) /\ Len(flight'[b]) <= Len(flight[b])
          /\ done'[b] = done[b] /\ ppc'[b] = ppc[b]
      BY <1>0, <2>3, <2>4
    <3> QED BY <1>a, <1>b, <3>1
  <2> QED BY <1>1, <2>4, <2>5
<1>6. CASE Receive(s)
  <2>1. PICK i \in DOMAIN flight[s] :
          /\ log' = [log EXCEPT ![s] = Append(@, flight[s][i].op)]
          /\ flight' = [flight EXCEPT ![s] = RemoveAt(@, i)]
    BY <1>6 DEF Receive, Queue
  <2>2. Len(RemoveAt(flight[s], i)) = Len(flight[s]) - 1
    BY RemoveAtProperties DEF IInv, TypeOK
  <2>3. Len(Append(log[s], flight[s][i].op)) = Len(log[s]) + 1
    BY AppendProperties DEF IInv, TypeOK
  <2>4. \A b \in Servers \ {s} : log'[b] = log[b] /\ flight'[b] = flight[b]
    BY <2>1 DEF IInv, TypeOK
  <2>5. Len(log'[s]) = Len(log[s]) + 1 /\ Len(flight'[s]) = Len(flight[s]) - 1
    BY <2>1, <2>2, <2>3 DEF IInv, TypeOK
  <2>6. \A b \in Servers : GotCount(b)' <= GotCount(b)
    <3> TAKE b \in Servers
    <3>1. CASE b = s
      <4>1. \A x, y \in Nat : (x + 1) + (y - 1) <= x + y
        OBVIOUS
      <4>2. Len(log'[b]) + Len(flight'[b]) <= Len(log[b]) + Len(flight[b])
        BY <1>0, <2>5, <3>1, <4>1
      <4> QED BY <1>0, <4>2
    <3>2. CASE b # s
      <4>1. Len(log'[b]) <= Len(log[b]) /\ Len(flight'[b]) <= Len(flight[b])
        BY <1>0, <2>4, <3>2
      <4> QED BY <1>a, <4>1
    <3> QED BY <3>1, <3>2
  <2>7. UNCHANGED <<pair, done, ppc>>
    BY <1>6 DEF Receive, ghosts
  <2>8. \A b \in Servers : Replicated(b) <= Replicated(b)'
    BY <1>b, <2>7
  <2> QED BY <1>1, <2>6, <2>7, <2>8
<1>7. CASE Write(s)
  <2>1. /\ \A b \in Servers \ {s} : log'[b] = log[b]
        /\ UNCHANGED <<flight, pair, done, ppc>>
        /\ pair[s] = NoServer
    BY <1>7 DEF Write, Queue, IInv, TypeOK, PairsConsistent, ghosts
  <2>2. ASSUME NEW b \in Servers, pair'[b] # NoServer
        PROVE  pair'[b] = pair[b] /\ GotCount(b)' <= GotCount(b)
    <3>1. Len(log'[b]) <= Len(log[b]) /\ Len(flight'[b]) <= Len(flight[b])
      BY <1>0, <2>1, <2>2
    <3> QED BY <1>a, <2>1, <3>1
  <2>3. \A t \in Servers : Replicated(t) <= Replicated(t)'
    BY <1>b, <2>1
  <2> QED
    BY <1>1, <2>2, <2>3
<1>8. CASE Expire(s) \/ SetPromotedRole(s) \/ DeleteBackup(s)
  <2>1. UNCHANGED <<taskVars, flight, pair>>
    BY <1>8 DEF Expire, SetPromotedRole, DeleteBackup, ghosts
  <2>2. \A b \in Servers : GotCount(b)' <= GotCount(b) /\ Replicated(b) <= Replicated(b)'
    <3> TAKE b \in Servers
    <3>1. /\ Len(log'[b]) <= Len(log[b]) /\ Len(flight'[b]) <= Len(flight[b])
          /\ done'[b] = done[b] /\ ppc'[b] = ppc[b]
      BY <1>0, <2>1 DEF taskVars
    <3> QED BY <1>a, <1>b, <3>1
  <2> QED BY <1>1, <2>1, <2>2
<1>9. CASE Execute(s) \/ ReadRole(s) \/ GetBackup(s)
  <2>1. UNCHANGED <<log, flight, pair, done>>
    BY <1>9 DEF Execute, ReadRole, GetBackup, ghosts
  <2>2. ppc[s] # "record" /\ \A t \in Servers \ {s} : ppc'[t] = ppc[t]
    BY <1>9, SMTT(30) DEF Execute, ReadRole, GetBackup, ProcMoves, IInv, TypeOK
  <2>3. \A t \in Servers : Replicated(t) <= Replicated(t)'
    <3> TAKE t \in Servers
    <3>1. done[t] \in Nat /\ done'[t] = done[t]
      BY <2>1 DEF IInv, TypeOK
    <3>2. ppc[t] = "record" => ppc'[t] = "record"
      BY <2>2
    <3> QED BY <3>1, <3>2 DEF Replicated
  <2>4. \A b \in Servers : GotCount(b)' <= GotCount(b)
    BY <1>0, <1>a, <2>1
  <2> QED
    BY <1>1, <2>1, <2>3, <2>4
<1>10. CASE Record(s)
  <2>1. /\ UNCHANGED <<log, flight, pair>>
        /\ ppc[s] = "record" /\ ppc' = [ppc EXCEPT ![s] = "idle"]
        /\ done' = [done EXCEPT ![s] = @ + 1]
    BY <1>10 DEF Record, ProcMoves, ghosts
  <2>2. \A t \in Servers : Replicated(t) = Replicated(t)'
    BY <2>1 DEF Replicated, IInv, TypeOK
  <2>3. \A b \in Servers : GotCount(b)' <= GotCount(b)
    BY <1>0, <1>a, <2>1
  <2>4. \A b \in Servers : Replicated(b) <= Replicated(b)'
    <3>1. \A n \in Nat : n <= n
      OBVIOUS
    <3> QED BY <1>0, <2>2, <3>1
  <2> QED BY <1>1, <2>1, <2>3, <2>4
<1>11. CASE Send(s)
  <2> DEFINE t == target[s]
             m == [from |-> s, op |-> log[s][done[s] + 1]]
  <2>1. /\ UNCHANGED <<log, done, pair>>
        /\ up[s] = "up" /\ ppc[s] = "connect" /\ ppc' = [ppc EXCEPT ![s] = "record"]
        /\ flight' = [flight EXCEPT ![t] = Append(@, m)]
    BY <1>11 DEF Send, ProcMoves, ghosts
  <2>2. t \in Servers /\ pair[t] \in {NoServer, s}
    BY <2>1 DEF IInv, ProcessorConsistent
  <2>3. Len(flight'[t]) = Len(flight[t]) + 1
    <3>1. flight'[t] \in Seq(Messages) /\ flight'[t] = Append(flight[t], m)
      BY <2>1, <2>2 DEF TypeOK, IInv
    <3>2. Len(Append(flight[t], m)) = Len(flight[t]) + 1
      BY <2>2 DEF TypeOK, IInv
    <3> QED BY <3>1, <3>2
  <2>4. \A b \in Servers \ {t} : flight'[b] = flight[b]
    BY <2>1 DEF IInv, TypeOK
  <2>5. Replicated(s) = done[s] /\ Replicated(s)' = done[s] + 1
    BY <2>1 DEF Replicated, IInv, TypeOK
  <2>6. \A b \in Servers \ {s} : Replicated(b)' = Replicated(b)
    BY <2>1 DEF Replicated, IInv, TypeOK
  <2>7. ASSUME NEW b \in Servers, pair[b] # NoServer
        PROVE  GotCount(b)' <= Replicated(pair[b])'
    <3>1. Len(log[b]) + Len(flight[b]) <= Replicated(pair[b]) /\ pair[b] \in Servers
      BY <2>7 DEF IInv, CountBounded, GotCount, TypeOK
    <3>4. /\ Len(log[b]) \in Nat /\ Len(flight[b]) \in Nat /\ Len(log'[b]) = Len(log[b])
          /\ Replicated(pair[b]) \in Nat /\ done[s] \in Nat
      BY <1>0, <2>1, <3>1 DEF IInv, TypeOK
    <3>5. pair'[b] = pair[b] /\ Replicated(pair[b])' = Replicated(pair[b]) + (IF pair[b] = s THEN 1 ELSE 0)
      BY <2>1, <2>5, <2>6, <3>1, <3>4
    <3>2. CASE b = t
      <4>1. pair[b] = s /\ Len(flight'[b]) = Len(flight[b]) + 1
        BY <2>2, <2>3, <2>7, <3>2
      <4>2. \A l, f, r \in Nat : l + f <= r => l + (f + 1) <= r + 1
        OBVIOUS
      <4>3. Replicated(pair[b])' = Replicated(pair[b]) + 1
        BY <3>5, <4>1
      <4>4. Len(log'[b]) + Len(flight'[b]) <= Replicated(pair[b])'
        BY <3>1, <3>4, <4>1, <4>2, <4>3
      <4> QED BY <1>0, <4>4
    <3>3. CASE b # t
      <4>1. flight'[b] = flight[b]
        BY <2>4, <3>3
      <4>2. \A l, f, r \in Nat : l + f <= r => l + f <= r + 0 /\ l + f <= r + 1
        OBVIOUS
      <4>3. Len(log'[b]) + Len(flight'[b]) <= Replicated(pair[b])'
        BY <3>1, <3>4, <3>5, <4>1, <4>2
      <4> QED BY <1>0, <4>3
    <3> QED BY <3>2, <3>3
  <2> QED
    BY <2>1, <2>7 DEF CountBounded
<1> QED
  BY <1>2, <1>3, <1>4, <1>5, <1>6, <1>7, <1>8, <1>9, <1>10, <1>11
  DEF Environment, Watcher, Processor

-----------------------------------------------------------------------------
(* The theorems.                                                           *)

\* At the start no server runs and there is no znode.
LEMMA InvariantInit == Init => IInv
<1> SUFFICES ASSUME Init PROVE IInv
  OBVIOUS
<1>1. TypeOK
  BY EmptySeq DEF Init, TypeOK
<1>2. RolesConsistent /\ NewUntouched
  BY ReplicationAssumption DEF Init, RolesConsistent, NewUntouched
<1>3. PairsConsistent /\ CountBounded
  BY DEF Init, PairsConsistent, CountBounded
<1>4. ProcessorConsistent
  BY EmptySeq DEF Init, ProcessorConsistent
<1> QED
  BY <1>1, <1>2, <1>3, <1>4 DEF IInv

\* Every step of the servers, of their processors and of the clients keeps the invariant.
LEMMA InvariantNext == IInv /\ [Next]_vars => IInv'
<1> SUFFICES ASSUME IInv, [Next]_vars PROVE IInv'
  OBVIOUS
<1>1. CASE Next
  <2>1. PICK s \in Servers :
          Environment(s) \/ Expire(s) \/ Watcher(s) \/ Receive(s) \/ Processor(s)
    BY <1>1 DEF Next
  <2>2. TypeOK'
    BY <2>1, TypesNext
  <2> QED
    BY <2>1, <2>2, RolesNext, NewNext, PairsNext, ProcessorNext, CountNext DEF IInv
<1>2. CASE UNCHANGED vars
  BY <1>2 DEF vars, taskVars, ghosts, IInv, TypeOK, RolesConsistent, NewUntouched,
              PairsConsistent, ProcessorConsistent, CountBounded, GotCount, Replicated
<1> QED
  BY <1>1, <1>2

\* The inductive invariant of the servers and of what they have sent each other.
THEOREM InvariantHolds == Spec => []IInv
BY InvariantInit, InvariantNext, PTL DEF Spec

\* A paired backup has no more results than its primary has executed operations.
LEMMA InvariantTruthful == IInv => VerifyTruthfulInPair
<1> SUFFICES ASSUME IInv, NEW op \in DOMAIN given,
                    znode.backup # NoServer, pair[znode.backup] = given[op].by,
                    Verified(op)
             PROVE  Executed(op)
  BY DEF VerifyTruthfulInPair
<1> DEFINE b == znode.backup
           p == given[op].by
<1>1. given[op] \in [by: Servers, id: Nat]
  <2>2. given \in Seq([by: Servers, id: Nat])
    BY DEF IInv, TypeOK
  <2>1. given \in Seq([by: Servers, id: Nat]) /\ op \in 1 .. Len(given)
    BY <2>2, LenProperties
  <2> QED BY <2>1, ElementOfSeq
<1>2. b \in Servers /\ p \in Servers /\ pair[b] = p /\ pair[b] # NoServer
  BY <1>1, ReplicationAssumption DEF IInv, TypeOK
<1>3. /\ done[b] \in Nat /\ Len(log[b]) \in Nat /\ Len(flight[b]) \in Nat
      /\ Replicated(p) \in Nat /\ Applied(p) \in Nat
  <2>1. /\ done[b] \in Nat /\ done[p] \in Nat
        /\ log[b] \in Seq(Ops) /\ flight[b] \in Seq(Messages)
    BY <1>2 DEF IInv, TypeOK
  <2> QED BY <2>1, LenProperties DEF Applied, Replicated
<1>4. done[b] <= Len(log[b])
  BY <1>2 DEF IInv, ProcessorConsistent
<1>5. Len(log[b]) + Len(flight[b]) <= Replicated(p)
  BY <1>2 DEF IInv, CountBounded, GotCount
<1>6. Replicated(p) <= Applied(p)
  <2>1. done[p] \in Nat
    BY <1>2 DEF IInv, TypeOK
  <2> QED BY <2>1 DEF Replicated, Applied
<1>7. done[b] > given[op].id
  BY DEF Verified
<1>8. given[op].id \in Nat
  BY <1>1
<1>9. \A d, l, f, r, a, i \in Nat : d > i /\ d <= l /\ l + f <= r /\ r <= a => a > i
  OBVIOUS
<1>10. Applied(p) > given[op].id
  BY <1>3, <1>4, <1>5, <1>6, <1>7, <1>8, <1>9
<1> QED
  BY <1>10 DEF Executed

\* As long as a backup is paired with the primary that gave an identifier, verify
\* does not answer 1 for an operation that has not been executed.
THEOREM VerifySound == Spec => []VerifyTruthfulInPair
BY InvariantHolds, InvariantTruthful, PTL

-----------------------------------------------------------------------------
(* Sequences.                                                              *)

\* What a part of a sequence consists of.
LEMMA PartOfSeq ==
  ASSUME NEW S, NEW q \in Seq(S), NEW m \in Nat, NEW n \in Nat,
         1 <= m, m <= n + 1, n <= Len(q)
  PROVE  /\ SubSeq(q, m, n) \in Seq(S) /\ Len(SubSeq(q, m, n)) = n + 1 - m
         /\ \A i \in 1 .. n + 1 - m : SubSeq(q, m, n)[i] = q[m + i - 1]
<1>1. m \in Int /\ n \in Int /\ Len(q) \in Nat
  BY LenProperties
<1>2. \A i \in m .. n : q[i] \in S
  BY <1>1, ElementOfSeq
<1>3. /\ SubSeq(q, m, n) \in Seq(S)
      /\ Len(SubSeq(q, m, n)) = IF m <= n THEN n - m + 1 ELSE 0
      /\ \A i \in 1 .. n - m + 1 : SubSeq(q, m, n)[i] = q[m + i - 1]
  BY <1>1, <1>2, SubSeqProperties
<1>4. n - m + 1 = n + 1 - m /\ (~(m <= n) => n + 1 - m = 0)
  BY <1>1
<1> QED BY <1>3, <1>4

\* Where the elements of a sequence are after one was taken out.
LEMMA RemoveAtElements ==
  ASSUME NEW S, NEW q \in Seq(S), NEW i \in 1 .. Len(q)
  PROVE  \A j \in 1 .. Len(q) - 1 : RemoveAt(q, i)[j] = IF j < i THEN q[j] ELSE q[j + 1]
<1>1. Len(q) \in Nat /\ i \in Nat /\ i - 1 \in Nat /\ Len(q) - i \in Nat /\ i >= 1
  BY LenProperties
<1> DEFINE before == SubSeq(q, 1, i - 1)
           after  == SubSeq(q, i + 1, Len(q))
<1>2. /\ before \in Seq(S) /\ Len(before) = i - 1
      /\ \A j \in 1 .. i - 1 : before[j] = q[j]
  <2>1. 1 \in Nat /\ 1 <= i - 1 + 1 /\ i - 1 <= Len(q) /\ i - 1 + 1 - 1 = i - 1
    BY <1>1
  <2>2. /\ before \in Seq(S) /\ Len(before) = i - 1 + 1 - 1
        /\ \A j \in 1 .. i - 1 + 1 - 1 : before[j] = q[1 + j - 1]
    BY <1>1, <2>1, PartOfSeq
  <2>3. \A j \in 1 .. i - 1 : 1 + j - 1 = j
    BY <1>1
  <2> QED BY <2>1, <2>2, <2>3
<1>3. /\ after \in Seq(S) /\ Len(after) = Len(q) - i
      /\ \A j \in 1 .. Len(q) - i : after[j] = q[i + j]
  <2>1. /\ i + 1 \in Nat /\ 1 <= i + 1 /\ i + 1 <= Len(q) + 1 /\ Len(q) <= Len(q)
        /\ Len(q) + 1 - (i + 1) = Len(q) - i
    BY <1>1
  <2>2. /\ after \in Seq(S) /\ Len(after) = Len(q) + 1 - (i + 1)
        /\ \A j \in 1 .. Len(q) + 1 - (i + 1) : after[j] = q[i + 1 + j - 1]
    BY <1>1, <2>1, PartOfSeq
  <2>3. \A j \in 1 .. Len(q) - i : i + 1 + j - 1 = i + j
    BY <1>1
  <2> QED BY <2>1, <2>2, <2>3
<1>4. RemoveAt(q, i) = before \o after
  BY DEF RemoveAt
<1> HIDE DEF before, after
<1>5. \A j \in 1 .. Len(before) + Len(after) :
        (before \o after)[j] = IF j <= Len(before) THEN before[j] ELSE after[j - Len(before)]
  BY <1>2, <1>3, ConcatProperties
<1> SUFFICES ASSUME NEW j \in 1 .. Len(q) - 1
             PROVE  (before \o after)[j] = IF j < i THEN q[j] ELSE q[j + 1]
  BY <1>4
<1>6. (before \o after)[j] = IF j <= i - 1 THEN before[j] ELSE after[j - (i - 1)]
  BY <1>1, <1>2, <1>3, <1>5
<1>7. CASE j < i
  BY <1>1, <1>2, <1>6, <1>7
<1>8. CASE ~(j < i)
  <2>1. j - (i - 1) \in 1 .. Len(q) - i /\ i + (j - (i - 1)) = j + 1 /\ ~(j <= i - 1)
    BY <1>1, <1>8
  <2> QED BY <1>3, <1>6, <1>8, <2>1
<1> QED BY <1>7, <1>8

\* What is appended to the second of two sequences is appended to both.
LEMMA AppendToLast ==
  ASSUME NEW S, NEW q \in Seq(S), NEW o \in Seq(S), NEW x \in S
  PROVE  q \o Append(o, x) = Append(q \o o, x)
<1>1. <<x>> \in Seq(S) /\ q \o o \in Seq(S)
  BY ConcatProperties
<1>2. Append(o, x) = o \o <<x>> /\ Append(q \o o, x) = (q \o o) \o <<x>>
  BY <1>1, AppendIsConcat
<1>3. (q \o o) \o <<x>> = q \o (o \o <<x>>)
  BY <1>1, ConcatAssociative
<1> QED BY <1>2, <1>3

\* The part of a sequence that was there before it grew.
LEMMA SubSeqOfAppend ==
  ASSUME NEW S, NEW q \in Seq(S), NEW x \in S,
         NEW j \in Nat, NEW r \in Nat, r <= Len(q)
  PROVE  SubSeq(Append(q, x), j + 1, r) = SubSeq(q, j + 1, r)
<1> DEFINE a == Append(q, x)
           s == SubSeq(a, j + 1, r)
           t == SubSeq(q, j + 1, r)
<1>0. CASE ~(j <= r)
  <2>1. j + 1 \in Int /\ r \in Int /\ r < j + 1
    BY <1>0
  <2> QED BY <2>1, SubSeqEmpty
<1> SUFFICES ASSUME j <= r PROVE s = t
  BY <1>0
<1>1. Len(q) \in Nat /\ j + 1 \in Nat /\ 1 <= j + 1 /\ j + 1 <= r + 1 /\ r + 1 - (j + 1) = r - j
  BY LenProperties
<1>2. a \in Seq(S) /\ Len(a) = Len(q) + 1 /\ \A i \in 1 .. Len(q) : a[i] = q[i]
  BY AppendProperties
<1> HIDE DEF a
<1>3. r <= Len(a)
  BY <1>1, <1>2
<1>4. /\ s \in Seq(S) /\ Len(s) = r + 1 - (j + 1)
      /\ \A i \in 1 .. r + 1 - (j + 1) : s[i] = a[j + 1 + i - 1]
  BY <1>1, <1>2, <1>3, PartOfSeq
<1>5. /\ t \in Seq(S) /\ Len(t) = r + 1 - (j + 1)
      /\ \A i \in 1 .. r + 1 - (j + 1) : t[i] = q[j + 1 + i - 1]
  BY <1>1, PartOfSeq
<1> HIDE DEF s, t
<1>6. ASSUME NEW i \in 1 .. Len(s) PROVE s[i] = t[i]
  <2>1. j + 1 + i - 1 \in 1 .. Len(q)
    BY <1>1, <1>4
  <2> QED BY <1>2, <1>4, <1>5, <2>1
<1>7. s = t
  BY <1>4, <1>5, <1>6, SeqEqual
<1> QED BY <1>7 DEF s, t, a

\* The part of a sequence up to the next element.
LEMMA SubSeqExtended ==
  ASSUME NEW S, NEW q \in Seq(S), NEW j \in Nat, NEW r \in Nat, j <= r, r < Len(q)
  PROVE  SubSeq(q, j + 1, r + 1) = Append(SubSeq(q, j + 1, r), q[r + 1])
<1> DEFINE s == SubSeq(q, j + 1, r + 1)
           t == SubSeq(q, j + 1, r)
<1>1. /\ Len(q) \in Nat /\ j + 1 \in Nat /\ r + 1 \in Nat /\ 1 <= j + 1 /\ j + 1 <= r + 1
      /\ j + 1 <= r + 1 + 1 /\ r + 1 <= Len(q) /\ r <= Len(q) /\ r + 1 \in 1 .. Len(q)
  BY LenProperties
<1>2. /\ s \in Seq(S) /\ Len(s) = r + 1 + 1 - (j + 1)
      /\ \A i \in 1 .. r + 1 + 1 - (j + 1) : s[i] = q[j + 1 + i - 1]
  BY <1>1, PartOfSeq
<1>3. /\ t \in Seq(S) /\ Len(t) = r + 1 - (j + 1)
      /\ \A i \in 1 .. r + 1 - (j + 1) : t[i] = q[j + 1 + i - 1]
  BY <1>1, PartOfSeq
<1> HIDE DEF s, t
<1>4. Len(s) = Len(t) + 1 /\ q[r + 1] \in S /\ Len(t) = r - j
  BY <1>1, <1>2, <1>3, ElementOfSeq
<1>5. /\ Append(t, q[r + 1]) \in Seq(S) /\ Len(Append(t, q[r + 1])) = Len(t) + 1
      /\ \A i \in 1 .. Len(t) : Append(t, q[r + 1])[i] = t[i]
      /\ Append(t, q[r + 1])[Len(t) + 1] = q[r + 1]
  BY <1>3, <1>4, AppendProperties
<1>6. ASSUME NEW i \in 1 .. Len(s) PROVE s[i] = Append(t, q[r + 1])[i]
  <2>1. s[i] = q[j + 1 + i - 1]
    BY <1>2
  <2>2. CASE i \in 1 .. Len(t)
    BY <1>3, <1>5, <2>1, <2>2
  <2>3. CASE i = Len(t) + 1
    <3>1. j + 1 + i - 1 = r + 1
      BY <1>1, <1>4, <2>3
    <3> QED BY <1>5, <2>1, <2>3, <3>1
  <2>4. Len(t) \in Nat /\ i \in 1 .. Len(t) + 1
    BY <1>1, <1>3, <1>4
  <2> QED BY <2>2, <2>3, <2>4
<1>7. s = Append(t, q[r + 1])
  BY <1>2, <1>4, <1>5, <1>6, SeqEqual
<1> QED BY <1>7 DEF s, t

\* Where the elements of two sequences are, one after the other, once an element
\* of the second has moved to the end of the first.
IsMoved(S, q, o, i) ==
  LET g == q \o o
      h == Append(q, o[i]) \o RemoveAt(o, i)
      n == Len(q)
  IN /\ g \in Seq(S) /\ Len(g) = Len(q) + Len(o)
     /\ h \in Seq(S) /\ Len(h) = Len(q) + Len(o)
     /\ \A j \in 1 .. Len(q) + Len(o) :
          h[j] = g[IF j <= n THEN j ELSE IF j = n + 1 THEN n + i
                   ELSE IF j <= n + i THEN j - 1 ELSE j]

\* The elements are there, whichever element moves.
LEMMA Moved ==
  ASSUME NEW S, NEW q \in Seq(S), NEW o \in Seq(S), NEW i \in 1 .. Len(o)
  PROVE  IsMoved(S, q, o, i)
<1> DEFINE a == Append(q, o[i])
           p == RemoveAt(o, i)
           g == q \o o
           h == a \o p
           n == Len(q)
<1>1. Len(q) \in Nat /\ Len(o) \in Nat /\ i \in Nat /\ i >= 1 /\ i <= Len(o) /\ o[i] \in S
  BY LenProperties, ElementOfSeq
<1>2. /\ a \in Seq(S) /\ Len(a) = Len(q) + 1
      /\ \A j \in 1 .. Len(q) : a[j] = q[j]
      /\ a[Len(q) + 1] = o[i]
  BY <1>1, AppendProperties
<1>3. p \in Seq(S) /\ Len(p) = Len(o) - 1
  BY RemoveAtProperties, LenProperties
<1>4. \A j \in 1 .. Len(o) - 1 : p[j] = IF j < i THEN o[j] ELSE o[j + 1]
  BY RemoveAtElements
<1> HIDE DEF a, p
<1>5. /\ g \in Seq(S) /\ Len(g) = Len(q) + Len(o)
      /\ \A j \in 1 .. Len(q) + Len(o) : g[j] = IF j <= Len(q) THEN q[j] ELSE o[j - Len(q)]
  BY ConcatProperties
<1>6. /\ h \in Seq(S) /\ Len(h) = (Len(q) + 1) + (Len(o) - 1)
      /\ \A j \in 1 .. (Len(q) + 1) + (Len(o) - 1) :
           h[j] = IF j <= Len(q) + 1 THEN a[j] ELSE p[j - (Len(q) + 1)]
  <2>1. /\ h \in Seq(S) /\ Len(h) = Len(a) + Len(p)
        /\ \A j \in 1 .. Len(a) + Len(p) : h[j] = IF j <= Len(a) THEN a[j] ELSE p[j - Len(a)]
    BY <1>2, <1>3, ConcatProperties, Zenon
  <2> QED BY <1>2, <1>3, <2>1, Zenon
<1>7. (Len(q) + 1) + (Len(o) - 1) = Len(q) + Len(o)
  BY <1>1
<1> HIDE DEF g, h
<1>8. ASSUME NEW j \in 1 .. Len(q) + Len(o)
       PROVE  h[j] = g[IF j <= n THEN j ELSE IF j = n + 1 THEN n + i
                       ELSE IF j <= n + i THEN j - 1 ELSE j]
  <2>1. CASE j <= n
    <3>1. j \in 1 .. Len(q) /\ j <= Len(q) + 1
      BY <1>1, <2>1
    <3> QED BY <1>2, <1>5, <1>6, <1>7, <2>1, <3>1
  <2>2. CASE j = n + 1
    <3>1. /\ j <= Len(q) + 1 /\ ~(j <= n) /\ n + i \in 1 .. Len(q) + Len(o) /\ ~(n + i <= Len(q))
          /\ n + i - Len(q) = i
      BY <1>1, <2>2
    <3>2. h[j] = o[i]
      BY <1>2, <1>6, <1>7, <2>2, <3>1
    <3>3. g[n + i] = o[i]
      BY <1>5, <3>1
    <3> QED BY <2>2, <3>1, <3>2, <3>3
  <2>3. CASE ~(j <= n) /\ j # n + 1 /\ j <= n + i
    <3>1. /\ ~(j <= Len(q) + 1) /\ j - (Len(q) + 1) \in 1 .. Len(o) - 1 /\ j - (Len(q) + 1) < i
          /\ j - 1 \in 1 .. Len(q) + Len(o) /\ ~(j - 1 <= Len(q))
          /\ j - 1 - Len(q) = j - (Len(q) + 1)
      BY <1>1, <2>3
    <3>2. h[j] = o[j - (Len(q) + 1)]
      BY <1>4, <1>6, <1>7, <3>1
    <3>3. g[j - 1] = o[j - (Len(q) + 1)]
      BY <1>5, <3>1
    <3> QED BY <2>3, <3>2, <3>3
  <2>4. CASE ~(j <= n) /\ j # n + 1 /\ ~(j <= n + i)
    <3>1. /\ ~(j <= Len(q) + 1) /\ j - (Len(q) + 1) \in 1 .. Len(o) - 1 /\ ~(j - (Len(q) + 1) < i)
          /\ j - (Len(q) + 1) + 1 = j - Len(q)
      BY <1>1, <2>4
    <3>2. h[j] = o[j - Len(q)]
      BY <1>4, <1>6, <1>7, <3>1
    <3>3. g[j] = o[j - Len(q)]
      BY <1>5, <2>4
    <3> QED BY <2>4, <3>2, <3>3
  <2> QED BY <2>1, <2>2, <2>3, <2>4
<1> QED BY <1>5, <1>6, <1>7, <1>8 DEF IsMoved, a, p, g, h

\* The first to move stays where it was.
LEMMA MovedFirst ==
  ASSUME NEW S, NEW q \in Seq(S), NEW o \in Seq(S), 1 \in 1 .. Len(o)
  PROVE  Append(q, o[1]) \o RemoveAt(o, 1) = q \o o
<1> DEFINE g == q \o o
           h == Append(q, o[1]) \o RemoveAt(o, 1)
           n == Len(q)
<1>1. /\ g \in Seq(S) /\ Len(g) = Len(q) + Len(o)
      /\ h \in Seq(S) /\ Len(h) = Len(q) + Len(o)
      /\ \A j \in 1 .. Len(q) + Len(o) :
           h[j] = g[IF j <= n THEN j ELSE IF j = n + 1 THEN n + 1
                    ELSE IF j <= n + 1 THEN j - 1 ELSE j]
  <2>1. IsMoved(S, q, o, 1)
    BY Moved
  <2> QED BY <2>1, Zenon DEF IsMoved
<1>2. Len(q) \in Nat /\ Len(o) \in Nat
  BY LenProperties
<1> HIDE DEF g, h
<1>3. \A j \in 1 .. Len(q) + Len(o) : h[j] = g[j]
  <2> SUFFICES ASSUME NEW j \in 1 .. Len(q) + Len(o) PROVE h[j] = g[j]
    OBVIOUS
  <2>1. j = IF j <= n THEN j ELSE IF j = n + 1 THEN n + 1 ELSE IF j <= n + 1 THEN j - 1 ELSE j
    BY <1>2
  <2> HIDE DEF n
  <2> QED BY <1>1, <2>1, Zenon
<1>4. h = g
  BY <1>1, <1>3, SeqEqual
<1> QED BY <1>4 DEF g, h

\* The same of the queues of servers.
LEMMA QueuedSubSeq ==
  ASSUME NEW q \in Seq(Ops), NEW x \in Ops, NEW j \in Nat, NEW r \in Nat, r <= Len(q)
  PROVE  SubSeq(Append(q, x), j + 1, r) = SubSeq(q, j + 1, r)
BY SubSeqOfAppend, SMT

\* Appending to the end of two sequences is appending to the second.
LEMMA QueuedAppend ==
  ASSUME NEW q \in Seq(Ops), NEW o \in Seq(Ops), NEW x \in Ops
  PROVE  q \o Append(o, x) = Append(q \o o, x)
BY AppendToLast, SMT

-----------------------------------------------------------------------------
(* What a server has been sent.                                            *)

\* The operations of messages.
OpsOf(f) == [i \in DOMAIN f |-> f[i].op]

\* The operations of messages are as many as these, in their order.
LEMMA OpsOfProperties ==
  ASSUME NEW f \in Seq(Messages)
  PROVE  /\ OpsOf(f) \in Seq(Ops) /\ Len(OpsOf(f)) = Len(f)
         /\ \A i \in 1 .. Len(f) : OpsOf(f)[i] = f[i].op /\ f[i].op \in Ops
<1>1. Len(f) \in Nat /\ DOMAIN f = 1 .. Len(f)
  BY LenProperties
<1>2. \A i \in 1 .. Len(f) : f[i].op \in Ops
  <2>1. \A i \in 1 .. Len(f) : f[i] \in Messages
    BY ElementOfSeq
  <2> QED BY <2>1 DEF Messages
<1> QED BY <1>1, <1>2 DEF OpsOf

\* One more message is one more operation.
LEMMA OpsOfAppend ==
  ASSUME NEW f \in Seq(Messages), NEW m \in Messages
  PROVE  OpsOf(Append(f, m)) = Append(OpsOf(f), m.op)
<1> DEFINE h == Append(f, m)
           o == OpsOf(f)
           p == OpsOf(h)
<1>1. Len(f) \in Nat /\ m.op \in Ops
  BY LenProperties DEF Messages
<1>2. /\ h \in Seq(Messages) /\ Len(h) = Len(f) + 1
      /\ \A i \in 1 .. Len(f) : h[i] = f[i]
      /\ h[Len(f) + 1] = m
  BY AppendProperties
<1> HIDE DEF h
<1>3. p \in Seq(Ops) /\ Len(p) = Len(f) + 1 /\ \A i \in 1 .. Len(f) + 1 : p[i] = h[i].op
  BY <1>2, OpsOfProperties
<1>4. o \in Seq(Ops) /\ Len(o) = Len(f) /\ \A i \in 1 .. Len(f) : o[i] = f[i].op
  BY OpsOfProperties
<1> HIDE DEF o, p
<1>5. /\ Append(o, m.op) \in Seq(Ops) /\ Len(Append(o, m.op)) = Len(o) + 1
      /\ \A i \in 1 .. Len(o) : Append(o, m.op)[i] = o[i]
      /\ Append(o, m.op)[Len(o) + 1] = m.op
  BY <1>1, <1>4, AppendProperties
<1>6. \A i \in 1 .. Len(f) + 1 : i \in 1 .. Len(f) \/ i = Len(f) + 1
  BY <1>1
<1>7. \A i \in 1 .. Len(f) + 1 : p[i] = Append(o, m.op)[i]
  BY <1>2, <1>3, <1>4, <1>5, <1>6
<1>8. p = Append(o, m.op)
  BY <1>3, <1>4, <1>5, <1>7, SeqEqual
<1> QED BY <1>8 DEF o, p, h

\* A message that is taken out takes its operation with it.
LEMMA OpsOfRemoveAt ==
  ASSUME NEW f \in Seq(Messages), NEW i \in 1 .. Len(f)
  PROVE  OpsOf(RemoveAt(f, i)) = RemoveAt(OpsOf(f), i)
<1> DEFINE r == RemoveAt(f, i)
           o == OpsOf(f)
           p == OpsOf(r)
           t == RemoveAt(o, i)
<1>1. Len(f) \in Nat
  BY LenProperties
<1>2. r \in Seq(Messages) /\ Len(r) = Len(f) - 1
  BY RemoveAtProperties, LenProperties
<1>3. \A j \in 1 .. Len(f) - 1 : r[j] = IF j < i THEN f[j] ELSE f[j + 1]
  BY RemoveAtElements
<1> HIDE DEF r
<1>4. p \in Seq(Ops) /\ Len(p) = Len(f) - 1 /\ \A j \in 1 .. Len(f) - 1 : p[j] = r[j].op
  BY <1>2, OpsOfProperties
<1>5. o \in Seq(Ops) /\ Len(o) = Len(f) /\ \A j \in 1 .. Len(f) : o[j] = f[j].op
  BY OpsOfProperties
<1> HIDE DEF o, p
<1>6. t \in Seq(Ops) /\ Len(t) = Len(f) - 1
  BY <1>5, RemoveAtProperties, LenProperties
<1>7. \A j \in 1 .. Len(f) - 1 : t[j] = IF j < i THEN o[j] ELSE o[j + 1]
  BY <1>5, RemoveAtElements
<1> HIDE DEF t
<1>8. \A j \in 1 .. Len(f) - 1 : j \in 1 .. Len(f) /\ j + 1 \in 1 .. Len(f)
  BY <1>1
<1>9. \A j \in 1 .. Len(f) - 1 : p[j] = t[j]
  BY <1>3, <1>4, <1>5, <1>7, <1>8
<1>10. p = t
  BY <1>4, <1>6, <1>9, SeqEqual
<1> QED BY <1>10 DEF t, o, p, r

-----------------------------------------------------------------------------
(* Counting the elements of a sequence.                                    *)

\* An operation occurs a number of times.
LEMMA OccurrencesFinite ==
  ASSUME NEW S, NEW q \in Seq(S), NEW op
  PROVE  IsFiniteSet({i \in DOMAIN q : q[i] = op}) /\ Occurrences(op, q) \in Nat
<1>1. DOMAIN q = 1 .. Len(q) /\ Len(q) \in Int
  BY LenProperties
<1>2. IsFiniteSet(1 .. Len(q))
  BY <1>1, FS_Interval
<1>3. {i \in DOMAIN q : q[i] = op} \subseteq 1 .. Len(q)
  BY <1>1
<1>4. IsFiniteSet({i \in DOMAIN q : q[i] = op})
  BY <1>2, <1>3, FS_Subset
<1> QED BY <1>4, FS_CardinalityType DEF Occurrences

\* One more operation counts once for itself and not for others.
LEMMA OccurrencesAppend ==
  ASSUME NEW S, NEW q \in Seq(S), NEW x \in S, NEW op
  PROVE  Occurrences(op, Append(q, x)) = Occurrences(op, q) + (IF x = op THEN 1 ELSE 0)
<1> DEFINE a == Append(q, x)
           I == {i \in DOMAIN q : q[i] = op}
           J == {i \in DOMAIN a : a[i] = op}
           n == Len(q) + 1
<1>1. Len(q) \in Nat /\ DOMAIN q = 1 .. Len(q)
  BY LenProperties
<1>2. /\ a \in Seq(S) /\ Len(a) = n
      /\ \A i \in 1 .. Len(q) : a[i] = q[i]
      /\ a[n] = x
  BY AppendProperties
<1> HIDE DEF a
<1>3. DOMAIN a = 1 .. n
  BY <1>2, LenProperties
<1>4. 1 .. n = 1 .. Len(q) \cup {n} /\ n \notin 1 .. Len(q)
  BY <1>1
<1>5. IsFiniteSet(I) /\ Cardinality(I) \in Nat
  BY OccurrencesFinite, FS_CardinalityType
<1>6. CASE x = op
  <2>1. J = I \cup {n} /\ n \notin I
    BY <1>1, <1>2, <1>3, <1>4, <1>6
  <2>2. Cardinality(I \cup {n}) = Cardinality(I) + 1
    BY <1>5, <2>1, FS_AddElement
  <2> QED BY <1>6, <2>1, <2>2 DEF Occurrences, a
<1>7. CASE x # op
  <2>1. J = I
    BY <1>1, <1>2, <1>3, <1>4, <1>7
  <2>2. Occurrences(op, a) = Cardinality(J) /\ Occurrences(op, q) = Cardinality(I)
    BY DEF Occurrences
  <2>3. Occurrences(op, a) = Occurrences(op, q) /\ Occurrences(op, q) \in Nat
    BY <1>5, <2>1, <2>2, Zenon
  <2>4. \A m \in Nat : m = m + 0
    OBVIOUS
  <2> QED BY <1>7, <2>3, <2>4 DEF a
<1> QED BY <1>6, <1>7

\* An operation moved from a connection to the end of the queue counts as before.
LEMMA OccurrencesMoved ==
  ASSUME NEW S, NEW q \in Seq(S), NEW o \in Seq(S), NEW i \in 1 .. Len(o), NEW op
  PROVE  Occurrences(op, Append(q, o[i]) \o RemoveAt(o, i)) = Occurrences(op, q \o o)
<1> DEFINE g == q \o o
           h == Append(q, o[i]) \o RemoveAt(o, i)
           n == Len(q)
           N == Len(q) + Len(o)
           from(j) == IF j <= n THEN j ELSE IF j = n + 1 THEN n + i
                      ELSE IF j <= n + i THEN j - 1 ELSE j
           to(k) == IF k <= n THEN k ELSE IF k = n + i THEN n + 1
                    ELSE IF k < n + i THEN k + 1 ELSE k
           I == {k \in DOMAIN g : g[k] = op}
           J == {j \in DOMAIN h : h[j] = op}
           F == [j \in J |-> from(j)]
<1>1. n \in Nat /\ Len(o) \in Nat /\ i \in Nat /\ i >= 1 /\ i <= Len(o)
  BY LenProperties
<1>2. /\ g \in Seq(S) /\ Len(g) = N
      /\ h \in Seq(S) /\ Len(h) = N
      /\ \A j \in 1 .. N : h[j] = g[from(j)]
  <2>1. /\ g \in Seq(S) /\ Len(g) = Len(q) + Len(o)
        /\ h \in Seq(S) /\ Len(h) = Len(q) + Len(o)
        /\ \A j \in 1 .. Len(q) + Len(o) :
             h[j] = g[IF j <= n THEN j ELSE IF j = n + 1 THEN n + i
                      ELSE IF j <= n + i THEN j - 1 ELSE j]
    <3>1. IsMoved(S, q, o, i)
      BY Moved
    <3> QED BY <3>1, Zenon DEF IsMoved
  <2> HIDE DEF g, h
  <2> QED BY <2>1, Zenon
<1>3. DOMAIN g = 1 .. N /\ DOMAIN h = 1 .. N
  BY <1>2, LenProperties
<1>4. \A j \in 1 .. N : from(j) \in 1 .. N /\ to(from(j)) = j
  BY <1>1
<1>5. ASSUME NEW k \in 1 .. N PROVE to(k) \in 1 .. N /\ from(to(k)) = k
  <2>1. CASE k <= n
    BY <1>1, <2>1
  <2>2. CASE k = n + i
    BY <1>1, <2>2
  <2>3. CASE ~(k <= n) /\ k < n + i
    BY <1>1, <2>3
  <2>4. CASE ~(k <= n) /\ k > n + i
    BY <1>1, <2>4
  <2> QED BY <1>1, <2>1, <2>2, <2>3, <2>4
<1> HIDE DEF g, h, from, to, N
<1>6. F \in [J -> I]
  BY <1>2, <1>3, <1>4
<1>7. \A a, b \in J : F[a] = F[b] => a = b
  BY <1>3, <1>4
<1>8. \A k \in I : \E j \in J : F[j] = k
  <2> TAKE k \in I
  <2>1. k \in 1 .. N /\ g[k] = op
    BY <1>3
  <2>2. to(k) \in J /\ from(to(k)) = k
    BY <1>2, <1>3, <1>5, <2>1
  <2> HIDE DEF J
  <2>3. F[to(k)] = from(to(k))
    BY <2>2
  <2> QED BY <2>2, <2>3
<1> HIDE DEF F
<1>9. F \in Bijection(J, I)
  BY <1>6, <1>7, <1>8, Fun_IsBij
<1>10. ExistsBijection(J, I)
  BY <1>9 DEF ExistsBijection
<1>11. IsFiniteSet(J)
  BY <1>2, OccurrencesFinite
<1>12. Cardinality(I) = Cardinality(J)
  BY <1>10, <1>11, FS_Bijection
<1> QED BY <1>12 DEF Occurrences, g, h

\* An operation does not occur twice where all are different.
LEMMA OccurrencesOnce ==
  ASSUME NEW S, NEW q \in Seq(S), NEW op,
         \A i, j \in DOMAIN q : q[i] = q[j] => i = j
  PROVE  Occurrences(op, q) <= 1
<1> DEFINE I == {i \in DOMAIN q : q[i] = op}
<1>1. CASE I = {}
  <2>1. Cardinality(I) = 0
    BY <1>1, FS_EmptySet
  <2> QED BY <2>1 DEF Occurrences
<1>2. CASE I # {}
  <2>1. PICK i \in I : TRUE
    BY <1>2
  <2>2. I = {i}
    BY <2>1
  <2>3. Cardinality(I) = 1
    BY <2>2, FS_Singleton
  <2> QED BY <2>3 DEF Occurrences
<1> QED BY <1>1, <1>2

-----------------------------------------------------------------------------
(* What the invariant of the roles says of a paired backup.                *)

\* The types of what a server keeps and of what it is sent.
LEMMA ServerTypes ==
  ASSUME TypeOK, NEW s \in Servers
  PROVE  /\ log[s] \in Seq(Ops) /\ Len(log[s]) \in Nat /\ DOMAIN log[s] = 1 .. Len(log[s])
         /\ flight[s] \in Seq(Messages) /\ Len(flight[s]) \in Nat
         /\ DOMAIN flight[s] = 1 .. Len(flight[s])
         /\ done[s] \in Nat /\ joined[s] \in Nat
         /\ Replicated(s) \in {done[s], done[s] + 1} /\ Replicated(s) \in Nat
         /\ Addressed(s) \in {done[s], done[s] + 1} /\ Addressed(s) \in Nat
<1>1. log[s] \in Seq(Ops) /\ flight[s] \in Seq(Messages) /\ done[s] \in Nat /\ joined[s] \in Nat
  BY DEF TypeOK
<1>2. /\ Len(log[s]) \in Nat /\ DOMAIN log[s] = 1 .. Len(log[s])
      /\ Len(flight[s]) \in Nat /\ DOMAIN flight[s] = 1 .. Len(flight[s])
  BY <1>1, LenProperties
<1>3. /\ Replicated(s) \in {done[s], done[s] + 1} /\ Replicated(s) \in Nat
      /\ Addressed(s) \in {done[s], done[s] + 1} /\ Addressed(s) \in Nat
  BY <1>1 DEF Replicated, Addressed
<1> QED BY <1>1, <1>2, <1>3

\* It owns /kvstore/backup and is not the primary.
LEMMA PairedBackup ==
  ASSUME IInv, NEW b \in Servers, up[b] = "up", pair[b] # NoServer
  PROVE  role[b] = "BACKUP" /\ znode.backup = b
<1>1. role[b] \in {"PRIMARY", "BACKUP"}
  BY DEF IInv, TypeOK, RolesConsistent
<1>2. role[b] # "PRIMARY"
  BY ReplicationAssumption DEF IInv, RolesConsistent, PairsConsistent
<1> QED BY <1>1, <1>2 DEF IInv, RolesConsistent

\* Its primary has not sent more than it queued.
LEMMA ReplicatedQueued ==
  ASSUME IInv, NEW s \in Servers
  PROVE  Replicated(s) <= Len(log[s])
<1>1. done[s] \in Nat /\ Len(log[s]) \in Nat
  BY ServerTypes DEF IInv
<1>2. done[s] <= Len(log[s]) /\ (ppc[s] = "record" => done[s] < Len(log[s]))
  BY DEF IInv, ProcessorConsistent
<1> QED BY <1>1, <1>2 DEF Replicated

\* A server that has not started processes nothing.
LEMMA NewIdle ==
  ASSUME IInv, NEW s \in Servers, up[s] = "new"
  PROVE  ppc[s] = "idle" /\ Len(log[s]) = 0 /\ Len(flight[s]) = 0 /\ done[s] = 0
<1>1. Len(log[s]) = 0 /\ Len(flight[s]) = 0
  BY DEF IInv, NewUntouched
<1>2. done[s] \in Nat /\ done[s] <= Len(log[s]) /\ (ppc[s] # "idle" => done[s] < Len(log[s]))
  BY DEF IInv, TypeOK, ProcessorConsistent
<1> QED BY <1>1, <1>2

-----------------------------------------------------------------------------
(* Identifiers.                                                            *)

\* Whatever happens, a queue is as it was or has one more task.
LEMMA QueuesGrow ==
  ASSUME IInv, NEW s \in Servers,
         Environment(s) \/ Expire(s) \/ Watcher(s) \/ Receive(s) \/ Processor(s),
         NEW t \in Servers
  PROVE  log'[t] = log[t] \/ \E op \in Ops : log'[t] = Append(log[t], op)
<1>1. CASE Write(s)
  <2>1. Len(given) + 1 \in Ops
    BY <1>1, ReplicationAssumption, LenProperties DEF Write, Ops, IInv, TypeOK
  <2> QED BY <1>1, <2>1 DEF Write, Queue, IInv, TypeOK
<1>2. CASE Receive(s)
  <2>1. PICK i \in DOMAIN flight[s] : log' = [log EXCEPT ![s] = Append(@, flight[s][i].op)]
    BY <1>2 DEF Receive, Queue
  <2>2. flight[s][i].op \in Ops
    BY ServerTypes, OpsOfProperties DEF IInv
  <2> QED BY <2>1, <2>2 DEF IInv, TypeOK
<1>3. CASE UNCHANGED log
  BY <1>3
<1> QED
  BY <1>1, <1>2, <1>3
  DEF Environment, Expire, Watcher, Processor, RegisterPrimary, RegisterBackup, Crash,
      ReplicationFails, Dies, Lose, PromoteBackup, SetPromotedRole, DeleteBackup,
      Execute, ReadRole, GetBackup, Send, Record, taskVars

\* An identifier that a client was given stays the position of its operation in the
\* queue of the server that gave it (tasks-private.c:142-155).
LEMMA IdentifiersNext ==
  ASSUME IInv, IdentifiersKept, NEW s \in Servers,
         Environment(s) \/ Expire(s) \/ Watcher(s) \/ Receive(s) \/ Processor(s)
  PROVE  IdentifiersKept'
<1>1. given \in Seq([by: Servers, id: Nat]) /\ Len(given) \in Nat /\ DOMAIN given = 1 .. Len(given)
  BY LenProperties DEF IInv, TypeOK
\* An identifier given before stays a position of the same operation.
<1>2. ASSUME NEW op \in DOMAIN given
      PROVE  LET by == given[op].by
                 id == given[op].id
             IN id < Len(log'[by]) /\ log'[by][id + 1] = op
  <2> DEFINE by == given[op].by
             id == given[op].id
  <2>1. given[op] \in [by: Servers, id: Nat]
    BY <1>1, ElementOfSeq
  <2>2. by \in Servers /\ id \in Nat
    BY <2>1
  <2>3. id < Len(log[by]) /\ log[by][id + 1] = op
    BY DEF IdentifiersKept
  <2> HIDE DEF by, id
  <2>4. log[by] \in Seq(Ops) /\ Len(log[by]) \in Nat
    BY <2>2, ServerTypes DEF IInv
  <2>5. CASE log'[by] = log[by]
    BY <2>3, <2>5 DEF by, id
  <2>6. ASSUME NEW x \in Ops, log'[by] = Append(log[by], x)
        PROVE  id < Len(log'[by]) /\ log'[by][id + 1] = op
    <3>1. id + 1 \in 1 .. Len(log[by])
      BY <2>2, <2>3, <2>4
    <3>2. Len(log'[by]) = Len(log[by]) + 1 /\ log'[by][id + 1] = log[by][id + 1]
      BY <2>4, <2>6, <3>1, AppendProperties
    <3> QED BY <2>2, <2>3, <2>4, <3>2
  <2> QED BY <2>2, <2>5, <2>6, QueuesGrow DEF by, id
<1>3. CASE Write(s)
  <2> DEFINE g == [by |-> s, id |-> Len(log[s])]
             n == Len(given) + 1
  <2>1. log[s] \in Seq(Ops) /\ Len(log[s]) \in Nat /\ g \in [by: Servers, id: Nat]
    BY ServerTypes DEF IInv
  <2>2. n \in Ops
    BY <1>1, <1>3, ReplicationAssumption DEF Write, Ops
  <2>3. given' = Append(given, g) /\ log'[s] = Append(log[s], n)
    BY <1>3 DEF Write, Queue, IInv, TypeOK
  <2>4. /\ DOMAIN given' = 1 .. n /\ given'[n] = g
        /\ \A op \in 1 .. Len(given) : given'[op] = given[op]
    BY <1>1, <2>1, <2>3, AppendProperties, LenProperties
  <2>5. Len(log'[s]) = Len(log[s]) + 1 /\ log'[s][Len(log[s]) + 1] = n
    BY <2>1, <2>2, <2>3, AppendProperties
  <2>6. Len(log[s]) < Len(log'[s])
    BY <2>1, <2>5
  <2> SUFFICES ASSUME NEW op \in DOMAIN given'
               PROVE  LET by == given'[op].by
                          id == given'[op].id
                      IN id < Len(log'[by]) /\ log'[by][id + 1] = op
    BY DEF IdentifiersKept
  <2>7. CASE op \in 1 .. Len(given)
    BY <1>1, <1>2, <2>4, <2>7
  <2>8. CASE op = n
    BY <2>4, <2>5, <2>6, <2>8
  <2> QED BY <1>1, <2>4, <2>7, <2>8
<1>4. CASE UNCHANGED given
  BY <1>2, <1>4 DEF IdentifiersKept
<1> QED
  BY <1>3, <1>4
  DEF Environment, Expire, Watcher, Processor, RegisterPrimary, RegisterBackup, Crash,
      ReplicationFails, Dies, Lose, PromoteBackup, SetPromotedRole, DeleteBackup,
      Receive, Execute, ReadRole, GetBackup, Send, Record

-----------------------------------------------------------------------------
(* Pairs.                                                                  *)

\* What is left in flight was in flight.
LEMMA FlightShrinks ==
  ASSUME TypeOK, NEW s \in Servers, NEW i \in DOMAIN flight[s],
         flight' = [flight EXCEPT ![s] = RemoveAt(@, i)]
  PROVE  \A t \in Servers : \A j \in DOMAIN flight'[t] :
           \E k \in DOMAIN flight[t] : flight'[t][j] = flight[t][k]
<1> SUFFICES ASSUME NEW j \in DOMAIN flight'[s]
             PROVE  \E k \in DOMAIN flight[s] : flight'[s][j] = flight[s][k]
  BY DEF TypeOK
<1>1. /\ flight[s] \in Seq(Messages) /\ Len(flight[s]) \in Nat
      /\ DOMAIN flight[s] = 1 .. Len(flight[s])
  BY ServerTypes
<1>2. flight'[s] = RemoveAt(flight[s], i)
  BY DEF TypeOK
<1>3. flight'[s] \in Seq(Messages) /\ Len(flight'[s]) = Len(flight[s]) - 1
  BY <1>1, <1>2, RemoveAtProperties
<1>4. j \in 1 .. Len(flight[s]) - 1
  BY <1>3, LenProperties
<1>5. flight'[s][j] = IF j < i THEN flight[s][j] ELSE flight[s][j + 1]
  BY <1>1, <1>2, <1>4, RemoveAtElements
<1>6. j \in DOMAIN flight[s] /\ j + 1 \in DOMAIN flight[s]
  BY <1>1, <1>4
<1> QED BY <1>5, <1>6

\* The primary of a backup stays another server, and its next task goes there.
LEMMA PairsFollowNext ==
  ASSUME IInv, PairsFollow, NEW s \in Servers,
         Environment(s) \/ Expire(s) \/ Watcher(s) \/ Receive(s) \/ Processor(s)
  PROVE  PairsFollow'
<1> USE ReplicationAssumption
<1> DEFINE Paired(b, p) ==
             /\ p # b
             /\ up[b] = "up" =>
                  /\ joined[b] <= Addressed(p)
                  /\ up[p] = "up" /\ ppc[p] = "connect" =>
                       IF target[p] = b THEN joined[b] <= done[p] ELSE joined[b] = done[p] + 1
                  /\ \A i \in DOMAIN flight[b] : flight[b][i].from = p
<1>1. \A b \in Servers : pair[b] # NoServer => pair[b] \in Servers /\ Paired(b, pair[b])
  <2> TAKE b \in Servers
  <2>1. pair[b] # NoServer => pair[b] \in Servers
    BY DEF IInv, TypeOK
  <2>2. pair[b] # NoServer => Paired(b, pair[b])
    BY DEF PairsFollow
  <2> QED BY <2>1, <2>2
<1>2. SUFFICES ASSUME NEW b \in Servers, pair'[b] # NoServer PROVE Paired(b, pair[b])'
  BY DEF PairsFollow
\* Steps that leave the processors, or do not start the primary while it sends.
<1>3. ASSUME UNCHANGED <<ppc, target, done, joined>>, pair'[b] = pair[b],
             up'[b] = "up" => up[b] = "up",
             up'[pair[b]] = "up" /\ ppc[pair[b]] = "connect" => up[pair[b]] = "up",
             up[b] = "up" => \A j \in DOMAIN flight'[b] :
                               \E k \in DOMAIN flight[b] : flight'[b][j] = flight[b][k]
      PROVE  Paired(b, pair[b])'
  <2>1. Paired(b, pair[b])
    BY <1>1, <1>2, <1>3
  <2> QED BY <1>3, <2>1 DEF Addressed
<1>4. CASE RegisterPrimary(s)
  <2>1. UNCHANGED <<ppc, target, done, joined, flight>> /\ up' = [up EXCEPT ![s] = "up"]
    BY <1>4 DEF RegisterPrimary, taskVars
  <2>2. pair'[b] = pair[b]
    BY <1>2, <1>4 DEF RegisterPrimary, Unpair
  <2>3. up[s] = "new" /\ ppc[s] = "idle" /\ pair[s] = NoServer
    BY <1>4, NewIdle DEF RegisterPrimary, IInv, NewUntouched
  <2>4. b # s /\ up'[b] = up[b]
    BY <1>2, <2>1, <2>2, <2>3 DEF IInv, TypeOK
  <2>5. up'[pair[b]] = "up" /\ ppc[pair[b]] = "connect" => up[pair[b]] = "up"
    BY <1>1, <1>2, <2>1, <2>2, <2>3 DEF IInv, TypeOK
  <2> QED BY <1>3, <2>1, <2>2, <2>4, <2>5
<1>5. CASE RegisterBackup(s)
  <2>1. /\ UNCHANGED <<ppc, target, done, flight>> /\ up' = [up EXCEPT ![s] = "up"]
        /\ pair' = [pair EXCEPT ![s] = znode.primary]
        /\ joined' = [joined EXCEPT ![s] = Addressed(znode.primary)]
        /\ up[s] = "new" /\ znode.primary \in Servers
    BY <1>5 DEF RegisterBackup, taskVars, IInv, TypeOK
  <2>2. ppc[s] = "idle" /\ Len(flight[s]) = 0 /\ s # znode.primary /\ pair[s] = NoServer
    BY <2>1, NewIdle DEF IInv, NewUntouched
  <2>3. CASE b # s
    <3>1. pair'[b] = pair[b] /\ joined'[b] = joined[b] /\ up'[b] = up[b] /\ Paired(b, pair[b])
      BY <1>1, <1>2, <2>1, <2>3 DEF IInv, TypeOK
    <3>2. up'[pair[b]] = "up" /\ ppc[pair[b]] = "connect" => up[pair[b]] = "up"
      BY <1>1, <1>2, <2>1, <2>2, <3>1 DEF IInv, TypeOK
    <3> QED BY <2>1, <3>1, <3>2 DEF Addressed
  <2>4. CASE b = s
    <3> DEFINE p == znode.primary
    <3>1. pair'[b] = p /\ joined'[b] = Addressed(p) /\ p # b
      BY <2>1, <2>2, <2>4 DEF IInv, TypeOK
    <3>2. DOMAIN flight'[b] = {}
      BY <2>1, <2>2, <2>4, ServerTypes DEF IInv
    <3>3. up'[p] = "up" /\ ppc'[p] = "connect" => target'[p] # b /\ joined'[b] = done'[p] + 1
      <4>1. up'[p] = up[p]
        BY <2>1, <3>1, <2>4 DEF IInv, TypeOK
      <4>2. up[p] = "up" /\ ppc[p] = "connect" => up[target[p]] # "new"
        BY <2>1 DEF IInv, ProcessorConsistent
      <4> QED BY <2>1, <2>4, <3>1, <4>1, <4>2 DEF Addressed
    <3>4. Addressed(p) \in Nat
      BY <2>1, ServerTypes DEF IInv
    <3>5. \A n \in Nat : n <= n
      OBVIOUS
    <3>6. joined'[b] <= (IF ppc'[p] \in {"connect", "record"} THEN done'[p] + 1 ELSE done'[p])
      BY <2>1, <3>1, <3>4, <3>5 DEF Addressed
    <3> QED BY <3>1, <3>2, <3>3, <3>6 DEF Addressed
  <2> QED BY <2>3, <2>4
<1>6. CASE Crash(s) \/ ReplicationFails(s)
  <2>1. /\ UNCHANGED <<ppc, target, done, joined, pair>>
        /\ up' = [up EXCEPT ![s] = "down"] /\ flight' = [flight EXCEPT ![s] = <<>>]
    BY <1>6 DEF Crash, ReplicationFails, Dies, taskVars
  <2>2. /\ up'[b] = "up" => up[b] = "up"
        /\ up'[pair[b]] = "up" => up[pair[b]] = "up"
        /\ up[b] = "up" => \A j \in DOMAIN flight'[b] :
                             \E k \in DOMAIN flight[b] : flight'[b][j] = flight[b][k]
    BY <1>1, <1>2, <2>1 DEF IInv, TypeOK
  <2> QED BY <1>3, <2>1, <2>2
<1>7. CASE Lose(s) \/ Receive(s)
  <2>1. PICK i \in DOMAIN flight[s] : flight' = [flight EXCEPT ![s] = RemoveAt(@, i)]
    BY <1>7 DEF Lose, Receive
  <2>2. UNCHANGED <<ppc, target, done, joined, pair, up>>
    BY <1>7 DEF Lose, Receive, taskVars, ghosts
  <2> QED BY <1>3, <2>1, <2>2, FlightShrinks DEF IInv
<1>8. CASE PromoteBackup(s)
  <2>1. UNCHANGED <<ppc, target, done, joined, up, flight>> /\ pair'[b] = pair[b]
    BY <1>2, <1>8 DEF PromoteBackup, Unpair, taskVars
  <2> QED BY <1>3, <2>1
<1>9. CASE Expire(s) \/ SetPromotedRole(s) \/ DeleteBackup(s) \/ Write(s)
  <2>1. UNCHANGED <<ppc, target, done, joined, up, flight, pair>>
    BY <1>9 DEF Expire, SetPromotedRole, DeleteBackup, Write, taskVars, ghosts
  <2> QED BY <1>3, <2>1
\* Steps of the processor of s.
<1>10. ASSUME UNCHANGED <<joined, up, pair>>,
              \A t \in Servers \ {s} :
                ppc'[t] = ppc[t] /\ target'[t] = target[t] /\ done'[t] = done[t],
              \A j \in DOMAIN flight'[b] : flight'[b][j].from = pair[b] \/
                 \E k \in DOMAIN flight[b] : flight'[b][j] = flight[b][k],
              pair[b] = s /\ up[b] = "up" /\ up[s] = "up" =>
                /\ joined[b] <= Addressed(s)'
                /\ ppc'[s] = "connect" =>
                     IF target'[s] = b THEN joined[b] <= done'[s] ELSE joined[b] = done'[s] + 1
       PROVE  up[s] = "up" => Paired(b, pair[b])'
  <2>1. Paired(b, pair[b]) /\ pair[b] \in Servers
    BY <1>1, <1>2, <1>10
  <2>2. CASE pair[b] # s
    BY <1>10, <2>1, <2>2 DEF Addressed
  <2>3. CASE pair[b] = s
    BY <1>10, <2>1, <2>3
  <2> QED BY <2>2, <2>3
<1>11. done[s] \in Nat /\ joined[b] \in Nat
  BY ServerTypes DEF IInv
<1>12. \A n, m \in Nat : n <= m => n <= m + 1
  OBVIOUS
<1>13. pair[b] = s /\ up[b] = "up" /\ pair[b] # NoServer =>
         /\ joined[b] <= Addressed(s)
         /\ up[s] = "up" /\ ppc[s] = "connect" =>
              IF target[s] = b THEN joined[b] <= done[s] ELSE joined[b] = done[s] + 1
  BY <1>1
<1>14. CASE Execute(s) \/ ReadRole(s)
  <2>1. /\ UNCHANGED <<joined, up, pair, target, done, flight>> /\ up[s] = "up"
        /\ ppc[s] \in {"idle", "replicate"}
        /\ ppc' \in {[ppc EXCEPT ![s] = x] : x \in {"replicate", "get_backup", "record"}}
    BY <1>14 DEF Execute, ReadRole, ProcMoves, ghosts
  <2>2. /\ \A t \in Servers \ {s} : ppc'[t] = ppc[t]
        /\ ppc'[s] \in {"replicate", "get_backup", "record"}
    BY <2>1 DEF IInv, TypeOK
  <2>3. Addressed(s) = done[s] /\ Addressed(s)' \in {done[s], done[s] + 1}
    BY <2>1, <2>2 DEF Addressed
  <2>4. pair[b] = s /\ up[b] = "up" => joined[b] <= Addressed(s)'
    BY <1>11, <1>12, <1>13, <1>2, <2>1, <2>3
  <2> QED BY <1>10, <2>1, <2>2, <2>4
<1>15. CASE GetBackup(s)
  <2>1. /\ UNCHANGED <<joined, up, pair, done, flight>> /\ up[s] = "up"
        /\ ppc[s] = "get_backup" /\ ppc' = [ppc EXCEPT ![s] = "connect"]
        /\ target' = [target EXCEPT ![s] = znode.backup]
    BY <1>15 DEF GetBackup, ProcMoves, ghosts
  <2>2. /\ \A t \in Servers \ {s} : ppc'[t] = ppc[t] /\ target'[t] = target[t]
        /\ ppc'[s] = "connect" /\ target'[s] = znode.backup
    BY <2>1 DEF IInv, TypeOK
  <2>3. Addressed(s) = done[s] /\ Addressed(s)' = done[s] + 1
    BY <2>1, <2>2 DEF Addressed
  <2>4. up[b] = "up" => znode.backup = b
    BY <1>2, <2>1, PairedBackup
  <2>5. pair[b] = s /\ up[b] = "up" => joined[b] <= Addressed(s)' /\ joined[b] <= done[s]
    BY <1>2, <1>11, <1>12, <1>13, <2>1, <2>3
  <2> QED BY <1>10, <2>1, <2>2, <2>4, <2>5
<1>16. CASE Send(s)
  <2> DEFINE m == [from |-> s, op |-> log[s][done[s] + 1]]
  <2>1. /\ UNCHANGED <<joined, up, pair, done, target>> /\ up[s] = "up"
        /\ ppc[s] = "connect" /\ ppc' = [ppc EXCEPT ![s] = "record"]
        /\ flight' = [flight EXCEPT ![target[s]] = Append(@, m)]
    BY <1>16 DEF Send, ProcMoves, ghosts
  <2>2. /\ \A t \in Servers \ {s} : ppc'[t] = ppc[t]
        /\ ppc'[s] = "record"
    BY <2>1 DEF IInv, TypeOK
  <2>3. Addressed(s)' = Addressed(s)
    BY <2>1, <2>2 DEF Addressed
  <2>4. target[s] \in Servers /\ pair[target[s]] \in {NoServer, s}
    BY <2>1 DEF IInv, ProcessorConsistent
  <2>5. ASSUME NEW j \in DOMAIN flight'[b]
        PROVE  flight'[b][j].from = pair[b] \/ \E k \in DOMAIN flight[b] : flight'[b][j] = flight[b][k]
    <3>1. CASE b # target[s]
      BY <2>1, <3>1 DEF IInv, TypeOK
    <3>2. CASE b = target[s]
      <4>1. flight'[b] = Append(flight[b], m) /\ pair[b] = s /\ m.from = s
        BY <1>2, <2>1, <2>4, <3>2 DEF IInv, TypeOK
      <4>2. flight[b] \in Seq(Messages) /\ Len(flight[b]) \in Nat /\ DOMAIN flight[b] = 1 .. Len(flight[b])
        BY ServerTypes DEF IInv
      <4>3. log[s][done[s] + 1] \in Ops
        <5>1. done[s] < Len(log[s]) /\ log[s] \in Seq(Ops) /\ Len(log[s]) \in Nat
          BY <2>1, ServerTypes DEF IInv, ProcessorConsistent
        <5>2. done[s] + 1 \in 1 .. Len(log[s])
          BY <1>11, <5>1
        <5> QED BY <5>1, <5>2, ElementOfSeq
      <4>4. m \in Messages
        BY <4>3 DEF Messages
      <4>5. /\ Append(flight[b], m) \in Seq(Messages) /\ Len(Append(flight[b], m)) = Len(flight[b]) + 1
            /\ \A i \in 1 .. Len(flight[b]) : Append(flight[b], m)[i] = flight[b][i]
            /\ Append(flight[b], m)[Len(flight[b]) + 1] = m
        BY <4>2, <4>4, AppendProperties
      <4>6. j \in 1 .. Len(flight[b]) + 1
        BY <4>1, <4>5, LenProperties
      <4>7. j \in 1 .. Len(flight[b]) \/ j = Len(flight[b]) + 1
        BY <4>2, <4>6
      <4> QED BY <4>1, <4>2, <4>5, <4>7
    <3> QED BY <3>1, <3>2
  <2>6. pair[b] = s /\ up[b] = "up" => joined[b] <= Addressed(s)'
    BY <1>2, <1>13, <2>1, <2>3
  <2> QED BY <1>10, <2>1, <2>2, <2>5, <2>6
<1>17. CASE Record(s)
  <2>1. /\ UNCHANGED <<joined, up, pair, flight>> /\ up[s] = "up"
        /\ ppc[s] = "record" /\ ppc' = [ppc EXCEPT ![s] = "idle"]
        /\ done' = [done EXCEPT ![s] = @ + 1] /\ target' = [target EXCEPT ![s] = NoServer]
    BY <1>17 DEF Record, ProcMoves, ghosts
  <2>2. /\ \A t \in Servers \ {s} : ppc'[t] = ppc[t] /\ target'[t] = target[t] /\ done'[t] = done[t]
        /\ ppc'[s] = "idle" /\ done'[s] = done[s] + 1
    BY <2>1 DEF IInv, TypeOK
  <2>3. Addressed(s)' = Addressed(s)
    BY <2>1, <2>2 DEF Addressed
  <2>4. pair[b] = s /\ up[b] = "up" => joined[b] <= Addressed(s)'
    BY <1>2, <1>13, <2>1, <2>3
  <2> QED BY <1>10, <2>1, <2>2, <2>4
<1> QED
  BY <1>4, <1>5, <1>6, <1>7, <1>8, <1>9, <1>14, <1>15, <1>16, <1>17
  DEF Environment, Watcher, Processor

-----------------------------------------------------------------------------
(* Backups follow their primary.                                           *)

\* Every step leaves what a backup was sent equal to what its primary replicated.
LEMMA BackupFollowsNext ==
  ASSUME IInv, PairsFollow, BackupFollows, NEW s \in Servers,
         Environment(s) \/ Expire(s) \/ Watcher(s) \/ Receive(s) \/ Processor(s)
  PROVE  BackupFollows'
<1> USE ReplicationAssumption
<1> DEFINE Same(g, t) == IF ordered THEN g = t
                         ELSE \A op \in Ops : Occurrences(op, g) = Occurrences(op, t)
           Done(p) == IF ppc'[p] = "record" THEN done'[p] + 1 ELSE done'[p]
           Got1(b) == log'[b] \o OpsOf(flight'[b])
           Sent1(b) == SubSeq(log'[pair'[b]], joined'[b] + 1, Done(pair'[b]))
           Got0(b) == log[b] \o OpsOf(flight[b])
           Sent0(b) == SubSeq(log[pair[b]], joined[b] + 1, Replicated(pair[b]))
<1>1. ordered' = ordered /\ hostLost \subseteq hostLost'
  BY DEF Environment, Expire, Watcher, Processor, RegisterPrimary, RegisterBackup, Crash,
         ReplicationFails, Dies, Lose, Write, PromoteBackup, SetPromotedRole, DeleteBackup,
         Receive, Execute, ReadRole, GetBackup, Send, Record, ghosts
<1>2. SUFFICES ASSUME NEW b \in Servers, pair'[b] # NoServer, up'[b] = "up",
                      pair'[b] \notin hostLost'
               PROVE  Same(Got1(b), Sent1(b))
  BY <1>1 DEF BackupFollows, Got, SentTo, Occurrences, Replicated, OpsOf
<1>3. ASSUME pair'[b] = pair[b], up[b] = "up"
      PROVE  /\ Same(Got0(b), Sent0(b))
             /\ pair[b] \in Servers /\ pair[b] # b /\ pair[b] \notin hostLost
             /\ \A i \in DOMAIN flight[b] : flight[b][i].from = pair[b]
  BY <1>1, <1>2, <1>3 DEF BackupFollows, PairsFollow, Got, SentTo, OpsOf, IInv, TypeOK
<1> HIDE DEF Same, Done, Got1, Got0
\* What the primary has sent stays the same part of its queue.
<1>4. ASSUME pair'[b] = pair[b], up[b] = "up", joined'[b] = joined[b],
             Done(pair[b]) = Replicated(pair[b])
      PROVE  Sent1(b) = Sent0(b)
  <2> DEFINE p == pair[b]
  <2>1. p \in Servers
    BY <1>3, <1>4
  <2> HIDE DEF p
  <2>2. /\ log[p] \in Seq(Ops) /\ joined[b] \in Nat /\ Replicated(p) \in Nat
        /\ Replicated(p) <= Len(log[p])
    BY <2>1, ServerTypes, ReplicatedQueued DEF IInv
  <2>3. SubSeq(log'[p], joined[b] + 1, Replicated(p)) = SubSeq(log[p], joined[b] + 1, Replicated(p))
    <3>1. CASE log'[p] = log[p]
      BY <3>1
    <3>2. ASSUME NEW x \in Ops, log'[p] = Append(log[p], x)
          PROVE  SubSeq(log'[p], joined[b] + 1, Replicated(p))
                   = SubSeq(log[p], joined[b] + 1, Replicated(p))
      <4>1. SubSeq(Append(log[p], x), joined[b] + 1, Replicated(p))
              = SubSeq(log[p], joined[b] + 1, Replicated(p))
        BY <2>2, QueuedSubSeq, Zenon
      <4> QED BY <3>2, <4>1, Zenon
    <3> QED BY <2>1, <3>1, <3>2, QueuesGrow
  <2> QED BY <1>4, <2>3 DEF p
\* The steps that change neither.
<1>5. ASSUME pair'[b] = pair[b], up[b] = "up", joined'[b] = joined[b],
             log'[b] = log[b], flight'[b] = flight[b],
             Done(pair[b]) = Replicated(pair[b])
      PROVE  Same(Got1(b), Sent1(b))
  <2>1. Got1(b) = Got0(b) /\ Sent1(b) = Sent0(b)
    BY <1>4, <1>5 DEF Got1, Got0
  <2> QED BY <1>3, <1>5, <2>1
<1>6. ASSUME NEW p \in Servers, ppc'[p] = ppc[p], done'[p] = done[p]
      PROVE  Done(p) = Replicated(p)
  BY <1>6 DEF Done, Replicated
<1>7. CASE RegisterPrimary(s)
  <2>1. UNCHANGED <<log, flight, joined, ppc, done>> /\ up' = [up EXCEPT ![s] = "up"]
    BY <1>7 DEF RegisterPrimary, taskVars
  <2>2. pair'[b] = pair[b] /\ pair[s] = NoServer
    BY <1>2, <1>7 DEF RegisterPrimary, Unpair, IInv, NewUntouched
  <2>3. up[b] = "up" /\ pair[b] \in Servers
    BY <1>2, <2>1, <2>2 DEF IInv, TypeOK
  <2> QED BY <1>5, <1>6, <2>1, <2>2, <2>3
<1>8. CASE RegisterBackup(s)
  <2>1. /\ UNCHANGED <<log, flight, ppc, done>> /\ up' = [up EXCEPT ![s] = "up"]
        /\ pair' = [pair EXCEPT ![s] = znode.primary]
        /\ joined' = [joined EXCEPT ![s] = Addressed(znode.primary)]
        /\ up[s] = "new" /\ znode.primary \in Servers
    BY <1>8 DEF RegisterBackup, taskVars, IInv, TypeOK
  <2>2. CASE b # s
    <3>1. pair'[b] = pair[b] /\ joined'[b] = joined[b] /\ up[b] = "up" /\ pair[b] \in Servers
      BY <1>2, <2>1, <2>2 DEF IInv, TypeOK
    <3> QED BY <1>5, <1>6, <2>1, <3>1
  <2>3. CASE b = s
    <3> DEFINE p == znode.primary
    <3>1. pair'[b] = p /\ joined'[b] = Addressed(p)
      BY <2>1, <2>3 DEF IInv, TypeOK
    <3>2. log[b] = <<>> /\ flight[b] = <<>>
      BY <2>1, <2>3 DEF IInv, NewUntouched
    <3>3. Got1(b) = <<>>
      <4>1. OpsOf(<<>>) = <<>>
        BY DEF OpsOf
      <4> QED BY <2>1, <3>2, <4>1 DEF Got1
    <3>4. Done(p) = Replicated(p)
      BY <1>6, <2>1
    <3>5. Done(p) \in Int /\ Addressed(p) + 1 \in Int /\ Done(p) < Addressed(p) + 1
      <4>1. done[p] \in Nat
        BY <2>1, ServerTypes DEF IInv
      <4> QED BY <3>4, <4>1 DEF Replicated, Addressed
    <3>6. Sent1(b) = <<>>
      BY <3>1, <3>5, SubSeqEmpty
    <3> QED BY <3>3, <3>6 DEF Same
  <2> QED BY <2>2, <2>3
<1>9. CASE Crash(s) \/ ReplicationFails(s)
  <2>1. /\ UNCHANGED <<log, ppc, done, joined, pair>>
        /\ up' = [up EXCEPT ![s] = "down"] /\ flight' = [flight EXCEPT ![s] = <<>>]
    BY <1>9 DEF Crash, ReplicationFails, Dies, taskVars
  <2>2. b # s /\ up[b] = "up" /\ flight'[b] = flight[b] /\ pair[b] \in Servers
    BY <1>2, <2>1 DEF IInv, TypeOK
  <2> QED BY <1>5, <1>6, <2>1, <2>2
<1>10. CASE Lose(s)
  <2>1. PICK i \in DOMAIN flight[s] : /\ flight[s][i].from \in hostLost
                                      /\ flight' = [flight EXCEPT ![s] = RemoveAt(@, i)]
    BY <1>10 DEF Lose
  <2>2. UNCHANGED <<up, log, ppc, done, joined, pair>>
    BY <1>10 DEF Lose, taskVars, ghosts
  <2>3. b # s
    BY <1>2, <1>3, <2>1, <2>2
  <2>4. flight'[b] = flight[b] /\ up[b] = "up" /\ pair[b] \in Servers
    BY <1>2, <2>1, <2>2, <2>3 DEF IInv, TypeOK
  <2> QED BY <1>5, <1>6, <2>2, <2>4
<1>11. CASE PromoteBackup(s)
  <2>1. UNCHANGED <<up, log, flight, ppc, done, joined>> /\ pair'[b] = pair[b]
    BY <1>2, <1>11 DEF PromoteBackup, Unpair, taskVars
  <2>2. up[b] = "up" /\ pair[b] \in Servers
    BY <1>2, <2>1 DEF IInv, TypeOK
  <2> QED BY <1>5, <1>6, <2>1, <2>2
<1>12. CASE Expire(s) \/ SetPromotedRole(s) \/ DeleteBackup(s)
  <2>1. UNCHANGED <<up, log, flight, ppc, done, joined, pair>>
    BY <1>12 DEF Expire, SetPromotedRole, DeleteBackup, taskVars, ghosts
  <2>2. up[b] = "up" /\ pair[b] \in Servers
    BY <1>2, <2>1 DEF IInv, TypeOK
  <2> QED BY <1>5, <1>6, <2>1, <2>2
<1>13. CASE Write(s)
  <2>1. UNCHANGED <<up, flight, ppc, done, joined, pair>> /\ \A t \in Servers \ {s} : log'[t] = log[t]
    BY <1>13 DEF Write, Queue, ghosts, IInv, TypeOK
  <2>2. up[b] = "up" /\ pair[b] \in Servers /\ pair[b] # NoServer
    BY <1>2, <2>1 DEF IInv, TypeOK
  <2>3. b # s
    BY <1>13, <2>2 DEF Write, IInv, PairsConsistent
  <2> QED BY <1>5, <1>6, <2>1, <2>2, <2>3
<1>14. CASE Receive(s)
  <2>1. PICK i \in DOMAIN flight[s] :
          /\ ordered => i = 1
          /\ log' = [log EXCEPT ![s] = Append(@, flight[s][i].op)]
          /\ flight' = [flight EXCEPT ![s] = RemoveAt(@, i)]
    BY <1>14 DEF Receive, Queue
  <2>2. UNCHANGED <<up, ppc, done, joined, pair>>
    BY <1>14 DEF Receive, ghosts
  <2>3. up[b] = "up" /\ pair[b] \in Servers /\ Done(pair[b]) = Replicated(pair[b])
    BY <1>2, <1>6, <2>2 DEF IInv, TypeOK
  <2>4. CASE b # s
    <3>1. log'[b] = log[b] /\ flight'[b] = flight[b]
      BY <2>1, <2>4 DEF IInv, TypeOK
    <3> QED BY <1>5, <2>2, <2>3, <3>1
  <2>5. CASE b = s
    <3> DEFINE q == log[s]
               f == flight[s]
               o == OpsOf(f)
    <3>1. /\ q \in Seq(Ops) /\ f \in Seq(Messages) /\ i \in 1 .. Len(f)
          /\ log'[s] = Append(q, f[i].op) /\ flight'[s] = RemoveAt(f, i)
      BY <2>1, ServerTypes DEF IInv, TypeOK
    <3>2. o \in Seq(Ops) /\ i \in 1 .. Len(o) /\ o[i] = f[i].op
      BY <3>1, OpsOfProperties
    <3>3. OpsOf(RemoveAt(f, i)) = RemoveAt(o, i)
      BY <3>1, OpsOfRemoveAt
    <3> HIDE DEF o
    <3>4. Got1(b) = Append(q, o[i]) \o RemoveAt(o, i)
      BY <2>5, <3>1, <3>2, <3>3 DEF Got1
    <3>5. Got0(b) = q \o o
      BY <2>5 DEF Got0, o
    <3>6. Same(Got0(b), Sent0(b)) /\ Sent1(b) = Sent0(b)
      BY <1>3, <1>4, <2>2, <2>3
    <3>7. CASE ordered
      <4>1. i = 1
        BY <2>1, <3>7
      <4>2. Got1(b) = Got0(b)
        BY <3>1, <3>2, <3>4, <3>5, <4>1, MovedFirst
      <4> QED BY <3>6, <4>2
    <3>8. CASE ~ordered
      <4>1. \A op \in Ops : Occurrences(op, Got1(b)) = Occurrences(op, Got0(b))
        BY <3>1, <3>2, <3>4, <3>5, OccurrencesMoved
      <4> QED BY <3>6, <3>8, <4>1 DEF Same
    <3> QED BY <3>7, <3>8
  <2> QED BY <2>4, <2>5
<1>15. CASE Execute(s) \/ GetBackup(s)
  <2>1. UNCHANGED <<up, log, flight, done, joined, pair>>
    BY <1>15 DEF Execute, GetBackup, ProcMoves, ghosts
  <2>2. up[b] = "up" /\ pair[b] \in Servers
    BY <1>2, <2>1 DEF IInv, TypeOK
  <2>3. \A p \in Servers : ppc'[p] = "record" <=> ppc[p] = "record"
    <3>1. DOMAIN ppc = Servers
      BY DEF IInv, TypeOK
    <3>2. CASE Execute(s)
      <4>1. ppc[s] = "idle" /\ ppc' = [ppc EXCEPT ![s] = "replicate"]
        BY <3>2 DEF Execute, ProcMoves
      <4> QED BY <3>1, <4>1
    <3>3. CASE GetBackup(s)
      <4>1. ppc[s] = "get_backup" /\ ppc' = [ppc EXCEPT ![s] = "connect"]
        BY <3>3 DEF GetBackup, ProcMoves
      <4> QED BY <3>1, <4>1
    <3> QED BY <1>15, <3>2, <3>3
  <2>4. Done(pair[b]) = Replicated(pair[b])
    BY <2>1, <2>2, <2>3 DEF Done, Replicated
  <2> QED BY <1>5, <2>1, <2>2, <2>4
\* A backup replicates to nobody, but nobody is paired with it.
<1>16. CASE ReadRole(s)
  <2>1. /\ UNCHANGED <<up, log, flight, done, joined, pair>> /\ up[s] = "up"
        /\ ppc[s] = "replicate"
        /\ ppc' = [ppc EXCEPT ![s] = IF role[s] = "BACKUP" THEN "record" ELSE "get_backup"]
    BY <1>16 DEF ReadRole, ProcMoves, ghosts
  <2>2. up[b] = "up" /\ pair[b] \in Servers /\ pair[b] # NoServer /\ pair[b] # b
    BY <1>2, <1>3, <2>1 DEF IInv, TypeOK
  <2>3. role[s] = "BACKUP" => pair[b] # s
    BY <2>2, PairedBackup DEF IInv, RolesConsistent
  <2>4. Done(pair[b]) = Replicated(pair[b])
    BY <2>1, <2>2, <2>3 DEF Done, Replicated, IInv, TypeOK
  <2> QED BY <1>5, <2>1, <2>2, <2>4
<1>17. CASE Send(s)
  <2> DEFINE x == log[s][done[s] + 1]
             m == [from |-> s, op |-> x]
             t == target[s]
             d == done[s]
             j == joined[b]
  <2>1. /\ UNCHANGED <<up, log, done, joined, pair>> /\ up[s] = "up"
        /\ ppc[s] = "connect" /\ ppc' = [ppc EXCEPT ![s] = "record"]
        /\ flight' = [flight EXCEPT ![t] = Append(@, m)]
    BY <1>17 DEF Send, ProcMoves, ghosts
  <2>2. t \in Servers /\ pair[t] \in {NoServer, s} /\ d < Len(log[s])
    BY <2>1 DEF IInv, ProcessorConsistent
  <2>3. up[b] = "up" /\ pair[b] \in Servers /\ pair[b] # NoServer
    BY <1>2, <2>1 DEF IInv, TypeOK
  <2>4. log[s] \in Seq(Ops) /\ d \in Nat /\ Len(log[s]) \in Nat /\ j \in Nat
    BY ServerTypes DEF IInv
  <2>5. d + 1 \in 1 .. Len(log[s])
    BY <2>2, <2>4
  <2>6. x \in Ops /\ m \in Messages
    BY <2>4, <2>5, ElementOfSeq DEF Messages
  <2>7. CASE pair[b] # s
    <3>1. b # t /\ flight'[b] = flight[b] /\ ppc'[pair[b]] = ppc[pair[b]]
      BY <2>1, <2>2, <2>3, <2>7 DEF IInv, TypeOK
    <3> QED BY <1>5, <1>6, <2>1, <2>3, <3>1
  <2>8. CASE pair[b] = s
    <3>1. Replicated(s) = d /\ Done(s) = d + 1
      BY <2>1 DEF Replicated, Done, IInv, TypeOK
    <3>2. Same(Got0(b), Sent0(b))
      BY <1>3, <2>1, <2>3
    <3>3. IF t = b THEN j <= d ELSE j = d + 1
      BY <2>1, <2>3, <2>8 DEF PairsFollow
    <3>4. Sent0(b) = SubSeq(log[s], j + 1, d) /\ Sent1(b) = SubSeq(log[s], j + 1, d + 1)
      BY <2>1, <2>8, <3>1
    <3>5. CASE t = b
      <4>1. Sent1(b) = Append(Sent0(b), x)
        <5>1. j <= d /\ d < Len(log[s])
          BY <2>2, <3>3, <3>5
        <5>2. SubSeq(log[s], j + 1, d + 1) = Append(SubSeq(log[s], j + 1, d), log[s][d + 1])
          BY <2>4, <5>1, SubSeqExtended
        <5> QED BY <3>4, <5>2
      <4>2. flight[b] \in Seq(Messages) /\ log[b] \in Seq(Ops)
        BY ServerTypes DEF IInv
      <4>3. flight'[b] = Append(flight[b], m) /\ log'[b] = log[b]
        BY <2>1, <3>5 DEF IInv, TypeOK
      <4>4. OpsOf(flight[b]) \in Seq(Ops)
        BY <4>2, OpsOfProperties
      <4>5. OpsOf(flight'[b]) = Append(OpsOf(flight[b]), x)
        BY <2>6, <4>2, <4>3, OpsOfAppend
      <4>6. Got1(b) = Append(Got0(b), x)
        <5>1. log[b] \o Append(OpsOf(flight[b]), x) = Append(log[b] \o OpsOf(flight[b]), x)
          BY <2>6, <4>2, <4>4, QueuedAppend, Zenon
        <5> QED BY <4>3, <4>5, <5>1 DEF Got0, Got1
      <4>7. Got0(b) \in Seq(Ops) /\ Sent0(b) \in Seq(Ops)
        <5>1. j + 1 \in Nat /\ 1 <= j + 1 /\ j + 1 <= d + 1 /\ d <= Len(log[s])
          BY <2>2, <2>4, <3>3, <3>5
        <5>2. SubSeq(log[s], j + 1, d) \in Seq(Ops)
          BY <2>4, <5>1, PartOfSeq
        <5>3. log[b] \o OpsOf(flight[b]) \in Seq(Ops)
          BY <4>2, <4>4, ConcatProperties, Zenon
        <5> QED BY <3>4, <5>2, <5>3 DEF Got0
      <4> HIDE DEF x, Sent0, Sent1
      <4>8. CASE ordered
        BY <3>2, <4>1, <4>6, <4>8 DEF Same
      <4>9. CASE ~ordered
        <5> SUFFICES ASSUME NEW op \in Ops
                     PROVE  Occurrences(op, Got1(b)) = Occurrences(op, Sent1(b))
          BY <4>9 DEF Same
        <5>1. Occurrences(op, Got0(b)) = Occurrences(op, Sent0(b))
          BY <3>2, <4>9 DEF Same
        <5>2. Occurrences(op, Append(Got0(b), x)) = Occurrences(op, Got0(b)) + (IF x = op THEN 1 ELSE 0)
          BY <2>6, <4>7, OccurrencesAppend DEF x
        <5>3. Occurrences(op, Append(Sent0(b), x)) = Occurrences(op, Sent0(b)) + (IF x = op THEN 1 ELSE 0)
          BY <2>6, <4>7, OccurrencesAppend DEF x
        <5> QED BY <4>1, <4>6, <5>1, <5>2, <5>3
      <4> QED BY <4>8, <4>9
    <3>6. CASE t # b
      <4>1. log'[b] = log[b] /\ flight'[b] = flight[b]
        BY <2>1, <3>6 DEF IInv, TypeOK
      <4>2. j + 1 \in Int /\ d \in Int /\ d + 1 \in Int /\ d < j + 1 /\ d + 1 < j + 1
        BY <2>4, <3>3, <3>6
      <4>3. Sent0(b) = <<>> /\ Sent1(b) = <<>>
        BY <3>4, <4>2, SubSeqEmpty
      <4>4. Got1(b) = Got0(b)
        BY <4>1 DEF Got1, Got0
      <4> QED BY <3>2, <4>3, <4>4
    <3> QED BY <3>5, <3>6
  <2> QED BY <2>7, <2>8
<1>18. CASE Record(s)
  <2>1. /\ UNCHANGED <<up, log, flight, joined, pair>>
        /\ ppc[s] = "record" /\ ppc' = [ppc EXCEPT ![s] = "idle"]
        /\ done' = [done EXCEPT ![s] = @ + 1]
    BY <1>18 DEF Record, ProcMoves, ghosts
  <2>2. up[b] = "up" /\ pair[b] \in Servers
    BY <1>2, <2>1 DEF IInv, TypeOK
  <2>3. Done(pair[b]) = Replicated(pair[b])
    BY <2>1, <2>2 DEF Done, Replicated, IInv, TypeOK
  <2> QED BY <1>5, <2>1, <2>2, <2>3
<1> QED
  BY <1>7, <1>8, <1>9, <1>10, <1>11, <1>12, <1>13, <1>14, <1>15, <1>16, <1>17, <1>18
  DEF Environment, Watcher, Processor

-----------------------------------------------------------------------------
(* Each operation once.                                                    *)

\* The parts of EachOnce: one for each server, one for the registered pair.
OnceAt(s) ==
  /\ LogOps(s) \cup FlightOps(s) \subseteq 1 .. Len(given)
  /\ LogOps(s) \cap FlightOps(s) = {}
  /\ \A i, j \in DOMAIN log[s] : log[s][i] = log[s][j] => i = j
  /\ \A i, j \in DOMAIN flight[s] : flight[s][i].op = flight[s][j].op => i = j

NewsTo(p, b) == ToSend(p) \cap (LogOps(b) \cup FlightOps(b)) = {}

OnceEverywhere == \A s \in Servers : OnceAt(s)

NewsToBackup ==
  \A p, b \in Servers : znode.primary = p /\ znode.backup = b /\ p # b => NewsTo(p, b)

\* EachOnce server by server, and between the two servers of a pair.
LEMMA EachOnceParts == TypeOK => (EachOnce <=> OnceEverywhere /\ NewsToBackup)
<1> SUFFICES ASSUME TypeOK PROVE EachOnce <=> OnceEverywhere /\ NewsToBackup
  OBVIOUS
<1>1. znode.primary \in Servers \cup {NoServer} /\ znode.backup \in Servers \cup {NoServer}
  BY DEF TypeOK
<1>2. NewsToBackup <=> (NoServer \notin {znode.primary, znode.backup} /\ znode.primary # znode.backup
                        => NewsTo(znode.primary, znode.backup))
  BY <1>1, ReplicationAssumption DEF NewsToBackup
<1> QED BY <1>2 DEF EachOnce, OnceEverywhere, OnceAt, NewsTo

\* Queues that grow by one new operation.
LEMMA OnceAppended ==
  ASSUME NEW q \in Seq(Ops), NEW x \in Ops, NEW a, a = Append(q, x)
  PROVE  /\ DOMAIN a = 1 .. Len(q) + 1 /\ a[Len(q) + 1] = x
         /\ \A i \in 1 .. Len(q) : a[i] = q[i]
         /\ {a[i] : i \in DOMAIN a} = {q[i] : i \in DOMAIN q} \cup {x}
         /\ (\A i, j \in DOMAIN q : q[i] = q[j] => i = j) /\ x \notin {q[i] : i \in DOMAIN q}
            => \A i, j \in DOMAIN a : a[i] = a[j] => i = j
<1>1. DOMAIN q = 1 .. Len(q) /\ Len(q) \in Nat
  BY LenProperties
<1>2. /\ a \in Seq(Ops) /\ Len(a) = Len(q) + 1
      /\ \A i \in 1 .. Len(q) : a[i] = q[i]
      /\ a[Len(q) + 1] = x
  BY AppendProperties
<1>3. DOMAIN a = 1 .. Len(q) + 1
  BY <1>2, LenProperties
<1>4. 1 .. Len(q) + 1 = 1 .. Len(q) \cup {Len(q) + 1} /\ Len(q) + 1 \notin 1 .. Len(q)
  BY <1>1
<1>5. {a[i] : i \in DOMAIN a} = {q[i] : i \in DOMAIN q} \cup {x}
  BY <1>1, <1>2, <1>3, <1>4
<1>6. (\A i, j \in DOMAIN q : q[i] = q[j] => i = j) /\ x \notin {q[i] : i \in DOMAIN q}
      => \A i, j \in DOMAIN a : a[i] = a[j] => i = j
  BY <1>1, <1>2, <1>3, <1>4
<1> QED BY <1>2, <1>3, <1>5, <1>6

\* Messages in flight without one of them.
LEMMA OnceRemoved ==
  ASSUME NEW f \in Seq(Messages), NEW i \in DOMAIN f,
         \A j, k \in DOMAIN f : f[j].op = f[k].op => j = k,
         NEW r, r = RemoveAt(f, i)
  PROVE  /\ {r[j].op : j \in DOMAIN r} = {f[j].op : j \in DOMAIN f} \ {f[i].op}
         /\ \A j, k \in DOMAIN r : r[j].op = r[k].op => j = k
<1>1. DOMAIN f = 1 .. Len(f) /\ Len(f) \in Nat /\ i \in 1 .. Len(f)
  BY LenProperties
<1>2. r \in Seq(Messages) /\ Len(r) = Len(f) - 1
  BY RemoveAtProperties
<1>3. \A j \in 1 .. Len(f) - 1 : r[j] = IF j < i THEN f[j] ELSE f[j + 1]
  BY <1>1, RemoveAtElements
<1>4. DOMAIN r = 1 .. Len(f) - 1
  BY <1>2, LenProperties
<1>5. \A j \in DOMAIN r : LET k == IF j < i THEN j ELSE j + 1
                          IN k \in DOMAIN f /\ k # i /\ r[j] = f[k]
  BY <1>1, <1>3, <1>4
<1>6. \A k \in DOMAIN f \ {i} : LET j == IF k < i THEN k ELSE k - 1
                                IN j \in DOMAIN r /\ r[j] = f[k]
  BY <1>1, <1>3, <1>4
<1>7. \A j, k \in DOMAIN r :
        (IF j < i THEN j ELSE j + 1) = (IF k < i THEN k ELSE k + 1) => j = k
  BY <1>1, <1>4
<1>8. \A j, k \in DOMAIN r : r[j].op = r[k].op => j = k
  BY <1>5, <1>7
<1>9. {r[j].op : j \in DOMAIN r} \subseteq {f[j].op : j \in DOMAIN f} \ {f[i].op}
  BY <1>5
<1>10. {f[j].op : j \in DOMAIN f} \ {f[i].op} \subseteq {r[j].op : j \in DOMAIN r}
  BY <1>6
<1> QED BY <1>8, <1>9, <1>10

\* A server whose queue no step touches, with no more messages on their way to it.
LEMMA OnceKept ==
  ASSUME NEW t \in Servers, OnceAt(t), log'[t] = log[t], given' = given,
         FlightOps(t)' \subseteq FlightOps(t),
         \A i, j \in DOMAIN flight'[t] : flight'[t][i].op = flight'[t][j].op => i = j
  PROVE  OnceAt(t)'
BY DEF OnceAt, LogOps

\* A primary with no more to send, and a backup with no more than it had.
LEMMA NewsKept ==
  ASSUME IInv, NEW p \in Servers, NEW b \in Servers, NewsTo(p, b),
         log'[p] = log[p], FlightOps(p)' \subseteq FlightOps(p),
         Replicated(p) <= Replicated(p)', Replicated(p)' \in Nat,
         LogOps(b)' \cup FlightOps(b)' \subseteq LogOps(b) \cup FlightOps(b)
  PROVE  NewsTo(p, b)'
<1>1. Len(log[p]) \in Nat /\ Replicated(p) \in Nat
  BY ServerTypes DEF IInv
<1>2. Replicated(p)' + 1 .. Len(log'[p]) \subseteq Replicated(p) + 1 .. Len(log[p])
  BY <1>1
<1>3. ToSend(p)' \subseteq ToSend(p)
  BY <1>2 DEF ToSend
<1> QED BY <1>3 DEF NewsTo

\* What a primary has to send is its own and on its way to no other backup.
LEMMA EachOnceNext ==
  ASSUME IInv, TypeOK', selfSent = {} => EachOnce, NEW s \in Servers,
         Environment(s) \/ Expire(s) \/ Watcher(s) \/ Receive(s) \/ Processor(s)
  PROVE  selfSent' = {} => EachOnce'
<1> USE ReplicationAssumption
<1> SUFFICES ASSUME selfSent' = {} PROVE EachOnce'
  OBVIOUS
<1>1. selfSent \subseteq selfSent'
  BY DEF Environment, Expire, Watcher, Processor, RegisterPrimary, RegisterBackup, Crash,
         ReplicationFails, Dies, Lose, Write, PromoteBackup, SetPromotedRole, DeleteBackup,
         Receive, Execute, ReadRole, GetBackup, Send, Record
<1>2. EachOnce
  BY <1>1
<1>3. \A t \in Servers : OnceAt(t)
  BY <1>2, EachOnceParts DEF IInv, OnceEverywhere
<1>4. \A p, b \in Servers : znode.primary = p /\ znode.backup = b /\ p # b => NewsTo(p, b)
  BY <1>2, EachOnceParts DEF IInv, NewsToBackup
<1>5. \A t \in Servers : Replicated(t) \in Nat /\ Replicated(t)' \in Nat
  <2> TAKE t \in Servers
  <2>1. done[t] \in Nat /\ done'[t] \in Nat
    BY DEF IInv, TypeOK
  <2> QED BY <2>1 DEF Replicated
<1>6. ASSUME \A t \in Servers : OnceAt(t)',
             \A p, b \in Servers :
               znode'.primary = p /\ znode'.backup = b /\ p # b => NewsTo(p, b)'
      PROVE  EachOnce'
  <2>1. OnceEverywhere'
    BY <1>6 DEF OnceEverywhere
  <2>2. NewsToBackup'
    BY <1>6 DEF NewsToBackup
  <2> QED BY <2>1, <2>2, EachOnceParts, PTL
\* Steps that move no operation.
<1>7. ASSUME UNCHANGED <<log, flight, given>>
      PROVE  /\ \A t \in Servers : OnceAt(t)'
             /\ \A t \in Servers : LogOps(t)' = LogOps(t) /\ FlightOps(t)' = FlightOps(t)
  <2>1. \A t \in Servers : LogOps(t)' = LogOps(t) /\ FlightOps(t)' = FlightOps(t)
    BY <1>7 DEF LogOps, FlightOps
  <2>2. \A t \in Servers : OnceAt(t)'
    BY <1>3, <1>7, <2>1 DEF OnceAt
  <2> QED BY <2>1, <2>2
<1>8. ASSUME UNCHANGED <<log, flight>>, NEW p \in Servers, NEW b \in Servers,
             Replicated(p) <= Replicated(p)', NewsTo(p, b)
      PROVE  NewsTo(p, b)'
  <2>1. /\ LogOps(b)' = LogOps(b) /\ FlightOps(b)' = FlightOps(b)
        /\ FlightOps(p)' = FlightOps(p)
    BY <1>8 DEF LogOps, FlightOps
  <2> QED BY <1>5, <1>8, <2>1, NewsKept
<1>9. \A n \in Nat : n <= n /\ n <= n + 1
  OBVIOUS
<1>10. CASE RegisterPrimary(s) \/ RegisterBackup(s)
  <2>1. /\ UNCHANGED <<log, flight, given, done, ppc>> /\ up[s] = "new"
        /\ \/ znode' = [znode EXCEPT !.primary = s]
           \/ znode' = [znode EXCEPT !.backup = s]
    BY <1>10 DEF RegisterPrimary, RegisterBackup, taskVars
  <2>2. log[s] = <<>> /\ flight[s] = <<>>
    BY <2>1 DEF IInv, NewUntouched
  <2>3. /\ LogOps(s)' = {} /\ FlightOps(s)' = {} /\ ToSend(s)' = {}
    <3>1. log'[s] = <<>> /\ flight'[s] = <<>>
      BY <2>1, <2>2
    <3>2. Replicated(s)' + 1 .. Len(log'[s]) = {}
      BY <1>5, <3>1
    <3> QED BY <3>1, <3>2 DEF LogOps, FlightOps, ToSend
  <2>4. ASSUME NEW p \in Servers, NEW b \in Servers,
               znode'.primary = p, znode'.backup = b, p # b
        PROVE  NewsTo(p, b)'
    <3>1. CASE s \in {p, b}
      BY <2>3, <3>1 DEF NewsTo
    <3>2. CASE s \notin {p, b}
      BY <2>1, <2>4, <3>2 DEF IInv, TypeOK
    <3> QED BY <3>1, <3>2
  <2> QED BY <1>6, <1>7, <2>1, <2>4
<1>11. CASE Expire(s)
  <2>1. /\ UNCHANGED <<log, flight, given, done, ppc>>
        /\ znode' = [p \in DOMAIN znode |-> IF znode[p] = s THEN NoServer ELSE znode[p]]
    BY <1>11 DEF Expire, taskVars
  <2>2. ASSUME NEW p \in Servers, NEW b \in Servers,
               znode'.primary = p, znode'.backup = b, p # b
        PROVE  NewsTo(p, b)'
    <3>1. znode.primary = p /\ znode.backup = b
      <4>1. "primary" \in DOMAIN znode /\ "backup" \in DOMAIN znode
        BY DEF IInv, TypeOK
      <4>2. p # NoServer /\ b # NoServer
        OBVIOUS
      <4> QED BY <2>1, <2>2, <4>1, <4>2
    <3>2. Replicated(p)' = Replicated(p)
      BY <2>1 DEF Replicated
    <3> QED BY <1>4, <1>5, <1>8, <1>9, <2>1, <2>2, <3>1, <3>2
  <2> QED BY <1>6, <1>7, <2>1, <2>2
<1>12. CASE PromoteBackup(s) \/ DeleteBackup(s)
  <2>1. UNCHANGED <<log, flight, given>>
    BY <1>12 DEF PromoteBackup, DeleteBackup, taskVars
  <2>2. znode'.backup = NoServer \/ znode'.primary = znode'.backup
    BY <1>12 DEF PromoteBackup, DeleteBackup, IInv, TypeOK
  <2>3. \A p, b \in Servers : ~(znode'.primary = p /\ znode'.backup = b /\ p # b)
    BY <2>2
  <2> QED BY <1>6, <1>7, <2>1, <2>3
<1>13. CASE SetPromotedRole(s) \/ Execute(s) \/ ReadRole(s) \/ GetBackup(s) \/ Record(s)
  <2>1. UNCHANGED <<log, flight, given, znode>>
    BY <1>13 DEF SetPromotedRole, Execute, ReadRole, GetBackup, Record, taskVars
  <2>3. ASSUME NEW p \in Servers PROVE Replicated(p) <= Replicated(p)'
    <3>1. CASE SetPromotedRole(s) \/ Execute(s) \/ ReadRole(s) \/ GetBackup(s)
      <4>1. /\ done' = done
            /\ ppc[s] # "record" \/ ppc' = ppc
            /\ p # s => ppc'[p] = ppc[p]
        <5>1. CASE SetPromotedRole(s)
          BY <5>1 DEF SetPromotedRole, taskVars
        <5>2. CASE Execute(s)
          BY <5>2 DEF Execute, ProcMoves, IInv, TypeOK
        <5>3. CASE ReadRole(s)
          BY <5>3 DEF ReadRole, ProcMoves, IInv, TypeOK
        <5>4. CASE GetBackup(s)
          BY <5>4 DEF GetBackup, ProcMoves, IInv, TypeOK
        <5> QED BY <3>1, <5>1, <5>2, <5>3, <5>4
      <4>2. Replicated(p)' \in {Replicated(p), Replicated(p) + 1}
        BY <4>1 DEF Replicated
      <4> QED BY <1>5, <1>9, <4>2
    <3>2. CASE Record(s)
      <4>1. /\ ppc[s] = "record" /\ ppc' = [ppc EXCEPT ![s] = "idle"]
            /\ done' = [done EXCEPT ![s] = @ + 1]
        BY <3>2 DEF Record, ProcMoves
      <4>2. Replicated(p)' = Replicated(p)
        <5>1. s \in DOMAIN ppc /\ s \in DOMAIN done /\ p \in DOMAIN ppc /\ p \in DOMAIN done
          BY DEF IInv, TypeOK
        <5>2. CASE p = s
          BY <4>1, <5>1, <5>2 DEF Replicated
        <5>3. CASE p # s
          <6>1. ppc'[p] = ppc[p] /\ done'[p] = done[p]
            BY <4>1, <5>1, <5>3
          <6> QED BY <6>1 DEF Replicated
        <5> QED BY <5>2, <5>3
      <4> QED BY <1>5, <1>9, <4>2
    <3> QED BY <1>13, <3>1, <3>2
  <2> QED BY <1>4, <1>6, <1>7, <1>8, <2>1, <2>3
\* Steps that lose messages.
<1>14. ASSUME UNCHANGED <<log, given, znode, done, ppc>>,
              \A t \in Servers : FlightOps(t)' \subseteq FlightOps(t),
              \A t \in Servers : \A i, j \in DOMAIN flight'[t] :
                flight'[t][i].op = flight'[t][j].op => i = j
       PROVE  EachOnce'
  <2>1. \A t \in Servers : OnceAt(t)'
    BY <1>3, <1>14, OnceKept
  <2>2. ASSUME NEW p \in Servers, NEW b \in Servers,
               znode'.primary = p, znode'.backup = b, p # b
        PROVE  NewsTo(p, b)'
    <3>1. Replicated(p)' = Replicated(p) /\ LogOps(b)' = LogOps(b)
      BY <1>14 DEF Replicated, LogOps
    <3>2. LogOps(b)' \cup FlightOps(b)' \subseteq LogOps(b) \cup FlightOps(b)
      BY <1>14, <3>1
    <3>3. NewsTo(p, b)
      BY <1>4, <1>14, <2>2
    <3> QED BY <1>5, <1>9, <1>14, <3>1, <3>2, <3>3, NewsKept
  <2> QED BY <1>6, <2>1, <2>2
<1>15. CASE Crash(s) \/ ReplicationFails(s)
  <2>1. UNCHANGED <<log, given, znode, done, ppc>> /\ flight' = [flight EXCEPT ![s] = <<>>]
    BY <1>15 DEF Crash, ReplicationFails, Dies, taskVars
  <2>2. ASSUME NEW t \in Servers
        PROVE  /\ FlightOps(t)' \subseteq FlightOps(t)
               /\ \A i, j \in DOMAIN flight'[t] : flight'[t][i].op = flight'[t][j].op => i = j
    <3>1. CASE t = s
      <4>1. DOMAIN flight'[t] = {}
        BY <2>1, <3>1 DEF IInv, TypeOK
      <4> QED BY <4>1 DEF FlightOps
    <3>2. CASE t # s
      <4>1. flight'[t] = flight[t]
        BY <2>1, <3>2 DEF IInv, TypeOK
      <4> QED BY <1>3, <4>1 DEF FlightOps, OnceAt
    <3> QED BY <3>1, <3>2
  <2> QED BY <1>14, <2>1, <2>2
<1>16. CASE Lose(s)
  <2>1. PICK i \in DOMAIN flight[s] : flight' = [flight EXCEPT ![s] = RemoveAt(@, i)]
    BY <1>16 DEF Lose
  <2>2. UNCHANGED <<log, given, znode, done, ppc>>
    BY <1>16 DEF Lose, taskVars
  <2>3. ASSUME NEW t \in Servers
        PROVE  /\ FlightOps(t)' \subseteq FlightOps(t)
               /\ \A j, k \in DOMAIN flight'[t] : flight'[t][j].op = flight'[t][k].op => j = k
    <3>1. CASE t = s
      <4>1. flight'[t] = RemoveAt(flight[t], i) /\ flight[t] \in Seq(Messages)
        BY <2>1, <3>1 DEF IInv, TypeOK
      <4>2. /\ {flight'[t][j].op : j \in DOMAIN flight'[t]} \subseteq {flight[t][j].op : j \in DOMAIN flight[t]}
            /\ \A j, k \in DOMAIN flight'[t] : flight'[t][j].op = flight'[t][k].op => j = k
        <5>1. \A j, k \in DOMAIN flight[t] : flight[t][j].op = flight[t][k].op => j = k
          BY <1>3 DEF OnceAt
        <5>2. i \in DOMAIN flight[t]
          BY <2>1, <3>1
        <5>3. {flight'[t][j].op : j \in DOMAIN flight'[t]}
                = {flight[t][j].op : j \in DOMAIN flight[t]} \ {flight[t][i].op}
          BY <4>1, <5>1, <5>2, OnceRemoved, Zenon
        <5>4. \A j, k \in DOMAIN flight'[t] : flight'[t][j].op = flight'[t][k].op => j = k
          BY <4>1, <5>1, <5>2, OnceRemoved, Zenon
        <5> QED BY <5>3, <5>4
      <4> QED BY <4>2 DEF FlightOps
    <3>2. CASE t # s
      <4>1. flight'[t] = flight[t]
        BY <2>1, <3>2 DEF IInv, TypeOK
      <4> QED BY <1>3, <4>1 DEF FlightOps, OnceAt
    <3> QED BY <3>1, <3>2
  <2> QED BY <1>14, <2>2, <2>3
\* Steps that add an operation or move it.
<1>17. ASSUME NEW t \in Servers, log'[t] = log[t], flight'[t] = flight[t],
              given' = given \/ Len(given') = Len(given) + 1
       PROVE  OnceAt(t)' /\ LogOps(t)' = LogOps(t) /\ FlightOps(t)' = FlightOps(t)
  <2>1. Len(given) \in Nat
    BY LenProperties DEF IInv, TypeOK
  <2>2. 1 .. Len(given) \subseteq 1 .. Len(given')
    BY <1>17, <2>1
  <2>3. LogOps(t)' = LogOps(t) /\ FlightOps(t)' = FlightOps(t)
    BY <1>17 DEF LogOps, FlightOps
  <2>4. OnceAt(t)
    BY <1>3
  <2> QED BY <1>17, <2>2, <2>3, <2>4 DEF OnceAt
<1>18. CASE Write(s)
  <2> DEFINE n == Len(given) + 1
             g == [by |-> s, id |-> Len(log[s])]
  <2>1. /\ log' = [log EXCEPT ![s] = Append(@, n)] /\ given' = Append(given, g)
        /\ UNCHANGED <<flight, znode, done, ppc>>
    BY <1>18 DEF Write, Queue
  <2>2. log[s] \in Seq(Ops) /\ Len(log[s]) \in Nat /\ Len(given) \in Nat
    BY ServerTypes, LenProperties DEF IInv, TypeOK
  <2>3. n \in Ops
    BY <1>18, <2>2 DEF Write, Ops
  <2>4. Len(given') = n
    <3>1. given \in Seq([by: Servers, id: Nat]) /\ g \in [by: Servers, id: Nat]
      BY <2>2 DEF IInv, TypeOK
    <3> QED BY <2>1, <3>1, AppendProperties
  <2>5. n \notin 1 .. Len(given) /\ n \in 1 .. n /\ 1 .. Len(given) \subseteq 1 .. n
    BY <2>2
  <2>6. log'[s] = Append(log[s], n) /\ flight'[s] = flight[s]
    BY <2>1 DEF IInv, TypeOK
  <2> HIDE DEF n
  <2>7. /\ DOMAIN log'[s] = 1 .. Len(log[s]) + 1 /\ log'[s][Len(log[s]) + 1] = n
        /\ \A i \in 1 .. Len(log[s]) : log'[s][i] = log[s][i]
        /\ {log'[s][i] : i \in DOMAIN log'[s]} = {log[s][i] : i \in DOMAIN log[s]} \cup {n}
        /\ (\A i, j \in DOMAIN log[s] : log[s][i] = log[s][j] => i = j)
           /\ n \notin {log[s][i] : i \in DOMAIN log[s]}
           => \A i, j \in DOMAIN log'[s] : log'[s][i] = log'[s][j] => i = j
    BY <2>2, <2>3, <2>6, OnceAppended, Zenon
  <2>8. LogOps(s)' = LogOps(s) \cup {n} /\ FlightOps(s)' = FlightOps(s)
    BY <2>6, <2>7 DEF LogOps, FlightOps
  <2>9. n \notin LogOps(s) \cup FlightOps(s)
    BY <1>3, <2>5 DEF OnceAt
  <2>10. OnceAt(s)'
    <3>1. OnceAt(s)
      BY <1>3
    <3>2. \A i, j \in DOMAIN log'[s] : log'[s][i] = log'[s][j] => i = j
      BY <2>7, <2>9, <3>1 DEF OnceAt, LogOps
    <3> QED BY <2>4, <2>5, <2>6, <2>8, <2>9, <3>1, <3>2 DEF OnceAt
  <2>11. \A t \in Servers \ {s} : log'[t] = log[t] /\ flight'[t] = flight[t]
    BY <2>1 DEF IInv, TypeOK
  <2>12. \A t \in Servers \ {s} :
           OnceAt(t)' /\ LogOps(t)' = LogOps(t) /\ FlightOps(t)' = FlightOps(t)
    BY <1>17, <2>4, <2>11 DEF n
  <2>13. ASSUME NEW p \in Servers, NEW b \in Servers,
                znode'.primary = p, znode'.backup = b, p # b
         PROVE  NewsTo(p, b)'
    <3>1. p = s /\ NewsTo(p, b) /\ b \in Servers \ {s}
      BY <1>4, <1>18, <2>1, <2>13 DEF Write
    <3>2. Replicated(s)' = Replicated(s)
      BY <2>1 DEF Replicated
    <3>3. Len(log'[s]) = Len(log[s]) + 1
      BY <2>2, <2>3, <2>6, AppendProperties
    <3>4. {log'[s][i] : i \in Replicated(s) + 1 .. Len(log[s]) + 1}
            \subseteq {log[s][i] : i \in Replicated(s) + 1 .. Len(log[s])} \cup {n}
      <4>1. \A i \in Replicated(s) + 1 .. Len(log[s]) + 1 :
              \/ i \in Replicated(s) + 1 .. Len(log[s]) /\ i \in 1 .. Len(log[s])
              \/ i = Len(log[s]) + 1
        BY <1>5, <2>2
      <4> QED BY <2>7, <4>1
    <3>5. ToSend(s)' \subseteq ToSend(s) \cup {n}
      BY <2>8, <3>2, <3>3, <3>4 DEF ToSend
    <3>6. n \notin LogOps(b) \cup FlightOps(b)
      BY <1>3, <2>5, <3>1 DEF OnceAt
    <3> QED BY <2>12, <3>1, <3>5, <3>6 DEF NewsTo
  <2> QED BY <1>6, <2>10, <2>12, <2>13
<1>19. CASE Receive(s)
  <2>1. PICK i \in DOMAIN flight[s] :
          /\ log' = [log EXCEPT ![s] = Append(@, flight[s][i].op)]
          /\ flight' = [flight EXCEPT ![s] = RemoveAt(@, i)]
    BY <1>19 DEF Receive, Queue
  <2>2. UNCHANGED <<given, znode, done, ppc>>
    BY <1>19 DEF Receive
  <2> DEFINE x == flight[s][i].op
  <2>3. /\ log[s] \in Seq(Ops) /\ flight[s] \in Seq(Messages) /\ x \in Ops
        /\ Len(log[s]) \in Nat
    BY <2>1, ServerTypes, OpsOfProperties DEF IInv
  <2>4. log'[s] = Append(log[s], x) /\ flight'[s] = RemoveAt(flight[s], i)
    BY <2>1 DEF IInv, TypeOK
  <2>5. OnceAt(s) /\ x \in FlightOps(s)
    BY <1>3 DEF FlightOps
  <2>6. x \notin LogOps(s) /\ x \in 1 .. Len(given)
    BY <2>5 DEF OnceAt
  <2>7. /\ {flight'[s][j].op : j \in DOMAIN flight'[s]}
             = {flight[s][j].op : j \in DOMAIN flight[s]} \ {x}
        /\ \A j, k \in DOMAIN flight'[s] : flight'[s][j].op = flight'[s][k].op => j = k
    <3>1. \A j, k \in DOMAIN flight[s] : flight[s][j].op = flight[s][k].op => j = k
      BY <2>5 DEF OnceAt
    <3> QED BY <2>1, <2>3, <2>4, <3>1, OnceRemoved, Zenon
  <2> HIDE DEF x
  <2>8. /\ DOMAIN log'[s] = 1 .. Len(log[s]) + 1 /\ log'[s][Len(log[s]) + 1] = x
        /\ \A j \in 1 .. Len(log[s]) : log'[s][j] = log[s][j]
        /\ {log'[s][j] : j \in DOMAIN log'[s]} = {log[s][j] : j \in DOMAIN log[s]} \cup {x}
        /\ (\A j, k \in DOMAIN log[s] : log[s][j] = log[s][k] => j = k)
           /\ x \notin {log[s][j] : j \in DOMAIN log[s]}
           => \A j, k \in DOMAIN log'[s] : log'[s][j] = log'[s][k] => j = k
    <3>1. log[s] \in Seq(Ops) /\ x \in Ops /\ log'[s] = Append(log[s], x)
      BY <2>3, <2>4
    <3> QED BY <3>1, OnceAppended, Zenon
  <2>9. LogOps(s)' = LogOps(s) \cup {x} /\ FlightOps(s)' = FlightOps(s) \ {x}
    BY <2>7, <2>8 DEF LogOps, FlightOps
  <2>10. OnceAt(s)'
    <3>1. \A j, k \in DOMAIN log'[s] : log'[s][j] = log'[s][k] => j = k
      BY <2>5, <2>6, <2>8 DEF OnceAt, LogOps
    <3> QED BY <2>2, <2>5, <2>6, <2>7, <2>9, <3>1 DEF OnceAt
  <2>11. \A t \in Servers \ {s} : log'[t] = log[t] /\ flight'[t] = flight[t]
    BY <2>1 DEF IInv, TypeOK
  <2>12. \A t \in Servers \ {s} :
           OnceAt(t)' /\ LogOps(t)' = LogOps(t) /\ FlightOps(t)' = FlightOps(t)
    BY <1>17, <2>2, <2>11
  <2>13. \A b \in Servers : LogOps(b)' \cup FlightOps(b)' = LogOps(b) \cup FlightOps(b)
    BY <2>5, <2>9, <2>12
  <2>14. \A p \in Servers : ToSend(p)' \subseteq ToSend(p)
    <3> TAKE p \in Servers
    <3>1. Replicated(p)' = Replicated(p)
      BY <2>2 DEF Replicated
    <3>2. CASE p # s
      BY <2>11, <2>12, <3>1, <3>2 DEF ToSend
    <3>3. CASE p = s
      <4>1. Len(log'[s]) = Len(log[s]) + 1
        BY <2>3, <2>4, AppendProperties
      <4>2. {log'[s][j] : j \in Replicated(s) + 1 .. Len(log[s]) + 1}
              \subseteq {log[s][j] : j \in Replicated(s) + 1 .. Len(log[s])} \cup {x}
        <5>1. \A j \in Replicated(s) + 1 .. Len(log[s]) + 1 :
                \/ j \in Replicated(s) + 1 .. Len(log[s]) /\ j \in 1 .. Len(log[s])
                \/ j = Len(log[s]) + 1
          BY <1>5, <2>3
        <5> QED BY <2>8, <5>1
      <4> QED BY <2>5, <2>9, <3>1, <3>3, <4>1, <4>2 DEF ToSend
    <3> QED BY <3>2, <3>3
  <2>15. ASSUME NEW p \in Servers, NEW b \in Servers,
                znode'.primary = p, znode'.backup = b, p # b
         PROVE  NewsTo(p, b)'
    <3>1. NewsTo(p, b)
      BY <1>4, <2>2, <2>15
    <3>2. NewsTo(p, b)' <=> ToSend(p)' \cap (LogOps(b)' \cup FlightOps(b)') = {}
      BY DEF NewsTo
    <3> QED BY <2>13, <2>14, <3>1, <3>2 DEF NewsTo
  <2> QED BY <1>6, <2>10, <2>12, <2>15
<1>20. CASE Send(s)
  <2>0. PICK t \in Servers : t = target[s]
    BY <1>20 DEF Send, ProcMoves, IInv, ProcessorConsistent
  <2> DEFINE d == done[s]
             x == log[s][d + 1]
             m == [from |-> s, op |-> x]
  <2>1. /\ UNCHANGED <<log, given, znode, done>>
        /\ up[s] = "up" /\ ppc[s] = "connect" /\ ppc' = [ppc EXCEPT ![s] = "record"]
        /\ up[t] = "up" /\ flight' = [flight EXCEPT ![t] = Append(@, m)] /\ t # s
    BY <1>20, <2>0 DEF Send, ProcMoves
  <2>2. d < Len(log[s]) /\ role[s] = "PRIMARY" /\ znode.primary = s
    BY <2>1 DEF IInv, ProcessorConsistent, RolesConsistent
  <2>3. znode.backup = t
    <3>1. role[t] # "PRIMARY"
      BY <2>1, <2>2 DEF IInv, RolesConsistent
    <3> QED BY <2>1, <2>2, <3>1 DEF IInv, TypeOK, RolesConsistent
  <2>4. log[s] \in Seq(Ops) /\ d \in Nat /\ Len(log[s]) \in Nat /\ DOMAIN log[s] = 1 .. Len(log[s])
    BY ServerTypes DEF IInv
  <2>5. d + 1 \in 1 .. Len(log[s])
    BY <2>2, <2>4
  <2>6. x \in Ops /\ m \in Messages
    BY <2>4, <2>5, ElementOfSeq DEF Messages
  <2>7. Replicated(s) = d /\ Replicated(s)' = d + 1 /\ \A p \in Servers \ {s} : Replicated(p)' = Replicated(p)
    BY <2>1 DEF Replicated, IInv, TypeOK
  <2>8. x \in LogOps(s) /\ x \in ToSend(s)
    <3>1. d + 1 \in Replicated(s) + 1 .. Len(log[s])
      BY <2>4, <2>5, <2>7
    <3> QED BY <2>4, <2>5, <3>1 DEF LogOps, ToSend
  <2>9. x \notin LogOps(t) \cup FlightOps(t) /\ NewsTo(s, t)
    BY <1>4, <2>1, <2>2, <2>3, <2>8 DEF NewsTo
  <2>10. flight'[t] = Append(flight[t], m) /\ \A p \in Servers \ {t} : flight'[p] = flight[p]
    BY <2>1 DEF IInv, TypeOK
  <2>11. /\ DOMAIN flight'[t] = 1 .. Len(flight[t]) + 1 /\ flight'[t][Len(flight[t]) + 1].op = x
         /\ \A i \in 1 .. Len(flight[t]) : flight'[t][i] = flight[t][i]
         /\ DOMAIN flight[t] = 1 .. Len(flight[t]) /\ Len(flight[t]) \in Nat
    <3>1. /\ flight[t] \in Seq(Messages) /\ DOMAIN flight[t] = 1 .. Len(flight[t])
          /\ Len(flight[t]) \in Nat
      BY <2>2, ServerTypes DEF IInv
    <3>2. /\ Append(flight[t], m) \in Seq(Messages)
          /\ Len(Append(flight[t], m)) = Len(flight[t]) + 1
          /\ \A i \in 1 .. Len(flight[t]) : Append(flight[t], m)[i] = flight[t][i]
          /\ Append(flight[t], m)[Len(flight[t]) + 1] = m
      BY <2>6, <3>1, AppendProperties
    <3> QED BY <2>10, <3>1, <3>2, LenProperties
  <2> HIDE DEF x, m, d
  <2>12. \A i \in 1 .. Len(flight[t]) + 1 : i \in 1 .. Len(flight[t]) \/ i = Len(flight[t]) + 1
    BY <2>11
  <2>13. \A i \in 1 .. Len(flight[t]) : i \in 1 .. Len(flight[t]) + 1
    BY <2>11
  <2>14. Len(flight[t]) + 1 \in 1 .. Len(flight[t]) + 1
    BY <2>11
  <2>15. FlightOps(t)' = FlightOps(t) \cup {x}
    BY <2>11, <2>12, <2>13, <2>14 DEF FlightOps
  <2>16. LogOps(t)' = LogOps(t)
    BY <2>1 DEF LogOps
  <2>17. OnceAt(s) /\ OnceAt(t)
    BY <1>3, <2>2
  <2>18. \A i, j \in DOMAIN flight'[t] : flight'[t][i].op = flight'[t][j].op => i = j
    <3>1. \A i \in 1 .. Len(flight[t]) : flight'[t][i].op # x
      BY <2>9, <2>11 DEF FlightOps
    <3> QED BY <2>11, <2>12, <2>17, <3>1 DEF OnceAt
  <2>19. x \in 1 .. Len(given)
    BY <2>8, <2>17 DEF OnceAt
  <2>20. OnceAt(t)'
    BY <2>1, <2>9, <2>15, <2>16, <2>17, <2>18, <2>19 DEF OnceAt
  <2>21. \A p \in Servers \ {t} : OnceAt(p)'
    BY <1>17, <2>1, <2>10
  <2>22. ToSend(s)' \subseteq ToSend(s) \ {x}
    <3>1. FlightOps(s)' = FlightOps(s)
      BY <2>1, <2>2, <2>10 DEF FlightOps
    <3>2. x \notin FlightOps(s)
      BY <2>8, <2>17 DEF OnceAt
    <3>3. \A i \in d + 1 + 1 .. Len(log[s]) :
            i \in d + 1 .. Len(log[s]) /\ i \in DOMAIN log[s] /\ i # d + 1 /\ d + 1 \in DOMAIN log[s]
      BY <2>4, <2>5
    <3>4. \A i \in d + 1 + 1 .. Len(log[s]) : log[s][i] # x
      BY <2>17, <3>3 DEF OnceAt, x
    <3> QED BY <2>1, <2>7, <3>1, <3>2, <3>3, <3>4 DEF ToSend
  <2>23. NewsTo(s, t)'
    <3>1. NewsTo(s, t)' <=> ToSend(s)' \cap (LogOps(t)' \cup FlightOps(t)') = {}
      BY DEF NewsTo
    <3> QED BY <2>9, <2>15, <2>16, <2>22, <3>1 DEF NewsTo
  <2>24. \A p, b \in Servers :
           znode'.primary = p /\ znode'.backup = b /\ p # b => NewsTo(p, b)'
    BY <2>1, <2>2, <2>3, <2>23
  <2> QED BY <1>6, <2>20, <2>21, <2>24
<1> QED
  BY <1>10, <1>11, <1>12, <1>13, <1>15, <1>16, <1>18, <1>19, <1>20
  DEF Environment, Watcher, Processor

-----------------------------------------------------------------------------
(* The theorems.                                                           *)

\* At the start no server runs and nothing was queued or sent.
LEMMA OrderInit == Init => OrderInv
<1> SUFFICES ASSUME Init PROVE OrderInv
  OBVIOUS
<1>1. IInv
  BY InvariantInit
<1>2. PairsFollow /\ BackupFollows
  BY DEF Init, PairsFollow, BackupFollows
<1>3. DOMAIN given = {} /\ Len(given) = 0
  BY EmptySeq DEF Init
<1>4. IdentifiersKept
  BY <1>3 DEF IdentifiersKept
<1>5. EachOnce
  <2>1. \A s \in Servers : log[s] = <<>> /\ flight[s] = <<>> /\ DOMAIN log[s] = {} /\ DOMAIN flight[s] = {}
    BY DEF Init
  <2>2. \A s \in Servers : LogOps(s) = {} /\ FlightOps(s) = {}
    BY <2>1 DEF LogOps, FlightOps
  <2> QED BY <2>1, <2>2 DEF Init, EachOnce
<1> QED BY <1>1, <1>2, <1>4, <1>5 DEF OrderInv

\* Every step of the servers, of their processors and of the clients keeps the order.
LEMMA OrderNext == OrderInv /\ [Next]_vars => OrderInv'
<1> SUFFICES ASSUME OrderInv, [Next]_vars PROVE OrderInv'
  OBVIOUS
<1>1. IInv'
  BY InvariantNext DEF OrderInv
<1>2. CASE Next
  <2>1. PICK s \in Servers :
          Environment(s) \/ Expire(s) \/ Watcher(s) \/ Receive(s) \/ Processor(s)
    BY <1>2 DEF Next
  <2>2. TypeOK'
    BY <1>1 DEF IInv
  <2>3. PairsFollow' /\ BackupFollows' /\ IdentifiersKept'
    BY <2>1, PairsFollowNext, BackupFollowsNext, IdentifiersNext DEF OrderInv
  <2>4. selfSent' = {} => EachOnce'
    BY <2>1, <2>2, EachOnceNext DEF OrderInv
  <2> QED BY <1>1, <2>3, <2>4 DEF OrderInv
<1>3. CASE UNCHANGED vars
  <2>1. /\ UNCHANGED <<up, znode, log, done, ppc, target, flight, ordered, given, pair, joined>>
        /\ UNCHANGED <<hostLost, selfSent>>
    BY <1>3 DEF vars, taskVars, ghosts
  <2>2. PairsFollow'
    BY <2>1 DEF OrderInv, PairsFollow, Addressed
  <2>3. BackupFollows'
    <3>1. /\ \A b \in Servers : Got(b)' = Got(b) /\ SentTo(b)' = SentTo(b)
          /\ \A b \in Servers, op \in Ops : /\ Occurrences(op, Got(b))' = Occurrences(op, Got(b))
                                           /\ Occurrences(op, SentTo(b))' = Occurrences(op, SentTo(b))
      <4>1. \A b \in Servers : Got(b)' = Got(b) /\ SentTo(b)' = SentTo(b)
        BY <2>1, Zenon DEF Got, SentTo, Replicated
      <4> QED BY <4>1, Zenon DEF Occurrences
    <3> QED BY <2>1, <3>1, Zenon DEF OrderInv, BackupFollows
  <2>4. IdentifiersKept'
    BY <2>1 DEF OrderInv, IdentifiersKept
  <2>5. selfSent' = {} => EachOnce'
    <3> SUFFICES ASSUME selfSent = {} PROVE EachOnce'
      BY <2>1
    <3>1. OnceEverywhere /\ NewsToBackup /\ TypeOK'
      BY <1>1, EachOnceParts DEF OrderInv, IInv
    <3>2. \A t \in Servers : LogOps(t)' = LogOps(t) /\ FlightOps(t)' = FlightOps(t)
      BY <2>1, Zenon DEF LogOps, FlightOps
    <3>3. \A t \in Servers : ToSend(t)' = ToSend(t)
      BY <2>1, Zenon DEF ToSend, FlightOps, Replicated
    <3>4. OnceEverywhere'
      BY <2>1, <3>1, <3>2 DEF OnceEverywhere, OnceAt
    <3>5. \A p, b \in Servers : NewsTo(p, b) => NewsTo(p, b)'
      <4> SUFFICES ASSUME NEW p \in Servers, NEW b \in Servers, NewsTo(p, b) PROVE NewsTo(p, b)'
        OBVIOUS
      <4>1. NewsTo(p, b)' <=> ToSend(p)' \cap (LogOps(b)' \cup FlightOps(b)') = {}
        BY DEF NewsTo
      <4> QED BY <3>2, <3>3, <4>1 DEF NewsTo
    <3>6. NewsToBackup'
      BY <2>1, <3>1, <3>5 DEF NewsToBackup
    <3> QED BY <3>1, <3>4, <3>6, EachOnceParts, PTL
  <2> QED BY <1>1, <2>2, <2>3, <2>4, <2>5 DEF OrderInv
<1> QED BY <1>2, <1>3

\* The inductive invariant: who is paired with whom and what each has been sent.
THEOREM OrderHolds == Spec => []OrderInv
BY OrderInit, OrderNext, PTL DEF Spec

\* While a backup stays with its primary, it has been sent exactly what the primary
\* replicated since it registered, in that order if the network keeps it.
THEOREM FollowsPrimary == Spec => []BackupFollows
<1>1. OrderInv => BackupFollows
  BY DEF OrderInv
<1> QED BY <1>1, OrderHolds, PTL

\* A result recorded by the backup is that of the task with the same identifier.
LEMMA OrderReads == OrderInv => ReadsVerifiedWrites
<1> SUFFICES ASSUME OrderInv, NEW op \in DOMAIN given,
                    znode.backup # NoServer, ordered,
                    pair[znode.backup] = given[op].by, joined[znode.backup] = 0,
                    pair[znode.backup] \notin hostLost,
                    Verified(op), up[znode.backup] = "up"
             PROVE  \E i \in 1 .. done[znode.backup] : log[znode.backup][i] = op
  BY DEF ReadsVerifiedWrites
<1> DEFINE b == znode.backup
           p == given[op].by
           id == given[op].id
           q == log[b]
           o == OpsOf(flight[b])
           n == Replicated(p)
<1>1. IInv
  BY DEF OrderInv
<1>2. given[op] \in [by: Servers, id: Nat]
  <2>1. given \in Seq([by: Servers, id: Nat])
    BY <1>1 DEF IInv, TypeOK
  <2>2. op \in 1 .. Len(given)
    BY <2>1, LenProperties
  <2> QED BY <2>1, <2>2, ElementOfSeq
<1>3. b \in Servers /\ p \in Servers /\ id \in Nat /\ pair[b] = p /\ p # NoServer
  BY <1>1, <1>2, ReplicationAssumption DEF IInv, TypeOK
<1>4. id < Len(log[p]) /\ log[p][id + 1] = op
  BY DEF OrderInv, IdentifiersKept
<1>5. done[b] > id
  BY DEF Verified
<1>6. log[b] \o OpsOf(flight[b]) = SubSeq(log[p], joined[b] + 1, Replicated(p))
  BY <1>3 DEF OrderInv, BackupFollows, Got, SentTo, OpsOf
<1>7. joined[b] + 1 = 1
  OBVIOUS
<1>8. q \o o = SubSeq(log[p], 1, n)
  BY <1>6, <1>7
<1> HIDE DEF id, p, b
<1>9. /\ log[b] \in Seq(Ops) /\ Len(log[b]) \in Nat /\ done[b] \in Nat /\ done[b] <= Len(log[b])
      /\ flight[b] \in Seq(Messages) /\ log[p] \in Seq(Ops) /\ n \in Nat /\ n <= Len(log[p])
      /\ Len(log[p]) \in Nat
  BY <1>1, <1>3, ServerTypes, ReplicatedQueued DEF IInv, ProcessorConsistent
<1>10. o \in Seq(Ops) /\ Len(o) \in Nat
  BY <1>9, OpsOfProperties, LenProperties
<1>11. /\ SubSeq(log[p], 1, n) \in Seq(Ops) /\ Len(SubSeq(log[p], 1, n)) = n
       /\ \A i \in 1 .. n : SubSeq(log[p], 1, n)[i] = log[p][i]
  <2>1. 1 \in Nat /\ 1 <= 1 /\ 1 <= n + 1 /\ n + 1 - 1 = n /\ \A i \in 1 .. n : 1 + i - 1 = i
    BY <1>9
  <2>2. /\ SubSeq(log[p], 1, n) \in Seq(Ops) /\ Len(SubSeq(log[p], 1, n)) = n + 1 - 1
        /\ \A i \in 1 .. n + 1 - 1 : SubSeq(log[p], 1, n)[i] = log[p][1 + i - 1]
    BY <1>9, <2>1, PartOfSeq
  <2> QED BY <2>1, <2>2
<1> HIDE DEF o, n
<1>12. /\ Len(q \o o) = Len(q) + Len(o)
       /\ \A i \in 1 .. Len(q) + Len(o) : (q \o o)[i] = IF i <= Len(q) THEN q[i] ELSE o[i - Len(q)]
  BY <1>9, <1>10, ConcatProperties
<1>13. Len(q) + Len(o) = n
  BY <1>8, <1>11, <1>12
<1>14. id + 1 \in 1 .. done[b] /\ id + 1 \in 1 .. Len(q) + Len(o) /\ id + 1 <= Len(q) /\ id + 1 \in 1 .. n
  BY <1>3, <1>5, <1>9, <1>10, <1>13
<1>15. q[id + 1] = log[p][id + 1]
  BY <1>8, <1>11, <1>12, <1>14
<1>16. log[p][id + 1] = op
  BY <1>4 DEF p, id
<1> QED BY <1>14, <1>15, <1>16 DEF b

\* Where connections keep their order, a client reads at the backup what the backup
\* confirmed to have executed.
THEOREM VerifiedIsReadable == Spec => []ReadsVerifiedWrites
BY OrderHolds, OrderReads, PTL

\* Unless a server sent a task to itself, no server queues an operation twice.
THEOREM NothingQueuedTwice == Spec => []QueuedOnce
<1>1. OrderInv => QueuedOnce
  <2> SUFFICES ASSUME OrderInv, selfSent = {}, NEW s \in Servers, NEW op \in Ops
               PROVE  Occurrences(op, log[s]) <= 1
    BY DEF QueuedOnce
  <2>1. log[s] \in Seq(Ops)
    BY ServerTypes DEF OrderInv, IInv
  <2>2. \A i, j \in DOMAIN log[s] : log[s][i] = log[s][j] => i = j
    BY DEF OrderInv, EachOnce
  <2> QED BY <2>1, <2>2, OccurrencesOnce
<1> QED BY <1>1, OrderHolds, PTL
=============================================================================
