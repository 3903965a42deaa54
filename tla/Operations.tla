----------------------------- MODULE Operations -----------------------------
(***************************************************************************)
(* The requests that a tree_server understands, the responses it gives and *)
(* what its operations do to the map that the tree stores: the dispatch of *)
(* invoke2 (source/server/tree_skel.c) and the promises of the functions   *)
(* of source/tree.c.  Names, values and the text of messages are abstract. *)
(***************************************************************************)
EXTENDS Integers, FiniteSets

CONSTANTS
  Keys,      \* the keys of entries
  Values,    \* the values of entries
  NoValue,   \* what tree_get answers for a key that is not in the tree
  MaxTasks   \* bound: the identifiers of tasks are below it

ASSUME OperationsAssumption ==
  NoValue \notin Values /\ MaxTasks \in Nat /\ IsFiniteSet(Keys)

-----------------------------------------------------------------------------
(* Requests and responses.                                                 *)

Puts     == [op: {"PUT"}, key: Keys, value: Values]
Dels     == [op: {"DEL"}, key: Keys]
Writes   == Puts \cup Dels
Gets     == [op: {"GET"}, key: Keys]
Wholes   == [op: {"SIZE", "HEIGHT", "GETKEYS"}]
Verifies == [op: {"VERIFY"}, id: -1 .. MaxTasks]
\* Any pair of op_code and content_case that invoke2 has no branch for.
Unknowns == [op: {"BAD"}]
Requests == Writes \cup Gets \cup Wholes \cup Verifies \cup Unknowns

Responses == [op: {"VALUE"}, value: Values \cup {NoValue}]
             \cup [op: {"INT"}, int: Int]
             \cup [op: {"KEYS"}, keys: SUBSET Keys]
             \cup [op: {"OP_ID"}, id: Int]
             \cup [op: {"ERROR"}]

\* A write-operation with the identifier it was answered with.
Tasks == [id: Nat, write: Writes]

NoMessage    == [op |-> "NONE"]
ErrorMessage == [op |-> "ERROR"]

-----------------------------------------------------------------------------
(* The tree, as the map it stores.                                         *)

EmptyStore == [k \in Keys |-> NoValue]
StoredKeys(s) == {k \in Keys : s[k] # NoValue}

\* tree_put and tree_del: what a write-operation does to the map.
Apply(s, w) == [s EXCEPT ![w.key] = IF w.op = "PUT" THEN w.value ELSE NoValue]

\* tree_del fails when the tree has no root.
WriteFails(s, w) == w.op = "DEL" /\ StoredKeys(s) = {}

\* The heights that a binary tree with n nodes can have: -1 when it is empty, and a
\* full tree of that height has no fewer nodes.
Heights(n) ==
  LET full[h \in -1 .. n] == IF h = -1 THEN 0 ELSE 2 * full[h - 1] + 1
  IN {h \in -1 .. n - 1 : n <= full[h]}

\* The answers to a read-operation.
Answers(s, r) ==
  CASE r.op = "GET"     -> {[op |-> "VALUE", value |-> s[r.key]]}
    [] r.op = "SIZE"    -> {[op |-> "INT", int |-> Cardinality(StoredKeys(s))]}
    [] r.op = "HEIGHT"  -> [op: {"INT"}, int: Heights(Cardinality(StoredKeys(s)))]
    [] r.op = "GETKEYS" -> {[op |-> "KEYS", keys |-> StoredKeys(s)]}
=============================================================================
