----------------------------- MODULE BinaryTree -----------------------------
(***************************************************************************)
(* The binary search tree of source/tree.c, with its nodes and pointers,   *)
(* and its conversion to and from a buffer (source/serialization.c).       *)
(*                                                                         *)
(* A tree_t is a record with the nodes that are allocated in heap.  A      *)
(* tree_node_t** is a location: the root field of the tree, or the left or *)
(* right field of a node.  Loops and recursions are recursive functions.   *)
(***************************************************************************)
EXTENDS Messages, FiniteSets

CONSTANT Nodes  \* the addresses that malloc gives to nodes

ASSUME BinaryTreeAssumption == IsFiniteSet(Nodes) /\ NULL \notin Nodes

tree_create == [heap |-> [n \in {} |-> NULL], root |-> NULL, size |-> 0, height |-> -1]

Free(t) == Nodes \ DOMAIN t.heap

-----------------------------------------------------------------------------
(* Locations.                                                              *)

Root == [node |-> NULL, field |-> "root"]
Field(n, field) == [node |-> n, field |-> field]

At(t, p) == IF p = Root THEN t.root ELSE t.heap[p.node][p.field]

Assign(t, p, n) ==
  IF p = Root THEN [t EXCEPT !.root = n] ELSE [t EXCEPT !.heap[p.node][p.field] = n]

\* The locations that a search for the key passes, one comparison after the other;
\* it stays at the node with the key or at the NULL where it would be.
Search(t, key) ==
  LET at[i \in 0 .. Cardinality(Nodes)] ==
        IF i = 0 THEN Root
        ELSE LET p == at[i - 1]
                 n == At(t, p)
                 comparison == key_compare(key, t.heap[n].entry.key)
             IN IF n = NULL \/ comparison = 0 THEN p
                ELSE Field(n, IF comparison < 0 THEN "left" ELSE "right")
  IN at

Location(t, key) == Search(t, key)[Cardinality(Nodes)]
Depth(t, key) ==
  LET at == Search(t, key) IN Cardinality({i \in DOMAIN at : i > 0 /\ at[i] # at[i - 1]})

-----------------------------------------------------------------------------
(* tree.c                                                                  *)

IntMax(n1, n2) == IF n1 > n2 THEN n1 ELSE n2

node_create(key, value) == [entry |-> entry_create(key, value), left |-> NULL, right |-> NULL]

\* tree_put, with n for the address of a new node; the key and the value are not NULL.
tree_put(t, n, key, value) ==
  LET p == Location(t, key)
      m == At(t, p)
  IN IF m # NULL THEN [t EXCEPT !.heap[m].entry = entry_create(key, data_dup(value))]
     ELSE [Assign(t, p, n) EXCEPT
             !.heap = [x \in DOMAIN @ \cup {n} |->
                         IF x = n THEN node_create(key, data_dup(value)) ELSE @[x]],
             !.size = IF t.root = NULL THEN 1 ELSE @ + 1,
             !.height = IF t.root = NULL THEN 0 ELSE IntMax(Depth(t, key), @)]

tree_get(t, key) ==
  LET n == At(t, Location(t, key)) IN
  IF t.root = NULL \/ n = NULL THEN NotFound ELSE data_dup(t.heap[n].entry.value)

\* The location of the node with the lowest key to the right of n.
LowestSuccessor(t, n) ==
  LET at[i \in 0 .. Cardinality(Nodes)] ==
        IF i = 0 THEN Field(n, "right")
        ELSE LET m == At(t, at[i - 1]) IN
             IF t.heap[m].left = NULL THEN at[i - 1] ELSE Field(m, "left")
  IN at[Cardinality(Nodes)]

\* Fault: the right child of the successor is forgotten.
ReplaceBySuccessor_NoChild(t, n) ==
  LET p == LowestSuccessor(t, n)
      successor == At(t, p)
      t1 == Assign(t, p, NULL)
  IN [t1 EXCEPT !.heap[successor] =
        [@ EXCEPT !.left = t1.heap[n].left, !.right = t1.heap[n].right]]

\* The successor is unlinked, which changes the right field of n when it is its child,
\* and takes over the fields of n.
ReplaceBySuccessor(t, n) ==
  LET p == LowestSuccessor(t, n)
      successor == At(t, p)
      t1 == Assign(t, p, t.heap[successor].right)
  IN [t1 EXCEPT !.heap[successor] =
        [@ EXCEPT !.left = t1.heap[n].left, !.right = t1.heap[n].right]]

\* The tree after tree_node_del, where node is freed.
tree_node_del(t, p) ==
  LET node == At(t, p)
      left == t.heap[node].left
      right == t.heap[node].right
      linked ==
        CASE left = NULL /\ right = NULL -> Assign(t, p, NULL)
          [] left = NULL /\ right # NULL -> Assign(t, p, right)
          [] left # NULL /\ right = NULL -> Assign(t, p, left)
          [] OTHER -> Assign(ReplaceBySuccessor(t, node), p, At(t, LowestSuccessor(t, node)))
  IN [linked EXCEPT !.heap = [x \in DOMAIN @ \ {node} |-> @[x]]]

tree_compute_height(t) ==
  LET height[n \in DOMAIN t.heap \cup {NULL}] ==
        IF n = NULL THEN -1 ELSE 1 + IntMax(height[t.heap[n].left], height[t.heap[n].right])
  IN height[t.root]

\* tree_del fails when there is no root; a key that is not in the tree is no failure.
tree_del_Fails(t) == t.root = NULL

tree_del(t, key) ==
  LET p == Location(t, key) IN
  IF At(t, p) = NULL THEN t
  ELSE LET t1 == tree_node_del(t, p) IN
       [t1 EXCEPT !.size = @ - 1, !.height = tree_compute_height(t1)]

tree_size(t)   == t.size
tree_height(t) == t.height

tree_get_keys(t) ==
  LET keys[n \in DOMAIN t.heap \cup {NULL}] ==
        IF n = NULL THEN <<>>
        ELSE keys[t.heap[n].left] \o <<t.heap[n].entry.key>> \o keys[t.heap[n].right]
  IN keys[t.root]

-----------------------------------------------------------------------------
(* serialization.c: a buffer is the sequence of its entries, each of which *)
(* is preceded by its size there.                                          *)

entry_to_buffer(entry) == PackEntry(entry_to_msg(entry))
buffer_to_entry(buffer) == msg_to_entry(UnpackEntry(buffer))

\* Fault: a node comes after those to its left, as in tree_get_keys.
tree_to_buffer_InOrder(t) ==
  LET entries[n \in DOMAIN t.heap \cup {NULL}] ==
        IF n = NULL THEN <<>>
        ELSE entries[t.heap[n].left] \o <<entry_to_buffer(t.heap[n].entry)>>
             \o entries[t.heap[n].right]
  IN entries[t.root]

tree_to_buffer(t) ==
  LET entries[n \in DOMAIN t.heap \cup {NULL}] ==
        IF n = NULL THEN <<>>
        ELSE <<entry_to_buffer(t.heap[n].entry)>> \o entries[t.heap[n].left]
             \o entries[t.heap[n].right]
  IN entries[t.root]

\* An empty buffer is an error, also when it is that of an empty tree.
buffer_to_tree(buffer) ==
  LET tree[i \in 0 .. Len(buffer)] ==
        IF i = 0 THEN tree_create
        ELSE LET entry == buffer_to_entry(buffer[i]) IN
             tree_put(tree[i - 1], CHOOSE n \in Free(tree[i - 1]) : TRUE, entry.key, entry.value)
  IN IF buffer = <<>> THEN NULL ELSE tree[Len(buffer)]
=============================================================================
