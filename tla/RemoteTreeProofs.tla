-------------------------- MODULE RemoteTreeProofs --------------------------
(***************************************************************************)
(* Proofs about BinaryTree and RemoteTree for all keys, values and nodes:  *)
(* the nodes are a search tree whatever is put and deleted, the commands   *)
(* do to the map what Operations says and tell the user what is true of    *)
(* it, no message changes on its way, and a tree that is written to a      *)
(* buffer is read from it again.                                           *)
(*                                                                         *)
(* What a recursion over nodes computes is proved by induction over the    *)
(* nodes below a node, of which its children have fewer.                   *)
(***************************************************************************)
EXTENDS RemoteTree, MessagesProofs, FiniteSetTheorems, WellFoundedInduction

Dom(t)      == DOMAIN t.heap
Left(t, n)  == t.heap[n].left
Right(t, n) == t.heap[n].right
KeyOf(t, n) == t.heap[n].entry.key

\* A search tree, of which below gives the nodes below each node: what Ordered says,
\* in terms of the operators above.
Sound(t, below) ==
  /\ IsFiniteSet(Dom(t)) /\ NULL \notin Dom(t) /\ t.root \in Dom(t) \cup {NULL}
  /\ \A n \in Dom(t) : /\ KeyOf(t, n) \in Int
                       /\ Left(t, n) \in Dom(t) \cup {NULL}
                       /\ Right(t, n) \in Dom(t) \cup {NULL}
  /\ below \in [Dom(t) \cup {NULL} -> SUBSET Dom(t)]
  /\ below[NULL] = {} /\ below[t.root] = Dom(t)
  /\ \A n \in Dom(t) :
       /\ below[n] = {n} \cup below[Left(t, n)] \cup below[Right(t, n)]
       /\ \A m \in below[Left(t, n)] : KeyOf(t, m) < KeyOf(t, n)
       /\ \A m \in below[Right(t, n)] : KeyOf(t, m) > KeyOf(t, n)

\* Ordered and Sound are the same for trees.
LEMMA OrderedIsSound ==
  ASSUME NEW t, IsTree(t), NEW below
  PROVE  Ordered(t, below) <=> Sound(t, below)
<1>1. IsFiniteSet(Dom(t)) /\ NULL \notin Dom(t)
  BY BinaryTreeAssumption, FS_Subset DEF IsTree, Dom
<1>2. \A n \in Dom(t) : KeyOf(t, n) \in Int
  BY MessagesAssumption DEF IsTree, Dom, KeyOf
<1> QED BY <1>1, <1>2 DEF IsTree, Ordered, Sound, Dom, Left, Right, KeyOf

-----------------------------------------------------------------------------
(* Induction over the nodes of a tree.                                     *)

\* A set of naturals that is not empty has a least one.
LEMMA LeastNumber ==
  ASSUME NEW T, T \subseteq Nat, T # {}
  PROVE  \E n \in T : \A k \in T : n <= k
<1>1. \E n \in T : \A k \in T : <<k, n>> \notin OpToRel(<, Nat)
  BY WFMin, NatLessThanWellFounded, Zenon
<1>2. \E n \in T : \A k \in T : ~(k < n)
  BY <1>1, Zenon DEF OpToRel
<1> QED BY <1>2

\* What holds for 0 and is kept by every step up to last holds that far.
LEMMA StepByStep ==
  ASSUME NEW T, NEW last \in Nat, 0 \in T,
         \A n \in 1 .. last : n - 1 \in T => n \in T
  PROVE  \A n \in 0 .. last : n \in T
<1> DEFINE Missed == {n \in 0 .. last : n \notin T}
<1> SUFFICES ASSUME Missed # {} PROVE FALSE
  OBVIOUS
<1>1. PICK n \in Missed : \A k \in Missed : n <= k
  <2>1. Missed \subseteq Nat
    OBVIOUS
  <2> QED BY <2>1, LeastNumber
<1>2. n \in 1 .. last /\ n - 1 \in 0 .. last /\ n - 1 < n /\ n \notin T
  OBVIOUS
<1>3. n - 1 \in T
  BY <1>1, <1>2
<1> QED BY <1>2, <1>3

\* The number of nodes below a node.
Weight(below, n) == Cardinality(below[n])

\* A child has fewer nodes below it than its parent, and no parent is below its child.
LEMMA ChildrenAreLighter ==
  ASSUME NEW t, NEW below, Sound(t, below)
  PROVE  /\ \A n \in Dom(t) \cup {NULL} : Weight(below, n) \in Nat /\ Weight(below, n) <= Cardinality(Dom(t))
         /\ \A n \in Dom(t) :
              /\ n \notin below[Left(t, n)] /\ Weight(below, Left(t, n)) < Weight(below, n)
              /\ n \notin below[Right(t, n)] /\ Weight(below, Right(t, n)) < Weight(below, n)
<1>1. ASSUME NEW n \in Dom(t) \cup {NULL}
      PROVE  /\ IsFiniteSet(below[n]) /\ below[n] \subseteq Dom(t)
             /\ Weight(below, n) \in Nat /\ Weight(below, n) <= Cardinality(Dom(t))
  <2>1. below[n] \subseteq Dom(t) /\ IsFiniteSet(Dom(t))
    BY DEF Sound
  <2> QED BY <2>1, FS_Subset, FS_CardinalityType DEF Weight
<1>2. ASSUME NEW n \in Dom(t), NEW c \in {Left(t, n), Right(t, n)}
      PROVE  n \notin below[c] /\ Weight(below, c) < Weight(below, n)
  <2>1. c \in Dom(t) \cup {NULL} /\ KeyOf(t, n) \in Int /\ below[c] \subseteq below[n] /\ n \in below[n]
    BY DEF Sound
  <2>2. n \notin below[c]
    <3>1. CASE c = Left(t, n)
      BY <2>1, <3>1 DEF Sound
    <3>2. CASE c = Right(t, n)
      BY <2>1, <3>2 DEF Sound
    <3> QED BY <3>1, <3>2
  <2>3. IsFiniteSet(below[n]) /\ IsFiniteSet(below[c])
    BY <1>1, <2>1
  <2>4. Cardinality(below[c]) <= Cardinality(below[n]) /\ Cardinality(below[c]) # Cardinality(below[n])
    BY <2>1, <2>2, <2>3, FS_Subset
  <2>5. Cardinality(below[c]) \in Nat /\ Cardinality(below[n]) \in Nat
    BY <2>3, FS_CardinalityType
  <2> QED BY <2>2, <2>4, <2>5 DEF Weight
<1> QED BY <1>1, <1>2

\* What holds for a node as soon as it holds for its children holds for all nodes.
LEMMA TreeInduction ==
  ASSUME NEW t, NEW below, Sound(t, below), NEW S,
         \A n \in Dom(t) : /\ Left(t, n) \in S \cup {NULL}
                           /\ Right(t, n) \in S \cup {NULL}
                           => n \in S
  PROVE  Dom(t) \subseteq S
<1> DEFINE Weights == {Weight(below, n) : n \in Dom(t) \ S}
<1> SUFFICES ASSUME Dom(t) \ S # {} PROVE FALSE
  OBVIOUS
<1>1. Weights \subseteq Nat /\ Weights # {}
  BY ChildrenAreLighter
<1>2. PICK w \in Weights : \A v \in Weights : w <= v
  BY <1>1, LeastNumber
<1>3. PICK n \in Dom(t) \ S : w = Weight(below, n)
  BY <1>2
<1>4. ASSUME NEW c \in {Left(t, n), Right(t, n)}
      PROVE  c \in S \cup {NULL}
  <2>1. c \in Dom(t) \cup {NULL}
    BY <1>3 DEF Sound
  <2>2. Weight(below, c) < Weight(below, n)
    BY <1>3, ChildrenAreLighter
  <2>3. Weight(below, c) \in Nat /\ Weight(below, n) \in Nat
    BY <2>1, <1>3, ChildrenAreLighter
  <2> QED BY <1>2, <1>3, <2>1, <2>2, <2>3
<1> QED BY <1>3, <1>4

\* Whoever is below a node has all that is below it there too.
LEMMA BelowTransitive ==
  ASSUME NEW t, NEW below, Sound(t, below)
  PROVE  \A n \in Dom(t) \cup {NULL} : \A d \in below[n] : below[d] \subseteq below[n]
<1> DEFINE S == {n \in Dom(t) : \A d \in below[n] : below[d] \subseteq below[n]}
<1>1. ASSUME NEW n \in Dom(t), Left(t, n) \in S \cup {NULL}, Right(t, n) \in S \cup {NULL}
      PROVE  n \in S
  <2>1. /\ below[n] = {n} \cup below[Left(t, n)] \cup below[Right(t, n)]
        /\ below[NULL] = {}
    BY DEF Sound
  <2>2. ASSUME NEW c \in {Left(t, n), Right(t, n)}, NEW d \in below[c]
        PROVE  below[d] \subseteq below[c]
    BY <1>1, <2>1, <2>2
  <2> QED BY <2>1, <2>2
<1> HIDE DEF S
<1>2. Dom(t) \subseteq S
  BY <1>1, TreeInduction
<1> QED BY <1>2 DEF S, Sound

\* What is left and what is right of a node are apart.
LEMMA SidesApart ==
  ASSUME NEW t, NEW below, Sound(t, below), NEW n \in Dom(t)
  PROVE  /\ below[Left(t, n)] \cap below[Right(t, n)] = {}
         /\ Left(t, n) # NULL => Left(t, n) \in below[Left(t, n)]
         /\ Right(t, n) # NULL => Right(t, n) \in below[Right(t, n)]
         /\ n \in below[n]
<1>1. \A m \in below[Left(t, n)] \cup below[Right(t, n)] : KeyOf(t, m) \in Int
  BY DEF Sound
<1>2. KeyOf(t, n) \in Int
  BY DEF Sound
<1> QED BY <1>1, <1>2 DEF Sound

Children(t, n) == {Left(t, n), Right(t, n)} \ {NULL}

\* A child is below its parent, and the parent not below it.
LEMMA ChildBelow ==
  ASSUME NEW t, NEW below, Sound(t, below), NEW n \in Dom(t), NEW c \in Children(t, n)
  PROVE  c \in Dom(t) /\ c \in below[c] /\ c \in below[n] /\ n \in below[n] /\ n \notin below[c]
<1>1. c \in Dom(t) /\ c \in below[c] /\ c \in below[n] /\ n \in below[n]
  BY DEF Sound, Children
<1>2. n \notin below[c]
  BY ChildrenAreLighter DEF Children
<1> QED BY <1>1, <1>2

\* A node is at one location only.
LEMMA OneParent ==
  ASSUME NEW t, NEW below, Sound(t, below)
  PROVE  /\ \A x, y \in Dom(t) : Children(t, x) \cap Children(t, y) # {} => x = y
         /\ \A x \in Dom(t) : Left(t, x) = Right(t, x) => Left(t, x) = NULL
         /\ \A x \in Dom(t) : t.root \notin Children(t, x)
<1> DEFINE S == {z \in Dom(t) : \A x, y \in below[z] : Children(t, x) \cap Children(t, y) # {} => x = y}
<1>1. ASSUME NEW z \in Dom(t), Left(t, z) \in S \cup {NULL}, Right(t, z) \in S \cup {NULL}
      PROVE  z \in S
  <2> SUFFICES ASSUME NEW x \in below[z], NEW y \in below[z],
                      NEW c \in Children(t, x), c \in Children(t, y)
               PROVE  x = y
    OBVIOUS
  <2> DEFINE l == below[Left(t, z)]
             r == below[Right(t, z)]
  <2>1. /\ below[z] = {z} \cup l \cup r /\ below[NULL] = {} /\ below[z] \subseteq Dom(t)
        /\ Left(t, z) \in Dom(t) \cup {NULL} /\ Right(t, z) \in Dom(t) \cup {NULL}
    BY DEF Sound
  <2>2. l \cap r = {} /\ z \notin l /\ z \notin r
    BY SidesApart, ChildrenAreLighter
  <2>3. ASSUME NEW w \in {x, y}, NEW s \in {Left(t, z), Right(t, z)}, w \in below[s]
        PROVE  c \in below[s] /\ c # s
    <3>1. c \in below[w] /\ w \notin below[c]
      BY <2>1, ChildBelow
    <3> QED BY <2>1, <2>3, <3>1, BelowTransitive
  <2>4. ASSUME c \in Children(t, z) PROVE c \in {Left(t, z), Right(t, z)} /\ c \in below[c]
    BY <2>4, ChildBelow DEF Children
  <2>5. CASE x \in l /\ y \in l
    BY <1>1, <2>1, <2>5
  <2>6. CASE x \in r /\ y \in r
    BY <1>1, <2>1, <2>6
  <2>7. CASE (x \in l /\ y \in r) \/ (x \in r /\ y \in l)
    BY <2>2, <2>3, <2>7
  <2>8. CASE x = z \/ y = z
    BY <2>1, <2>2, <2>3, <2>4, <2>8
  <2> QED BY <2>1, <2>5, <2>6, <2>7, <2>8
<1>2. \A x, y \in Dom(t) : Children(t, x) \cap Children(t, y) # {} => x = y
  <2> HIDE DEF S
  <2>1. Dom(t) \subseteq S
    BY <1>1, TreeInduction
  <2>2. below[t.root] = Dom(t) /\ (t.root = NULL => Dom(t) = {}) /\ t.root \in Dom(t) \cup {NULL}
    BY DEF Sound
  <2> QED BY <2>1, <2>2 DEF S
<1>3. ASSUME NEW x \in Dom(t), Left(t, x) = Right(t, x) PROVE Left(t, x) = NULL
  BY <1>3, SidesApart
<1>4. ASSUME NEW x \in Dom(t), t.root \in Children(t, x) PROVE FALSE
  <2>1. x \notin below[t.root]
    BY <1>4, ChildBelow
  <2> QED BY <2>1 DEF Sound
<1> QED BY <1>2, <1>3, <1>4

\* Below a node are, with a child, its parent, unless the child is that node.
LEMMA ParentBelow ==
  ASSUME NEW t, NEW below, Sound(t, below), NEW z \in Dom(t) \cup {NULL},
         NEW n \in Dom(t), NEW c \in Children(t, n), c \in below[z]
  PROVE  c = z \/ n \in below[z]
<1> DEFINE S == {y \in Dom(t) : c \in below[y] => c = y \/ n \in below[y]}
<1>1. ASSUME NEW y \in Dom(t), Left(t, y) \in S \cup {NULL}, Right(t, y) \in S \cup {NULL},
             c \in below[y], c # y
      PROVE  n \in below[y]
  <2>1. /\ below[y] = {y} \cup below[Left(t, y)] \cup below[Right(t, y)] /\ below[NULL] = {}
        /\ y \in below[y]
    BY DEF Sound
  <2>2. PICK s \in {Left(t, y), Right(t, y)} : c \in below[s]
    BY <1>1, <2>1
  <2>3. s # NULL /\ (c = s \/ n \in below[s])
    BY <1>1, <2>1, <2>2
  <2>4. CASE c = s
    BY <2>1, <2>3, <2>4, OneParent DEF Children
  <2> QED BY <2>1, <2>3, <2>4
<1> HIDE DEF S
<1>2. Dom(t) \subseteq S
  BY <1>1, TreeInduction DEF S
<1> QED BY <1>2 DEF S, Sound

\* No two nodes have the same key.
LEMMA DistinctKeys ==
  ASSUME NEW t, NEW below, Sound(t, below)
  PROVE  \A m, n \in Dom(t) : KeyOf(t, m) = KeyOf(t, n) => m = n
<1> DEFINE S == {y \in Dom(t) : \A m, n \in below[y] : KeyOf(t, m) = KeyOf(t, n) => m = n}
<1>1. ASSUME NEW y \in Dom(t), Left(t, y) \in S \cup {NULL}, Right(t, y) \in S \cup {NULL}
      PROVE  y \in S
  <2> SUFFICES ASSUME NEW m \in below[y], NEW n \in below[y], KeyOf(t, m) = KeyOf(t, n)
               PROVE  m = n
    OBVIOUS
  <2> DEFINE l == below[Left(t, y)]
             r == below[Right(t, y)]
  <2>1. /\ below[y] = {y} \cup l \cup r /\ below[NULL] = {} /\ below[y] \subseteq Dom(t)
        /\ KeyOf(t, m) \in Int /\ KeyOf(t, n) \in Int /\ KeyOf(t, y) \in Int
    BY DEF Sound
  <2>2. /\ \A w \in l : KeyOf(t, w) < KeyOf(t, y)
        /\ \A w \in r : KeyOf(t, w) > KeyOf(t, y)
    BY DEF Sound
  <2>3. /\ m \in l /\ n \in l => m = n
        /\ m \in r /\ n \in r => m = n
    BY <1>1, <2>1
  <2> HIDE DEF l, r, S
  <2> QED BY <2>1, <2>2, <2>3
<1> HIDE DEF S
<1>2. Dom(t) \subseteq S
  BY <1>1, TreeInduction
<1>3. below[t.root] = Dom(t) /\ (t.root = NULL => Dom(t) = {}) /\ t.root \in Dom(t) \cup {NULL}
  BY DEF Sound
<1> QED BY <1>2, <1>3 DEF S

-----------------------------------------------------------------------------
(* Locations, and loops that go from one to the next.                      *)

Locations(t) == {Root} \cup {Field(n, field) : n \in Dom(t), field \in {"left", "right"}}

\* What is at each location.
LEMMA LocationFacts ==
  ASSUME NEW t, NEW below, Sound(t, below)
  PROVE  /\ At(t, Root) = t.root
         /\ \A n \in Dom(t) :
              /\ At(t, Field(n, "left")) = Left(t, n) /\ Field(n, "left") \in Locations(t)
              /\ At(t, Field(n, "right")) = Right(t, n) /\ Field(n, "right") \in Locations(t)
              /\ Field(n, "left") # Root /\ Field(n, "right") # Root
              /\ Field(n, "left") # Field(n, "right")
         /\ \A p \in Locations(t) :
              /\ At(t, p) \in Dom(t) \cup {NULL}
              /\ p = Root \/ (p.node \in Dom(t) /\ p \in {Field(p.node, "left"), Field(p.node, "right")})
<1>1. At(t, Root) = t.root
  BY DEF At
<1>2. ASSUME NEW n \in Dom(t), NEW field \in {"left", "right"}
      PROVE  Field(n, field) # Root /\ At(t, Field(n, field)) = t.heap[n][field] /\ Field(n, field).node = n
  <2>1. n # NULL
    BY DEF Sound
  <2> QED BY <2>1 DEF Field, Root, At
<1>3. \A n \in Dom(t) : Field(n, "left") # Field(n, "right")
  BY DEF Field
<1>4. ASSUME NEW p \in Locations(t), p # Root
      PROVE  p.node \in Dom(t) /\ p \in {Field(p.node, "left"), Field(p.node, "right")}
  BY <1>2, <1>4 DEF Locations
<1>5. \A n \in Dom(t) : /\ At(t, Field(n, "left")) = Left(t, n)
                        /\ At(t, Field(n, "right")) = Right(t, n)
  BY <1>2 DEF Left, Right
<1>6. ASSUME NEW p \in Locations(t) PROVE At(t, p) \in Dom(t) \cup {NULL}
  BY <1>1, <1>4, <1>5 DEF Sound
<1> QED BY <1>1, <1>2, <1>3, <1>4, <1>5, <1>6 DEF Locations

\* The values of a loop that makes the same step each time.
Loop(f, first, step, last) == f[0] = first /\ \A i \in 1 .. last : f[i] = step[f[i - 1]]

\* They exist, whatever the step is.
LEMMA LoopExists ==
  ASSUME NEW V, NEW last \in Nat, NEW first \in V, NEW step \in [V -> V]
  PROVE  \E f \in [0 .. last -> V] : Loop(f, first, step, last)
<1> DEFINE T == {m \in Nat : \E f \in [0 .. m -> V] : Loop(f, first, step, m)}
<1>1. 0 \in T
  <2>1. [i \in 0 .. 0 |-> first] \in [0 .. 0 -> V] /\ Loop([i \in 0 .. 0 |-> first], first, step, 0)
    BY DEF Loop
  <2> QED BY <2>1
<1>2. ASSUME NEW m \in 1 .. last, m - 1 \in T PROVE m \in T
  <2>1. PICK f \in [0 .. m - 1 -> V] : Loop(f, first, step, m - 1)
    BY <1>2
  <2> DEFINE g == [i \in 0 .. m |-> IF i = m THEN step[f[m - 1]] ELSE f[i]]
  <2>2. f[0] \in V /\ f[m - 1] \in V /\ step[f[m - 1]] \in V
    OBVIOUS
  <2>3. g \in [0 .. m -> V]
    BY <2>2
  <2>4. g[m] = step[f[m - 1]] /\ \A i \in 0 .. m - 1 : g[i] = f[i]
    OBVIOUS
  <2> HIDE DEF g
  <2>5. g[0] = first
    BY <2>1, <2>4 DEF Loop
  <2>6. ASSUME NEW i \in 1 .. m PROVE g[i] = step[g[i - 1]]
    <3>1. i - 1 \in 0 .. m - 1 /\ g[i - 1] = f[i - 1]
      BY <2>4
    <3>2. CASE i = m
      BY <2>4, <3>1, <3>2
    <3>3. CASE i # m
      <4>1. i \in 1 .. m - 1 /\ i \in 0 .. m - 1
        BY <3>3
      <4> QED BY <2>1, <2>4, <3>1, <4>1 DEF Loop
    <3> QED BY <3>2, <3>3
  <2> QED BY <2>3, <2>5, <2>6 DEF Loop
<1> HIDE DEF T
<1>3. \A m \in 0 .. last : m \in T
  BY <1>1, <1>2, StepByStep
<1>4. last \in T
  BY <1>3
<1> QED BY <1>4 DEF T

\* The next location of a search.
Turn(t, key, p) ==
  LET n == At(t, p)
      comparison == key_compare(key, KeyOf(t, n))
  IN IF n = NULL \/ comparison = 0 THEN p
     ELSE Field(n, IF comparison < 0 THEN "left" ELSE "right")

\* The next location on the way to the lowest successor.
Descend(t, p) == IF Left(t, At(t, p)) = NULL THEN p ELSE Field(At(t, p), "left")

\* Search passes locations of the tree, each the next of the one before.
LEMMA SearchPasses ==
  ASSUME NEW t, NEW below, Sound(t, below), NEW key
  PROVE  /\ Search(t, key) \in [0 .. Cardinality(Nodes) -> Locations(t)]
         /\ Search(t, key)[0] = Root
         /\ \A i \in 1 .. Cardinality(Nodes) :
              Search(t, key)[i] = Turn(t, key, Search(t, key)[i - 1])
<1> DEFINE N == Cardinality(Nodes)
           V == Locations(t)
           step == [p \in V |-> Turn(t, key, p)]
           Equation(f) == f = [i \in 0 .. N |-> IF i = 0 THEN Root ELSE Turn(t, key, f[i - 1])]
<1>1. N \in Nat
  BY BinaryTreeAssumption, FS_CardinalityType
<1>2. Root \in V
  BY DEF Locations
<1>3. \A p \in V : Turn(t, key, p) \in V
  BY LocationFacts DEF Turn
<1> HIDE DEF V, N
<1>4. step \in [V -> V] /\ \A p \in V : step[p] = Turn(t, key, p)
  BY <1>3
<1> HIDE DEF step
<1>5. PICK f \in [0 .. N -> V] : Loop(f, Root, step, N)
  BY <1>1, <1>2, <1>4, LoopExists
<1>6. Equation(f)
  <2>1. \A i \in 0 .. N : i # 0 => i \in 1 .. N /\ i - 1 \in 0 .. N
    BY <1>1
  <2>2. \A i \in 0 .. N : f[i] = IF i = 0 THEN Root ELSE Turn(t, key, f[i - 1])
    BY <1>4, <1>5, <2>1 DEF Loop
  <2> QED BY <2>2
<1>7. Search(t, key) = CHOOSE g : Equation(g)
  BY DEF Search, Turn, KeyOf, N
<1>8. Equation(Search(t, key))
  <2> HIDE DEF Equation
  <2> QED BY <1>6, <1>7, Zenon
<1> DEFINE S == Search(t, key)
<1>9. S = [i \in 0 .. N |-> S[i]] /\ S[0] = Root /\ \A i \in 1 .. N : S[i] = Turn(t, key, S[i - 1])
  <2>1. \A i \in 0 .. N : S[i] = IF i = 0 THEN Root ELSE Turn(t, key, S[i - 1])
    BY <1>8, Zenon
  <2> QED BY <1>1, <1>8, <2>1
<1> HIDE DEF S
<1> DEFINE T == {i \in 0 .. N : S[i] \in V}
<1>10. \A i \in 0 .. N : i \in T
  <2>1. 0 \in T
    BY <1>1, <1>2, <1>9
  <2>2. ASSUME NEW i \in 1 .. N, i - 1 \in T PROVE i \in T
    <3>1. i \in 0 .. N /\ S[i - 1] \in V
      BY <1>1, <2>2
    <3>2. S[i] \in V
      BY <1>3, <1>9, <3>1
    <3> QED BY <3>1, <3>2
  <2> HIDE DEF T
  <2> QED BY <1>1, <2>1, <2>2, StepByStep
<1>11. S \in [0 .. N -> V]
  BY <1>9, <1>10
<1> QED BY <1>9, <1>11 DEF S, N, V

\* Numbers are compared as such.
LEMMA Comparison ==
  ASSUME NEW k1 \in Int, NEW k2 \in Int
  PROVE  /\ key_compare(k1, k2) = 0 <=> k1 = k2
         /\ key_compare(k1, k2) < 0 <=> k1 < k2
BY MessagesAssumption DEF key_compare

\* A location where the key can be: it is on the side of each node above it that the
\* order of keys asks for.
Fits(t, below, key, p) ==
  \A x \in Dom(t) :
    /\ p = Field(x, "left") => key < KeyOf(t, x)
    /\ p = Field(x, "right") => key > KeyOf(t, x)
    /\ p # Root => /\ p.node \in below[Left(t, x)] => key < KeyOf(t, x)
                   /\ p.node \in below[Right(t, x)] => key > KeyOf(t, x)

Arrived(t, key, p) == At(t, p) = NULL \/ KeyOf(t, At(t, p)) = key

\* A node with the key is not anywhere else.
Holds(t, below, key, p) == \A m \in Dom(t) : KeyOf(t, m) = key => m \in below[At(t, p)]

\* One turn of a search keeps to where the key can be, with less below it.
LEMMA TurnFits ==
  ASSUME NEW t, NEW below, Sound(t, below), NEW key \in Int, NEW p \in Locations(t),
         Fits(t, below, key, p), Holds(t, below, key, p), ~Arrived(t, key, p)
  PROVE  /\ Turn(t, key, p) \in Locations(t)
         /\ Fits(t, below, key, Turn(t, key, p))
         /\ Holds(t, below, key, Turn(t, key, p))
         /\ Weight(below, At(t, Turn(t, key, p))) < Weight(below, At(t, p))
<1> DEFINE n == At(t, p)
           q == Turn(t, key, p)
<1>1. n \in Dom(t) /\ n # NULL /\ KeyOf(t, n) \in Int /\ KeyOf(t, n) # key
  BY LocationFacts DEF Arrived, Sound
<1>2. q = IF key < KeyOf(t, n) THEN Field(n, "left") ELSE Field(n, "right")
  BY <1>1, Comparison DEF Turn
<1> HIDE DEF q
<1>3. /\ q \in Locations(t) /\ q # Root /\ q.node = n
      /\ At(t, q) = IF key < KeyOf(t, n) THEN Left(t, n) ELSE Right(t, n)
  BY <1>1, <1>2, LocationFacts DEF Field
<1>4. Weight(below, At(t, q)) < Weight(below, n)
  BY <1>1, <1>3, ChildrenAreLighter
<1>5. Holds(t, below, key, q)
  <2> SUFFICES ASSUME NEW m \in Dom(t), KeyOf(t, m) = key PROVE m \in below[At(t, q)]
    BY DEF Holds
  <2>1. m \in below[n] /\ m # n
    BY <1>1 DEF Holds
  <2>2. m \in below[Left(t, n)] \/ m \in below[Right(t, n)]
    BY <1>1, <2>1 DEF Sound
  <2>3. /\ m \in below[Left(t, n)] => key < KeyOf(t, n)
        /\ m \in below[Right(t, n)] => key > KeyOf(t, n)
    BY <1>1 DEF Sound
  <2> QED BY <1>1, <1>3, <2>2, <2>3
<1>6. Fits(t, below, key, q)
  <2> SUFFICES ASSUME NEW x \in Dom(t)
               PROVE  /\ q = Field(x, "left") => key < KeyOf(t, x)
                      /\ q = Field(x, "right") => key > KeyOf(t, x)
                      /\ n \in below[Left(t, x)] => key < KeyOf(t, x)
                      /\ n \in below[Right(t, x)] => key > KeyOf(t, x)
    BY <1>3 DEF Fits
  <2>1. /\ q = Field(x, "left") => key < KeyOf(t, x)
        /\ q = Field(x, "right") => key > KeyOf(t, x)
    BY <1>1, <1>2 DEF Field
  <2>2. Left(t, x) \in Dom(t) \cup {NULL} /\ Right(t, x) \in Dom(t) \cup {NULL} /\ KeyOf(t, x) \in Int
    BY DEF Sound
  <2>3. CASE p = Root
    <3>1. n = t.root /\ below[n] = Dom(t)
      BY <2>3, LocationFacts DEF Sound
    <3>2. x \notin below[Left(t, x)] /\ x \notin below[Right(t, x)]
      BY ChildrenAreLighter
    <3> QED BY <2>1, <2>2, <3>1, <3>2, BelowTransitive
  <2>4. CASE p # Root
    <3> DEFINE y == p.node
    <3>1. y \in Dom(t) /\ p \in {Field(y, "left"), Field(y, "right")}
      BY <2>4, LocationFacts
    <3>2. n \in Children(t, y) /\ (n = Left(t, y) \/ n = Right(t, y))
      BY <1>1, <3>1, LocationFacts DEF Children
    <3>3. ASSUME NEW s \in {Left(t, x), Right(t, x)}, n \in below[s]
          PROVE  n = s \/ y \in below[s]
      BY <2>2, <3>1, <3>2, <3>3, ParentBelow
    <3>4. ASSUME NEW s \in {Left(t, x), Right(t, x)}, n = s
          PROVE  y = x /\ (s = Left(t, x) => p = Field(x, "left"))
                       /\ (s = Right(t, x) => p = Field(x, "right"))
      <4>1. s \in Children(t, x) /\ s # NULL
        BY <1>1, <3>2, <3>4 DEF Children
      <4>2. x = y
        BY <3>1, <3>2, <3>4, <4>1, OneParent
      <4>3. Left(t, x) # Right(t, x)
        BY <4>1, OneParent
      <4> QED BY <3>1, <3>4, <4>2, <4>3, LocationFacts
    <3>5. /\ y \in below[Left(t, x)] => key < KeyOf(t, x)
          /\ y \in below[Right(t, x)] => key > KeyOf(t, x)
          /\ p = Field(x, "left") => key < KeyOf(t, x)
          /\ p = Field(x, "right") => key > KeyOf(t, x)
      BY <2>4 DEF Fits
    <3> QED BY <2>1, <3>3, <3>4, <3>5
  <2> QED BY <2>3, <2>4
<1> QED BY <1>3, <1>4, <1>5, <1>6 DEF q

\* A search ends where the key is or can be put; it finds the node with the key.
LEMMA SearchArrives ==
  ASSUME NEW t, NEW below, Sound(t, below), Dom(t) \subseteq Nodes, NEW key \in Int
  PROVE  LET p == Location(t, key) IN
         /\ p \in Locations(t) /\ Arrived(t, key, p)
         /\ Fits(t, below, key, p) /\ Holds(t, below, key, p)
<1> DEFINE N == Cardinality(Nodes)
           at == Search(t, key)
           Good(p) == p \in Locations(t) /\ Fits(t, below, key, p) /\ Holds(t, below, key, p)
           T == {i \in 0 .. N : Good(at[i]) /\ (Arrived(t, key, at[i]) \/ Weight(below, At(t, at[i])) + i <= N)}
<1>1. N \in Nat /\ Cardinality(Dom(t)) \in Nat /\ Cardinality(Dom(t)) <= N
  BY BinaryTreeAssumption, FS_CardinalityType, FS_Subset
<1>2. /\ at[0] = Root
      /\ \A i \in 1 .. N : at[i] = Turn(t, key, at[i - 1])
  BY SearchPasses
<1>3. 0 \in T
  <2>1. Good(Root)
    <3>1. At(t, Root) = t.root /\ below[t.root] = Dom(t)
      BY LocationFacts DEF Sound
    <3>2. Fits(t, below, key, Root)
      BY LocationFacts DEF Fits
    <3>3. Holds(t, below, key, Root)
      BY <3>1 DEF Holds
    <3> QED BY <3>2, <3>3 DEF Locations
  <2>2. Weight(below, At(t, Root)) = Cardinality(Dom(t))
    BY LocationFacts DEF Weight, Sound
  <2> QED BY <1>1, <1>2, <2>1, <2>2
<1>4. ASSUME NEW i \in 1 .. N, i - 1 \in T PROVE i \in T
  <2> DEFINE p == at[i - 1]
  <2>1. Good(p) /\ at[i] = Turn(t, key, p) /\ i \in 0 .. N
    BY <1>1, <1>2, <1>4
  <2>2. CASE Arrived(t, key, p)
    <3>1. Turn(t, key, p) = p
      <4>1. CASE At(t, p) = NULL
        BY <4>1 DEF Turn
      <4>2. CASE At(t, p) # NULL
        BY <2>2, <4>2, Comparison DEF Turn, Arrived
      <4> QED BY <4>1, <4>2
    <3> QED BY <2>1, <2>2, <3>1
  <2>3. CASE ~Arrived(t, key, p)
    <3>1. Good(Turn(t, key, p)) /\ Weight(below, At(t, Turn(t, key, p))) < Weight(below, At(t, p))
      BY <2>1, <2>3, TurnFits
    <3>2. Weight(below, At(t, p)) + (i - 1) <= N
      BY <1>4, <2>3
    <3>3. Weight(below, At(t, p)) \in Nat /\ Weight(below, At(t, Turn(t, key, p))) \in Nat
      BY <2>1, <3>1, LocationFacts, ChildrenAreLighter
    <3>4. Weight(below, At(t, Turn(t, key, p))) + i <= N
      BY <1>1, <3>1, <3>2, <3>3
    <3> QED BY <2>1, <3>1, <3>4
  <2> QED BY <2>2, <2>3
<1> HIDE DEF T
<1>5. \A i \in 0 .. N : i \in T
  BY <1>1, <1>3, <1>4, StepByStep
<1>6. N \in T /\ Location(t, key) = at[N]
  BY <1>1, <1>5 DEF Location
<1>7. Good(at[N]) /\ (Arrived(t, key, at[N]) \/ Weight(below, At(t, at[N])) + N <= N)
  BY <1>6 DEF T
<1>8. ASSUME Weight(below, At(t, at[N])) + N <= N PROVE At(t, at[N]) = NULL
  <2> DEFINE n == At(t, at[N])
  <2>1. n \in Dom(t) \cup {NULL}
    BY <1>7, LocationFacts
  <2>2. CASE n \in Dom(t)
    <3>1. Weight(below, Left(t, n)) < Weight(below, n)
      BY <2>2, ChildrenAreLighter
    <3>2. Weight(below, Left(t, n)) \in Nat /\ Weight(below, n) \in Nat
      BY <2>2, ChildrenAreLighter DEF Sound
    <3> QED BY <1>1, <1>8, <3>1, <3>2
  <2> QED BY <2>1, <2>2
<1> QED BY <1>6, <1>7, <1>8 DEF Arrived

\* What can be the lowest successor of n: no node to the right of n that is not below
\* it has a lower key than those below it.
Lowest(t, below, n, p) ==
  /\ p \in Locations(t) /\ At(t, p) # NULL /\ At(t, p) \in below[Right(t, n)]
  /\ \A m \in below[Right(t, n)] \ below[At(t, p)] : \A x \in below[At(t, p)] : KeyOf(t, m) > KeyOf(t, x)

\* One step down keeps that, with less below.
LEMMA DescendLowest ==
  ASSUME NEW t, NEW below, Sound(t, below), NEW n \in Dom(t), NEW p, Lowest(t, below, n, p)
  PROVE  /\ Lowest(t, below, n, Descend(t, p))
         /\ At(t, p) \in Dom(t)
         /\ \/ Left(t, At(t, p)) = NULL
            \/ Weight(below, At(t, Descend(t, p))) < Weight(below, At(t, p))
<1> DEFINE s == At(t, p)
           r == below[Right(t, n)]
<1>1. s \in Dom(t) /\ s \in r /\ r \subseteq Dom(t) /\ p \in Locations(t) /\ Right(t, n) \in Dom(t) \cup {NULL}
  BY LocationFacts DEF Lowest, Sound
<1>2. CASE Left(t, s) = NULL
  BY <1>1, <1>2 DEF Descend
<1>3. CASE Left(t, s) # NULL
  <2> DEFINE c == Left(t, s)
  <2>1. Descend(t, p) = Field(s, "left")
    BY <1>3 DEF Descend
  <2>2. At(t, Field(s, "left")) = c /\ Field(s, "left") \in Locations(t)
    BY <1>1, LocationFacts
  <2>3. Weight(below, c) < Weight(below, s)
    BY <1>1, ChildrenAreLighter
  <2>4. c \in below[c] /\ c \in below[s]
    BY <1>1, <1>3, ChildBelow DEF Children
  <2>5. below[s] \subseteq r /\ below[c] \subseteq below[s]
    BY <1>1, <2>4, BelowTransitive
  <2>6. ASSUME NEW m \in r \ below[c], NEW x \in below[c]
        PROVE  KeyOf(t, m) > KeyOf(t, x)
    <3>1. x \in below[s] /\ x \in Dom(t) /\ m \in Dom(t)
      BY <1>1, <2>5
    <3>2. CASE m \notin below[s]
      BY <3>1, <3>2 DEF Lowest
    <3>3. CASE m \in below[s]
      <4>1. m = s \/ m \in below[Right(t, s)]
        BY <1>1, <3>3 DEF Sound
      <4>2. KeyOf(t, x) < KeyOf(t, s) /\ (m \in below[Right(t, s)] => KeyOf(t, m) > KeyOf(t, s))
        BY <1>1 DEF Sound
      <4>3. KeyOf(t, x) \in Int /\ KeyOf(t, s) \in Int /\ KeyOf(t, m) \in Int
        BY <1>1, <3>1 DEF Sound
      <4> QED BY <4>1, <4>2, <4>3
    <3> QED BY <3>2, <3>3
  <2>7. Lowest(t, below, n, Field(s, "left"))
    BY <1>3, <2>2, <2>4, <2>5, <2>6 DEF Lowest
  <2> QED BY <1>1, <2>1, <2>2, <2>3, <2>7
<1> QED BY <1>2, <1>3

\* The way down has its values, and the lowest successor is at its end.
LEMMA DescentExists ==
  ASSUME NEW t, NEW below, Sound(t, below), NEW n \in Dom(t), Right(t, n) # NULL
  PROVE  \E at \in [0 .. Cardinality(Nodes) -> {p \in Locations(t) : Lowest(t, below, n, p)}] :
           /\ at[0] = Field(n, "right")
           /\ \A i \in 1 .. Cardinality(Nodes) : at[i] = Descend(t, at[i - 1])
           /\ LowestSuccessor(t, n) = at[Cardinality(Nodes)]
<1> DEFINE N == Cardinality(Nodes)
           V == {p \in Locations(t) : Lowest(t, below, n, p)}
           first == Field(n, "right")
           step == [p \in V |-> Descend(t, p)]
           Equation(f) == f = [i \in 0 .. N |-> IF i = 0 THEN first ELSE Descend(t, f[i - 1])]
<1>1. N \in Nat
  BY BinaryTreeAssumption, FS_CardinalityType
<1>2. first \in V
  <2>1. At(t, first) = Right(t, n) /\ first \in Locations(t)
    BY LocationFacts
  <2>2. Right(t, n) \in below[Right(t, n)]
    BY SidesApart
  <2> QED BY <2>1, <2>2 DEF Lowest
<1>3. \A p \in V : Descend(t, p) \in V
  BY DescendLowest DEF Lowest
<1> HIDE DEF V, N, first
<1>4. step \in [V -> V] /\ \A p \in V : step[p] = Descend(t, p)
  BY <1>3
<1> HIDE DEF step
<1>5. PICK f \in [0 .. N -> V] : Loop(f, first, step, N)
  BY <1>1, <1>2, <1>4, LoopExists
<1>6. Equation(f)
  <2>1. \A i \in 0 .. N : i # 0 => i \in 1 .. N /\ i - 1 \in 0 .. N
    BY <1>1
  <2>2. \A i \in 0 .. N : f[i] = IF i = 0 THEN first ELSE Descend(t, f[i - 1])
    BY <1>4, <1>5, <2>1 DEF Loop
  <2> QED BY <2>2
<1> DEFINE at == CHOOSE g : Equation(g)
<1>7. LowestSuccessor(t, n) = at[N]
  BY DEF LowestSuccessor, Descend, Left, N, first
<1>8. Equation(at)
  <2> HIDE DEF Equation
  <2> QED BY <1>6, Zenon
<1> HIDE DEF at
<1>9. at = [i \in 0 .. N |-> at[i]] /\ at[0] = first /\ \A i \in 1 .. N : at[i] = Descend(t, at[i - 1])
  <2>1. \A i \in 0 .. N : at[i] = IF i = 0 THEN first ELSE Descend(t, at[i - 1])
    BY <1>8, Zenon
  <2>2. at = [i \in 0 .. N |-> at[i]]
    BY <1>8
  <2>3. 0 \in 0 .. N /\ \A i \in 1 .. N : i \in 0 .. N /\ i # 0
    BY <1>1
  <2>4. at[0] = first
    BY <2>1, <2>3
  <2>5. \A i \in 1 .. N : at[i] = Descend(t, at[i - 1])
    BY <2>1, <2>3
  <2> QED BY <2>2, <2>4, <2>5
<1> DEFINE T == {i \in 0 .. N : at[i] \in V}
<1>10. \A i \in 0 .. N : i \in T
  <2>1. 0 \in T
    BY <1>1, <1>2, <1>9
  <2>2. ASSUME NEW i \in 1 .. N, i - 1 \in T PROVE i \in T
    <3>1. i \in 0 .. N /\ at[i - 1] \in V
      BY <1>1, <2>2
    <3>2. at[i] \in V
      BY <1>3, <1>9, <3>1
    <3> QED BY <3>1, <3>2
  <2> HIDE DEF T
  <2> QED BY <1>1, <2>1, <2>2, StepByStep
<1>11. at \in [0 .. N -> V]
  BY <1>9, <1>10
<1> QED BY <1>7, <1>9, <1>11 DEF N, V, first

\* LowestSuccessor is the location of the node with the lowest key to the right of n.
LEMMA SuccessorIsLowest ==
  ASSUME NEW t, NEW below, Sound(t, below), Dom(t) \subseteq Nodes,
         NEW n \in Dom(t), Right(t, n) # NULL
  PROVE  LET p == LowestSuccessor(t, n)
             s == At(t, p)
         IN /\ p \in Locations(t) /\ s \in Dom(t) /\ s \in below[Right(t, n)]
            /\ Left(t, s) = NULL
            /\ \A m \in below[Right(t, n)] \ {s} : KeyOf(t, m) > KeyOf(t, s)
<1> DEFINE N == Cardinality(Nodes)
<1>1. PICK at \in [0 .. N -> {p \in Locations(t) : Lowest(t, below, n, p)}] :
        /\ at[0] = Field(n, "right")
        /\ \A i \in 1 .. N : at[i] = Descend(t, at[i - 1])
        /\ LowestSuccessor(t, n) = at[N]
  BY DescentExists
<1> DEFINE Ended(p) == Left(t, At(t, p)) = NULL
           T == {i \in 0 .. N : Ended(at[i]) \/ Weight(below, At(t, at[i])) + i <= N}
<1>2. N \in Nat /\ Cardinality(Dom(t)) \in Nat /\ Cardinality(Dom(t)) <= N
  BY BinaryTreeAssumption, FS_CardinalityType, FS_Subset
<1>3. \A i \in 0 .. N : at[i] \in Locations(t) /\ Lowest(t, below, n, at[i])
  BY <1>1
<1>4. \A i \in 0 .. N : At(t, at[i]) \in Dom(t) /\ Weight(below, At(t, at[i])) \in Nat
  BY <1>3, DescendLowest, ChildrenAreLighter
<1>5. 0 \in T
  <2>1. 0 \in 0 .. N
    BY <1>2
  <2>2. Weight(below, At(t, at[0])) <= Cardinality(Dom(t))
    BY <1>4, <2>1, ChildrenAreLighter
  <2>3. Weight(below, At(t, at[0])) + 0 <= N
    BY <1>2, <1>4, <2>1, <2>2
  <2> QED BY <2>1, <2>3
<1>6. ASSUME NEW i \in 1 .. N, i - 1 \in T PROVE i \in T
  <2>1. i \in 0 .. N /\ i - 1 \in 0 .. N /\ at[i] = Descend(t, at[i - 1])
    BY <1>1, <1>2
  <2>2. CASE Ended(at[i - 1])
    <3>1. at[i] = at[i - 1]
      BY <2>1, <2>2 DEF Descend
    <3> QED BY <2>1, <2>2, <3>1
  <2>3. CASE ~Ended(at[i - 1])
    <3>1. Weight(below, At(t, at[i])) < Weight(below, At(t, at[i - 1]))
      BY <1>3, <2>1, <2>3, DescendLowest
    <3>2. Weight(below, At(t, at[i - 1])) + (i - 1) <= N
      BY <1>6, <2>3
    <3>3. Weight(below, At(t, at[i])) + i <= N
      BY <1>2, <1>4, <2>1, <3>1, <3>2
    <3> QED BY <2>1, <3>3
  <2> QED BY <2>2, <2>3
<1> HIDE DEF T
<1>7. \A i \in 0 .. N : i \in T
  BY <1>2, <1>5, <1>6, StepByStep
<1> DEFINE p == LowestSuccessor(t, n)
           s == At(t, p)
<1>8. /\ p \in Locations(t) /\ Lowest(t, below, n, p) /\ s \in Dom(t)
      /\ Ended(p) \/ Weight(below, s) <= 0
  <2>1. N \in 0 .. N /\ p = at[N]
    BY <1>1, <1>2
  <2>2. Ended(at[N]) \/ Weight(below, At(t, at[N])) + N <= N
    BY <1>7, <2>1 DEF T
  <2> QED BY <1>2, <1>3, <1>4, <2>1, <2>2
<1>9. Weight(below, s) > 0
  <2>1. Weight(below, Left(t, s)) < Weight(below, s)
    BY <1>8, ChildrenAreLighter
  <2>2. Weight(below, Left(t, s)) \in Nat /\ Weight(below, s) \in Nat
    BY <1>8, ChildrenAreLighter DEF Sound
  <2> QED BY <2>1, <2>2
<1>10. Left(t, s) = NULL
  <2>1. Weight(below, s) \in Nat
    BY <1>8, ChildrenAreLighter
  <2> QED BY <1>8, <1>9, <2>1
<1>11. below[s] = {s} \cup below[Right(t, s)]
  BY <1>8, <1>10 DEF Sound
<1>12. ASSUME NEW m \in below[Right(t, n)] \ {s} PROVE KeyOf(t, m) > KeyOf(t, s)
  <2>1. CASE m \in below[s]
    <3>1. m \in below[Right(t, s)]
      BY <1>11, <2>1
    <3> QED BY <1>8, <3>1 DEF Sound
  <2>2. CASE m \notin below[s]
    BY <1>8, <1>11, <2>2 DEF Lowest
  <2> QED BY <2>1, <2>2
<1> HIDE DEF p, s
<1>13. s \in below[Right(t, n)]
  BY <1>8 DEF Lowest, s
<1> QED BY <1>8, <1>10, <1>12, <1>13 DEF p, s

-----------------------------------------------------------------------------
(* Functions that are recursive over the nodes of a tree.                  *)

\* The value for a node comes from those for its children.
Recursion(t, f, base, step) ==
  f[NULL] = base /\ \A n \in Dom(t) : f[n] = step[n][f[Left(t, n)]][f[Right(t, n)]]

\* There is such a function, whatever the steps are.
LEMMA RecursionExists ==
  ASSUME NEW t, NEW below, Sound(t, below), NEW V, NEW base \in V,
         NEW step \in [Dom(t) -> [V -> [V -> V]]]
  PROVE  \E f \in [Dom(t) \cup {NULL} -> V] : Recursion(t, f, base, step)
<1> DEFINE D == Dom(t) \cup {NULL}
           N == Cardinality(Dom(t))
           Upto(f, i) == /\ f[NULL] = base
                         /\ \A n \in Dom(t) : Weight(below, n) <= i =>
                              f[n] = step[n][f[Left(t, n)]][f[Right(t, n)]]
           T == {i \in 0 .. N : \E f \in [D -> V] : Upto(f, i)}
<1>1. /\ N \in Nat /\ NULL \notin Dom(t) /\ NULL \in D
      /\ \A n \in Dom(t) : n \in D /\ Left(t, n) \in D /\ Right(t, n) \in D
      /\ \A n \in D : Weight(below, n) \in Nat /\ Weight(below, n) <= N
      /\ \A n \in Dom(t) : /\ Weight(below, Left(t, n)) < Weight(below, n)
                           /\ Weight(below, Right(t, n)) < Weight(below, n)
  BY FS_CardinalityType, ChildrenAreLighter DEF Sound
<1>2. 0 \in T
  <2> DEFINE f == [n \in D |-> base]
  <2>1. f \in [D -> V] /\ f[NULL] = base
    BY <1>1
  <2>2. ASSUME NEW n \in Dom(t) PROVE ~(Weight(below, n) <= 0)
    BY <1>1
  <2> HIDE DEF f
  <2>3. Upto(f, 0)
    BY <2>1, <2>2
  <2> QED BY <1>1, <2>1, <2>3
<1>3. ASSUME NEW i \in 1 .. N, i - 1 \in T PROVE i \in T
  <2>1. PICK f \in [D -> V] : Upto(f, i - 1)
    BY <1>3
  <2> DEFINE value(n) == step[n][f[Left(t, n)]][f[Right(t, n)]]
             g == [n \in D |-> IF n # NULL /\ Weight(below, n) = i THEN value(n) ELSE f[n]]
  <2>2. \A n \in Dom(t) : value(n) \in V
    BY <1>1
  <2> HIDE DEF value
  <2>3. g \in [D -> V]
    BY <2>2
  <2>4. /\ g[NULL] = f[NULL]
        /\ \A n \in Dom(t) : g[n] = IF Weight(below, n) = i THEN value(n) ELSE f[n]
    BY <1>1
  <2> HIDE DEF g
  <2>5. ASSUME NEW n \in Dom(t), Weight(below, n) <= i
        PROVE  g[n] = step[n][g[Left(t, n)]][g[Right(t, n)]]
    <3>1. ASSUME NEW c \in {Left(t, n), Right(t, n)} PROVE g[c] = f[c]
      <4>1. c \in D /\ Weight(below, c) # i
        <5>1. Weight(below, c) < Weight(below, n) /\ c \in D
          BY <1>1
        <5> QED BY <1>1, <2>5, <5>1
      <4> QED BY <2>4, <4>1
    <3>2. g[n] = value(n)
      <4>1. CASE Weight(below, n) = i
        BY <2>4, <4>1
      <4>2. CASE Weight(below, n) # i
        <5>1. Weight(below, n) <= i - 1
          <6>1. Weight(below, n) \in Int /\ i \in Int
            BY <1>1
          <6>2. \A a, b \in Int : a <= b /\ a # b => a <= b - 1
            OBVIOUS
          <6> QED BY <2>5, <4>2, <6>1, <6>2, Zenon
        <5> QED BY <2>1, <2>4, <4>2, <5>1 DEF value
      <4> QED BY <4>1, <4>2
    <3> QED BY <3>1, <3>2 DEF value
  <2>6. Upto(g, i)
    BY <2>1, <2>4, <2>5
  <2>7. i \in 0 .. N
    BY <1>1
  <2> HIDE DEF Upto
  <2> QED BY <2>3, <2>6, <2>7
<1> HIDE DEF T
<1>4. \A i \in 0 .. N : i \in T
  BY <1>1, <1>2, <1>3, StepByStep
<1>5. PICK f \in [D -> V] : Upto(f, N)
  <2>1. N \in T
    BY <1>1, <1>4
  <2> QED BY <2>1 DEF T
<1>6. Recursion(t, f, base, step)
  BY <1>1, <1>5 DEF Recursion
<1> QED BY <1>6

\* Subtree is the function that gives the nodes below each node.
LEMMA SubtreeIsBelow ==
  ASSUME NEW t, NEW below, Sound(t, below)
  PROVE  Subtree(t) = below
<1> DEFINE D == Dom(t) \cup {NULL}
           Equation(f) == f = [n \in D |-> IF n = NULL THEN {}
                                           ELSE {n} \cup f[Left(t, n)] \cup f[Right(t, n)]]
           f == Subtree(t)
<1>1. \A n \in Dom(t) : n # NULL
  BY DEF Sound
<1>2. Equation(below)
  <2>1. below = [n \in D |-> below[n]]
    BY DEF Sound
  <2>2. \A n \in D : below[n] = IF n = NULL THEN {}
                                ELSE {n} \cup below[Left(t, n)] \cup below[Right(t, n)]
    BY <1>1 DEF Sound
  <2> QED BY <2>1, <2>2
<1>3. f = CHOOSE g : Equation(g)
  BY DEF Subtree, Dom, Left, Right
<1> HIDE DEF f
<1>4. Equation(f)
  <2> HIDE DEF Equation
  <2> QED BY <1>2, <1>3, Zenon
<1>5. /\ f = [n \in D |-> f[n]] /\ f[NULL] = {}
      /\ \A n \in Dom(t) : f[n] = {n} \cup f[Left(t, n)] \cup f[Right(t, n)]
  <2>1. f = [n \in D |-> f[n]]
    BY <1>4
  <2>2. \A n \in D : f[n] = IF n = NULL THEN {} ELSE {n} \cup f[Left(t, n)] \cup f[Right(t, n)]
    BY <1>4, Zenon
  <2> QED BY <1>1, <2>1, <2>2
<1> DEFINE S == {n \in Dom(t) : f[n] = below[n]}
<1>6. ASSUME NEW n \in Dom(t), Left(t, n) \in S \cup {NULL}, Right(t, n) \in S \cup {NULL}
      PROVE  n \in S
  <2>1. \A m \in S \cup {NULL} : f[m] = below[m]
    BY <1>5 DEF Sound
  <2>2. below[n] = {n} \cup below[Left(t, n)] \cup below[Right(t, n)]
    BY DEF Sound
  <2>3. f[n] = {n} \cup f[Left(t, n)] \cup f[Right(t, n)]
    BY <1>5
  <2>4. f[Left(t, n)] = below[Left(t, n)] /\ f[Right(t, n)] = below[Right(t, n)]
    BY <1>6, <2>1
  <2> QED BY <2>2, <2>3, <2>4
<1> HIDE DEF S
<1>7. Dom(t) \subseteq S
  BY <1>6, TreeInduction
<1>8. \A n \in D : f[n] = below[n]
  BY <1>5, <1>7 DEF S, Sound
<1>9. below = [n \in D |-> below[n]]
  BY DEF Sound
<1> QED BY <1>5, <1>8, <1>9 DEF f

-----------------------------------------------------------------------------
(* What a new node, and the unlinking of one, do to a search tree u that   *)
(* was t.                                                                  *)

\* A new node at a location where its key fits.
LEMMA InsertSound ==
  ASSUME NEW t, NEW below, Sound(t, below), NEW p \in Locations(t), At(t, p) = NULL,
         NEW key \in Int, Fits(t, below, key, p), NEW n, n \notin Dom(t), n # NULL,
         NEW u, Dom(u) = Dom(t) \cup {n}, u.root = IF p = Root THEN n ELSE t.root,
         KeyOf(u, n) = key, Left(u, n) = NULL, Right(u, n) = NULL,
         \A x \in Dom(t) :
           /\ KeyOf(u, x) = KeyOf(t, x)
           /\ Left(u, x) = IF p = Field(x, "left") THEN n ELSE Left(t, x)
           /\ Right(u, x) = IF p = Field(x, "right") THEN n ELSE Right(t, x)
  PROVE  \E b : Sound(u, b)
<1>1. /\ IsFiniteSet(Dom(u)) /\ NULL \notin Dom(u)
      /\ \A x \in Dom(t) : x # n /\ x # NULL
  BY FS_AddElement DEF Sound
<1>2. CASE p = Root
  <2> DEFINE b == [x \in {n, NULL} |-> IF x = n THEN {n} ELSE {}]
  <2>1. Dom(t) = {} /\ Dom(u) = {n} /\ u.root = n
    <3>1. t.root = NULL
      BY <1>2, LocationFacts
    <3> QED BY <1>2, <3>1 DEF Sound
  <2>2. /\ b \in [Dom(u) \cup {NULL} -> SUBSET Dom(u)]
        /\ b[NULL] = {} /\ b[n] = {n}
    BY <2>1
  <2> HIDE DEF b
  <2>3. Sound(u, b)
    BY <1>1, <2>1, <2>2 DEF Sound
  <2> QED BY <2>3
<1>3. CASE p # Root
  <2> DEFINE y == p.node
             D == Dom(t)
             b == [x \in Dom(u) \cup {NULL} |->
                     IF x = n THEN {n} ELSE IF y \in below[x] THEN below[x] \cup {n} ELSE below[x]]
  <2>1. y \in D /\ p \in {Field(y, "left"), Field(y, "right")} /\ u.root = t.root
    BY <1>3, LocationFacts
  <2>2. /\ t.root \in D /\ below[t.root] = D /\ below[NULL] = {}
        /\ \A x \in D \cup {NULL} : below[x] \subseteq D
    BY <2>1 DEF Sound
  <2>3. /\ b \in [Dom(u) \cup {NULL} -> SUBSET Dom(u)]
        /\ b[NULL] = {} /\ b[u.root] = Dom(u) /\ b[n] = {n}
        /\ \A x \in D \cup {NULL} : b[x] = IF y \in below[x] THEN below[x] \cup {n} ELSE below[x]
    BY <1>1, <2>1, <2>2
  <2> HIDE DEF b
  <2>4. ASSUME NEW x \in D
        PROVE  /\ b[Left(u, x)] = IF p = Field(x, "left") \/ y \in below[Left(t, x)]
                                  THEN below[Left(t, x)] \cup {n} ELSE below[Left(t, x)]
               /\ b[Right(u, x)] = IF p = Field(x, "right") \/ y \in below[Right(t, x)]
                                   THEN below[Right(t, x)] \cup {n} ELSE below[Right(t, x)]
    <3>1. Left(t, x) \in D \cup {NULL} /\ Right(t, x) \in D \cup {NULL}
      BY DEF Sound
    <3>2. /\ p = Field(x, "left") => Left(t, x) = NULL
          /\ p = Field(x, "right") => Right(t, x) = NULL
      BY LocationFacts
    <3> QED BY <2>2, <2>3, <3>1, <3>2
  <2>5. ASSUME NEW x \in D
        PROVE  /\ x = y <=> p = Field(x, "left") \/ p = Field(x, "right")
               /\ y \in below[x] <=> x = y \/ y \in below[Left(t, x)] \/ y \in below[Right(t, x)]
               /\ below[x] = {x} \cup below[Left(t, x)] \cup below[Right(t, x)]
    <3>1. Field(x, "left").node = x /\ Field(x, "right").node = x
      BY DEF Field
    <3> QED BY <2>1, <3>1 DEF Sound
  <2>6. ASSUME NEW x \in D PROVE b[x] = {x} \cup b[Left(u, x)] \cup b[Right(u, x)]
    <3>1. CASE y \in below[x]
      <4>1. b[x] = below[x] \cup {n}
        BY <2>3, <3>1
      <4>2. \/ n \in b[Left(u, x)] \/ n \in b[Right(u, x)]
        <5>1. \/ p = Field(x, "left") \/ y \in below[Left(t, x)]
              \/ p = Field(x, "right") \/ y \in below[Right(t, x)]
          BY <2>5, <3>1
        <5>2. CASE p = Field(x, "left") \/ y \in below[Left(t, x)]
          BY <2>4, <5>2
        <5>3. CASE p = Field(x, "right") \/ y \in below[Right(t, x)]
          BY <2>4, <5>3
        <5> QED BY <5>1, <5>2, <5>3
      <4>3. /\ b[Left(u, x)] \cup {n} = below[Left(t, x)] \cup {n}
            /\ b[Right(u, x)] \cup {n} = below[Right(t, x)] \cup {n}
        BY <2>4
      <4> QED BY <2>5, <4>1, <4>2, <4>3
    <3>2. CASE y \notin below[x]
      <4>1. b[x] = below[x]
        BY <2>3, <3>2
      <4>2. b[Left(u, x)] = below[Left(t, x)] /\ b[Right(u, x)] = below[Right(t, x)]
        BY <2>4, <2>5, <3>2
      <4> QED BY <2>5, <4>1, <4>2
    <3> QED BY <3>1, <3>2
  <2>7. b[n] = {n} \cup b[Left(u, n)] \cup b[Right(u, n)]
    BY <2>3
  <2>8. ASSUME NEW x \in D
        PROVE  /\ \A m \in b[Left(u, x)] : KeyOf(u, m) < KeyOf(u, x)
               /\ \A m \in b[Right(u, x)] : KeyOf(u, m) > KeyOf(u, x)
    <3>1. /\ p = Field(x, "left") \/ y \in below[Left(t, x)] => key < KeyOf(t, x)
          /\ p = Field(x, "right") \/ y \in below[Right(t, x)] => key > KeyOf(t, x)
      BY <1>3 DEF Fits
    <3>2. /\ \A m \in below[Left(t, x)] : m \in D /\ KeyOf(t, m) < KeyOf(t, x)
          /\ \A m \in below[Right(t, x)] : m \in D /\ KeyOf(t, m) > KeyOf(t, x)
      BY <2>2 DEF Sound
    <3> QED BY <2>4, <3>1, <3>2
  <2>9. \A x \in Dom(u) : /\ KeyOf(u, x) \in Int
                          /\ Left(u, x) \in Dom(u) \cup {NULL}
                          /\ Right(u, x) \in Dom(u) \cup {NULL}
    BY DEF Sound
  <2>10. \A m \in b[NULL] : FALSE
    BY <2>3
  <2>11. Sound(u, b)
    BY <1>1, <2>1, <2>2, <2>3, <2>6, <2>7, <2>8, <2>9 DEF Sound
  <2> QED BY <2>11
<1> QED BY <1>2, <1>3

\* The location of a node that has at most one child is given that child.
LEMMA SpliceSound ==
  ASSUME NEW t, NEW below, Sound(t, below), NEW d \in Dom(t), NEW c \in {Left(t, d), Right(t, d)},
         {Left(t, d), Right(t, d)} \subseteq {c, NULL},
         NEW u, Dom(u) = Dom(t) \ {d}, u.root = IF t.root = d THEN c ELSE t.root,
         \A x \in Dom(u) :
           /\ KeyOf(u, x) = KeyOf(t, x)
           /\ Left(u, x) = IF Left(t, x) = d THEN c ELSE Left(t, x)
           /\ Right(u, x) = IF Right(t, x) = d THEN c ELSE Right(t, x)
  PROVE  \E b : Sound(u, b)
<1> DEFINE D == Dom(t)
           b == [x \in Dom(u) \cup {NULL} |-> below[x] \ {d}]
<1>1. /\ below[d] = {d} \cup below[c] /\ d \notin below[c] /\ below[NULL] = {}
      /\ c \in D \cup {NULL} /\ c # d /\ NULL \notin D /\ d # NULL
  <2>1. /\ below[d] = {d} \cup below[Left(t, d)] \cup below[Right(t, d)] /\ below[NULL] = {}
        /\ Left(t, d) \in D \cup {NULL} /\ Right(t, d) \in D \cup {NULL} /\ NULL \notin D
    BY DEF Sound
  <2>2. d \notin below[c]
    BY ChildrenAreLighter
  <2>3. c # d
    BY <2>1, <2>2
  <2> QED BY <2>1, <2>2, <2>3
<1>2. IsFiniteSet(Dom(u)) /\ NULL \notin Dom(u) /\ \A x \in D \cup {NULL} : below[x] \subseteq D
  BY FS_Subset DEF Sound
<1>3. /\ b \in [Dom(u) \cup {NULL} -> SUBSET Dom(u)] /\ b[NULL] = {}
      /\ \A x \in Dom(u) \cup {NULL} : b[x] = below[x] \ {d}
  BY <1>1, <1>2
<1> HIDE DEF b
<1>4. u.root \in Dom(u) \cup {NULL} /\ b[u.root] = Dom(u)
  <2>1. t.root \in D \cup {NULL} /\ below[t.root] = D
    BY DEF Sound
  <2>2. u.root \in Dom(u) \cup {NULL}
    BY <1>1, <2>1
  <2>3. CASE t.root = d
    BY <1>1, <1>3, <2>1, <2>2, <2>3
  <2>4. CASE t.root # d
    BY <1>3, <2>1, <2>2, <2>4
  <2> QED BY <2>2, <2>3, <2>4
<1>5. ASSUME NEW x \in Dom(u)
      PROVE  /\ Left(u, x) \in Dom(u) \cup {NULL} /\ b[Left(u, x)] = below[Left(t, x)] \ {d}
             /\ Right(u, x) \in Dom(u) \cup {NULL} /\ b[Right(u, x)] = below[Right(t, x)] \ {d}
  <2>1. Left(t, x) \in D \cup {NULL} /\ Right(t, x) \in D \cup {NULL}
    BY DEF Sound
  <2>2. Left(u, x) \in Dom(u) \cup {NULL} /\ Right(u, x) \in Dom(u) \cup {NULL}
    BY <1>1, <2>1
  <2> QED BY <1>1, <1>3, <2>1, <2>2
<1>6. ASSUME NEW x \in Dom(u)
      PROVE  /\ KeyOf(u, x) \in Int
             /\ b[x] = {x} \cup b[Left(u, x)] \cup b[Right(u, x)]
             /\ \A m \in b[Left(u, x)] : KeyOf(u, m) < KeyOf(u, x)
             /\ \A m \in b[Right(u, x)] : KeyOf(u, m) > KeyOf(u, x)
  <2>1. /\ KeyOf(t, x) \in Int
        /\ below[x] = {x} \cup below[Left(t, x)] \cup below[Right(t, x)]
        /\ \A m \in below[Left(t, x)] : m \in D /\ KeyOf(t, m) < KeyOf(t, x)
        /\ \A m \in below[Right(t, x)] : m \in D /\ KeyOf(t, m) > KeyOf(t, x)
    BY <1>2 DEF Sound
  <2> QED BY <1>3, <1>5, <2>1
<1>7. Sound(u, b)
  BY <1>2, <1>3, <1>4, <1>5, <1>6 DEF Sound
<1> QED BY <1>7

\* The lowest node to the right of d is taken out of its location, which is given its
\* right child, and put in the place of d.
LEMMA ReplaceSound ==
  ASSUME NEW t, NEW below, Sound(t, below), NEW d \in Dom(t),
         NEW s \in below[Right(t, d)], Left(t, s) = NULL,
         \A m \in below[Right(t, d)] \ {s} : KeyOf(t, m) > KeyOf(t, s),
         NEW u, Dom(u) = Dom(t) \ {d}, u.root = IF t.root = d THEN s ELSE t.root,
         Left(u, s) = Left(t, d),
         Right(u, s) = IF Right(t, d) = s THEN Right(t, s) ELSE Right(t, d),
         \A x \in Dom(u) : KeyOf(u, x) = KeyOf(t, x),
         \A x \in Dom(u) \ {s} :
           /\ Left(u, x) = IF Left(t, x) = d THEN s
                           ELSE IF Left(t, x) = s THEN Right(t, s) ELSE Left(t, x)
           /\ Right(u, x) = IF Right(t, x) = d THEN s
                            ELSE IF Right(t, x) = s THEN Right(t, s) ELSE Right(t, x)
  PROVE  \E b : Sound(u, b)
<1> DEFINE D == Dom(t)
           r == Right(t, s)
           B(x) == IF d \in below[x] THEN below[x] \ {d} ELSE below[x] \ {s}
           b == [x \in Dom(u) \cup {NULL} |-> IF x = s THEN below[d] \ {d} ELSE B(x)]
<1>1. /\ IsFiniteSet(D) /\ NULL \notin D /\ below[NULL] = {}
      /\ t.root \in D \cup {NULL} /\ below[t.root] = D
      /\ \A x \in D \cup {NULL} : below[x] \subseteq D
      /\ \A x \in D : /\ Left(t, x) \in D \cup {NULL} /\ Right(t, x) \in D \cup {NULL}
                      /\ KeyOf(t, x) \in Int
                      /\ below[x] = {x} \cup below[Left(t, x)] \cup below[Right(t, x)]
                      /\ \A m \in below[Left(t, x)] : KeyOf(t, m) < KeyOf(t, x)
                      /\ \A m \in below[Right(t, x)] : KeyOf(t, m) > KeyOf(t, x)
  BY DEF Sound
<1>2. \A x \in D : x \notin below[Left(t, x)] /\ x \notin below[Right(t, x)]
                   /\ below[Left(t, x)] \cap below[Right(t, x)] = {}
  BY SidesApart, ChildrenAreLighter
<1>3. \A x \in D \cup {NULL} : \A y \in below[x] : below[y] \subseteq below[x]
  BY BelowTransitive
<1>4. /\ s \in D /\ s # d /\ s # NULL /\ d # NULL /\ s \in below[d]
      /\ below[s] = {s} \cup below[r] /\ s \notin below[r] /\ r \in D \cup {NULL}
      /\ below[s] \subseteq below[Right(t, d)] /\ d \notin below[s] /\ d \notin below[r]
      /\ s \notin below[Left(t, d)] /\ KeyOf(t, s) > KeyOf(t, d)
  BY <1>1, <1>2, <1>3
<1> d \in below[d] /\ s \in below[s]
  BY <1>1, <1>4
<1>5. /\ IsFiniteSet(Dom(u)) /\ NULL \notin Dom(u) /\ s \in Dom(u)
  BY <1>1, <1>4, FS_Subset
<1>6. /\ b \in [Dom(u) \cup {NULL} -> SUBSET Dom(u)] /\ b[NULL] = {}
      /\ b[s] = below[d] \ {d}
      /\ \A x \in (Dom(u) \cup {NULL}) \ {s} : b[x] = B(x)
  <2>1. below[d] \ {d} \subseteq Dom(u)
    BY <1>1
  <2>2. ASSUME NEW x \in Dom(u) \cup {NULL} PROVE B(x) \subseteq Dom(u)
    <3>1. below[x] \subseteq D
      BY <1>1
    <3> QED BY <3>1
  <2>3. B(NULL) = {}
    BY <1>1
  <2> HIDE DEF B
  <2> QED BY <1>4, <1>5, <2>1, <2>2, <2>3
<1> HIDE DEF b
\* The child of a node other than s, in the old tree and in the new one.
<1> DEFINE Moved(c) == IF c = d THEN s ELSE IF c = s THEN r ELSE c
<1>7. ASSUME NEW c \in D \cup {NULL}, c # s \/ d \notin below[c]
      PROVE  /\ Moved(c) \in Dom(u) \cup {NULL}
             /\ b[Moved(c)] = B(c)
  <2>1. CASE c = d
    BY <1>4, <1>5, <1>6, <2>1
  <2>2. CASE c = s
    <3>1. Moved(c) = r /\ r # s /\ r # d
      BY <1>1, <1>4, <2>2
    <3>2. b[r] = B(r) /\ r \in Dom(u) \cup {NULL}
      BY <1>4, <1>6, <3>1
    <3>3. B(r) = B(s)
      BY <1>4
    <3> QED BY <2>2, <3>1, <3>2, <3>3
  <2>3. CASE c # d /\ c # s
    BY <1>6, <2>3
  <2> QED BY <2>1, <2>2, <2>3
<1>8. ASSUME NEW x \in Dom(u), x # s
      PROVE  /\ Left(u, x) \in Dom(u) \cup {NULL} /\ b[Left(u, x)] = B(Left(t, x))
             /\ Right(u, x) \in Dom(u) \cup {NULL} /\ b[Right(u, x)] = B(Right(t, x))
  <2>1. Left(u, x) = Moved(Left(t, x)) /\ Right(u, x) = Moved(Right(t, x))
    BY <1>8
  <2>2. Left(t, x) \in D \cup {NULL} /\ Right(t, x) \in D \cup {NULL}
    BY <1>1
  <2>3. \A c \in {Left(t, x), Right(t, x)} : c # s \/ d \notin below[c]
    BY <1>4
  <2> HIDE DEF Moved, B
  <2> QED BY <1>7, <2>1, <2>2, <2>3
<1>9. /\ Left(u, s) \in Dom(u) \cup {NULL} /\ b[Left(u, s)] = below[Left(t, d)]
      /\ Right(u, s) \in Dom(u) \cup {NULL} /\ b[Right(u, s)] = below[Right(t, d)] \ {s}
  <2>1. Left(t, d) \in D \cup {NULL} /\ Right(t, d) \in D \cup {NULL}
    BY <1>1
  <2>2. d \notin below[Left(t, d)] /\ d \notin below[Right(t, d)]
    BY <1>2
  <2>3. Left(t, d) # d /\ Left(t, d) # s /\ Right(t, d) # d
    BY <1>4, <2>2
  <2>4. b[Left(u, s)] = below[Left(t, d)]
    <3>1. Left(t, d) \in (Dom(u) \cup {NULL}) \ {s}
      BY <2>1, <2>3
    <3>2. B(Left(t, d)) = below[Left(t, d)]
      BY <1>4, <2>2
    <3> HIDE DEF B
    <3> QED BY <1>6, <3>1, <3>2
  <2>5. CASE Right(t, d) = s
    <3>1. Right(u, s) = r /\ r # s /\ r # d
      BY <1>1, <1>4, <2>5
    <3>2. b[r] = below[r] \ {s}
      BY <1>4, <1>6, <3>1
    <3> QED BY <1>4, <2>1, <2>3, <2>4, <2>5, <3>1, <3>2
  <2>6. CASE Right(t, d) # s
    BY <1>6, <2>1, <2>2, <2>3, <2>4, <2>6
  <2> QED BY <2>5, <2>6
<1>10. u.root \in Dom(u) \cup {NULL} /\ b[u.root] = Dom(u)
  <2>1. CASE t.root = d
    BY <1>1, <1>4, <1>5, <1>6, <2>1
  <2>2. CASE t.root # d
    <3>1. d \in below[t.root] /\ t.root \notin {s, d}
      BY <1>1, <1>4, <2>2
    <3> QED BY <1>1, <1>6, <2>2, <3>1
  <2> QED BY <2>1, <2>2
<1>11. ASSUME NEW x \in Dom(u) \ {s}
       PROVE  b[x] = {x} \cup b[Left(u, x)] \cup b[Right(u, x)]
  <2> DEFINE c1 == Left(t, x)
             c2 == Right(t, x)
  <2>1. /\ x \in D /\ x # d /\ x # s /\ b[x] = B(x)
        /\ c1 \in D \cup {NULL} /\ c2 \in D \cup {NULL}
        /\ below[x] = {x} \cup below[c1] \cup below[c2] /\ below[c1] \cap below[c2] = {}
    BY <1>1, <1>2, <1>6
  <2>2. \A c \in {c1, c2} : d \in below[c] => s \in below[c]
    BY <1>3, <1>4, <2>1
  <2>3. b[Left(u, x)] = B(c1) /\ b[Right(u, x)] = B(c2)
    BY <1>8
  <2> HIDE DEF c1, c2
  <2>4. B(x) = {x} \cup B(c1) \cup B(c2)
    <3>1. CASE d \in below[c1]
      <4>1. d \notin below[c2] /\ s \notin below[c2] /\ d \in below[x]
        BY <2>1, <2>2, <3>1
      <4> QED BY <2>1, <3>1, <4>1
    <3>2. CASE d \in below[c2]
      <4>1. d \notin below[c1] /\ s \notin below[c1] /\ d \in below[x]
        BY <2>1, <2>2, <3>2
      <4> QED BY <2>1, <3>2, <4>1
    <3>3. CASE d \notin below[c1] /\ d \notin below[c2]
      <4>1. d \notin below[x]
        BY <2>1, <3>3
      <4> QED BY <2>1, <3>3, <4>1
    <3> QED BY <3>1, <3>2, <3>3
  <2> QED BY <2>1, <2>3, <2>4
<1>12. b[s] = {s} \cup b[Left(u, s)] \cup b[Right(u, s)]
  BY <1>1, <1>2, <1>4, <1>6, <1>9
<1>13. ASSUME NEW x \in Dom(u) \ {s}
       PROVE  /\ \A m \in b[Left(u, x)] : KeyOf(u, m) < KeyOf(u, x)
              /\ \A m \in b[Right(u, x)] : KeyOf(u, m) > KeyOf(u, x)
  <2>1. /\ b[Left(u, x)] \subseteq below[Left(t, x)]
        /\ b[Right(u, x)] \subseteq below[Right(t, x)]
    BY <1>8
  <2>2. b[Left(u, x)] \subseteq Dom(u) /\ b[Right(u, x)] \subseteq Dom(u)
    BY <1>6, <1>8
  <2> HIDE DEF B
  <2> QED BY <1>1, <2>1, <2>2
<1>14. /\ \A m \in b[Left(u, s)] : KeyOf(u, m) < KeyOf(u, s)
       /\ \A m \in b[Right(u, s)] : KeyOf(u, m) > KeyOf(u, s)
  <2>1. b[Left(u, s)] \subseteq Dom(u) /\ b[Right(u, s)] \subseteq Dom(u)
    BY <1>6, <1>9
  <2>2. ASSUME NEW m \in below[Left(t, d)] PROVE KeyOf(t, m) < KeyOf(t, s)
    <3>1. KeyOf(t, m) \in Int /\ KeyOf(t, s) \in Int /\ KeyOf(t, d) \in Int /\ KeyOf(t, m) < KeyOf(t, d)
      BY <1>1, <1>4
    <3> QED BY <1>4, <3>1
  <2> QED BY <1>5, <1>9, <2>1, <2>2
<1>15. Sound(u, b)
  <2>1. \A x \in Dom(u) : KeyOf(u, x) \in Int
    BY <1>1
  <2> HIDE DEF B
  <2> QED BY <1>5, <1>6, <1>8, <1>9, <1>10, <1>11, <1>12, <1>13, <1>14, <2>1 DEF Sound
<1> QED BY <1>15

-----------------------------------------------------------------------------
(* The operations of tree.c keep the tree a search tree.                   *)

EntryOf(t, n) == t.heap[n].entry

NodeType == [entry: [key: Strings, value: Typed],
             left: Nodes \cup {NULL}, right: Nodes \cup {NULL}]

\* What a tree is made of.
LEMMA TreeFields ==
  ASSUME NEW heap, NEW root, NEW size, NEW height
  PROVE  LET t == [heap |-> heap, root |-> root, size |-> size, height |-> height] IN
         /\ t.heap = heap /\ t.root = root /\ t.size = size /\ t.height = height
         /\ Dom(t) = DOMAIN heap
         /\ \A x : /\ EntryOf(t, x) = heap[x].entry /\ KeyOf(t, x) = heap[x].entry.key
                   /\ Left(t, x) = heap[x].left /\ Right(t, x) = heap[x].right
         /\ IsTree(t) <=> /\ DOMAIN heap \subseteq Nodes /\ heap \in [DOMAIN heap -> NodeType]
                          /\ root \in Nodes \cup {NULL} /\ size \in Nat /\ height \in Nat \cup {-1}
<1> DEFINE t == [heap |-> heap, root |-> root, size |-> size, height |-> height]
<1>1. t.heap = heap /\ t.root = root /\ t.size = size /\ t.height = height
  OBVIOUS
<1>2. t = [heap |-> t.heap, root |-> t.root, size |-> t.size, height |-> t.height]
  BY <1>1
<1> HIDE DEF t
<1>3. /\ Dom(t) = DOMAIN heap
      /\ \A x : /\ EntryOf(t, x) = heap[x].entry /\ KeyOf(t, x) = heap[x].entry.key
                /\ Left(t, x) = heap[x].left /\ Right(t, x) = heap[x].right
  BY <1>1 DEF Dom, EntryOf, KeyOf, Left, Right
<1>4. IsTree(t) <=> /\ DOMAIN heap \subseteq Nodes /\ heap \in [DOMAIN heap -> NodeType]
                    /\ root \in Nodes \cup {NULL} /\ size \in Nat /\ height \in Nat \cup {-1}
  BY <1>1, <1>2 DEF IsTree, NodeType
<1> QED BY <1>1, <1>3, <1>4 DEF t

\* An assignment to a location changes what is there and nothing else.
LEMMA AssignChanges ==
  ASSUME NEW t, IsTree(t), NEW p \in Locations(t), NEW c \in Nodes \cup {NULL}
  PROVE  LET u == Assign(t, p, c) IN
         /\ IsTree(u) /\ Dom(u) = Dom(t) /\ u.size = t.size /\ u.height = t.height
         /\ u.root = IF p = Root THEN c ELSE t.root
         /\ \A x \in Dom(t) :
              /\ EntryOf(u, x) = EntryOf(t, x) /\ KeyOf(u, x) = KeyOf(t, x)
              /\ Left(u, x) = IF p = Field(x, "left") THEN c ELSE Left(t, x)
              /\ Right(u, x) = IF p = Field(x, "right") THEN c ELSE Right(t, x)
<1> DEFINE heap == t.heap
           u == Assign(t, p, c)
<1>1. /\ t = [heap |-> heap, root |-> t.root, size |-> t.size, height |-> t.height]
      /\ DOMAIN heap \subseteq Nodes /\ heap \in [DOMAIN heap -> NodeType]
      /\ t.root \in Nodes \cup {NULL} /\ t.size \in Nat /\ t.height \in Nat \cup {-1}
      /\ NULL \notin DOMAIN heap
  BY BinaryTreeAssumption DEF IsTree, NodeType
<1>2. \A x \in Dom(t) : Field(x, "left") # Root /\ Field(x, "right") # Root
  BY <1>1 DEF Field, Root, Dom
<1>3. CASE p = Root
  <2>1. u = [heap |-> heap, root |-> c, size |-> t.size, height |-> t.height]
    BY <1>1, <1>3 DEF Assign
  <2>2. /\ u.heap = heap /\ u.root = c /\ u.size = t.size /\ u.height = t.height
        /\ IsTree(u) /\ Dom(u) = DOMAIN heap
        /\ \A x : EntryOf(u, x) = heap[x].entry /\ KeyOf(u, x) = heap[x].entry.key
        /\ \A x : Left(u, x) = heap[x].left /\ Right(u, x) = heap[x].right
    BY <1>1, <2>1, TreeFields
  <2> QED BY <1>2, <1>3, <2>2 DEF Dom, EntryOf, KeyOf, Left, Right
<1>4. ASSUME NEW n \in Dom(t), NEW field \in {"left", "right"}, p = Field(n, field)
      PROVE  /\ IsTree(u) /\ Dom(u) = Dom(t) /\ u.size = t.size /\ u.height = t.height
             /\ u.root = t.root
             /\ \A x \in Dom(t) :
                  /\ EntryOf(u, x) = EntryOf(t, x) /\ KeyOf(u, x) = KeyOf(t, x)
                  /\ Left(u, x) = IF p = Field(x, "left") THEN c ELSE Left(t, x)
                  /\ Right(u, x) = IF p = Field(x, "right") THEN c ELSE Right(t, x)
  <2> DEFINE node == IF field = "left" THEN [heap[n] EXCEPT !.left = c]
                                       ELSE [heap[n] EXCEPT !.right = c]
             new == [heap EXCEPT ![n] = node]
  <2>1. p # Root /\ p.node = n /\ p.field = field /\ n \in DOMAIN heap
    BY <1>2, <1>4 DEF Field, Dom
  <2>2. u = [heap |-> [heap EXCEPT ![n] = [heap[n] EXCEPT ![field] = c]], root |-> t.root,
             size |-> t.size, height |-> t.height]
    BY <1>1, <2>1 DEF Assign
  <2>3. [heap[n] EXCEPT ![field] = c] = node
    BY <1>4
  <2>4. u = [heap |-> new, root |-> t.root, size |-> t.size, height |-> t.height]
    BY <2>2, <2>3
  <2>5. heap[n] \in NodeType
    BY <1>1, <2>1
  <2>6. /\ node \in NodeType /\ node.entry = heap[n].entry
        /\ node.left = IF field = "left" THEN c ELSE heap[n].left
        /\ node.right = IF field = "right" THEN c ELSE heap[n].right
    BY <1>4, <2>5 DEF NodeType
  <2> HIDE DEF node
  <2>7. /\ DOMAIN new = DOMAIN heap /\ new \in [DOMAIN heap -> NodeType]
        /\ \A x \in DOMAIN heap : new[x] = IF x = n THEN node ELSE heap[x]
    BY <1>1, <2>6
  <2> HIDE DEF new
  <2>8. /\ u.heap = new /\ u.root = t.root /\ u.size = t.size /\ u.height = t.height
        /\ IsTree(u) /\ Dom(u) = DOMAIN heap
        /\ \A x : EntryOf(u, x) = new[x].entry /\ KeyOf(u, x) = new[x].entry.key
        /\ \A x : Left(u, x) = new[x].left /\ Right(u, x) = new[x].right
    BY <1>1, <2>4, <2>7, TreeFields
  <2>9. \A x : /\ p = Field(x, "left") <=> x = n /\ field = "left"
               /\ p = Field(x, "right") <=> x = n /\ field = "right"
    BY <1>4 DEF Field
  <2> HIDE DEF u
  <2>10. ASSUME NEW x \in Dom(t)
         PROVE  /\ EntryOf(u, x) = EntryOf(t, x) /\ KeyOf(u, x) = KeyOf(t, x)
                /\ Left(u, x) = IF p = Field(x, "left") THEN c ELSE Left(t, x)
                /\ Right(u, x) = IF p = Field(x, "right") THEN c ELSE Right(t, x)
    <3>1. CASE x = n
      BY <2>6, <2>7, <2>8, <2>9, <3>1 DEF Dom, EntryOf, KeyOf, Left, Right
    <3>2. CASE x # n
      BY <2>7, <2>8, <2>9, <3>2 DEF Dom, EntryOf, KeyOf, Left, Right
    <3> QED BY <3>1, <3>2
  <2> QED BY <2>8, <2>10 DEF Dom
<1>5. CASE p # Root
  <2>1. PICK n \in Dom(t), field \in {"left", "right"} : p = Field(n, field)
    BY <1>5 DEF Locations
  <2> QED BY <1>4, <1>5, <2>1
<1> QED BY <1>3, <1>5

\* A value that a user types is data that can be copied.
LEMMA TypedIsData ==
  \A value \in Typed : value \in Datas /\ data_dup(value) = value /\ value # NotFound
<1> SUFFICES ASSUME NEW text \in Texts
             PROVE  LET value == data_create2(Len(text) + 1, Append(text, 0)) IN
                    value \in Datas /\ data_dup(value) = value /\ value # NotFound
  BY DEF Typed
<1> DEFINE bytes == Append(text, 0)
           value == data_create2(Len(text) + 1, bytes)
<1>1. text \in Seq(Bytes)
  BY RemoteTreeAssumption
<1>2. bytes \in Seq(Bytes) /\ Len(bytes) = Len(text) + 1 /\ Len(text) \in Nat
  BY <1>1, RemoteTreeAssumption, AppendProperties
<1> HIDE DEF bytes
<1>3. bytes # <<>> /\ Array(bytes) = bytes /\ bytes # NULL
  BY <1>2, MessagesAssumption DEF Array
<1>4. ~areParamsInvalid(Len(bytes), bytes)
  BY <1>2, <1>3 DEF areParamsInvalid
<1>5. value = [datasize |-> Len(bytes), data |-> bytes]
  BY <1>2, <1>4 DEF data_create2
<1> HIDE DEF value
<1>6. value.datasize = Len(bytes) /\ value.data = bytes
  BY <1>5
<1>7. value \in Datas
  BY <1>2, <1>3, <1>5 DEF Datas
<1>8. value # NULL
  <2>1. value \in [datasize: Nat, data: Seq(Bytes) \cup {NULL}]
    BY <1>2, <1>5
  <2> QED BY <2>1, MessagesAssumption
<1>9. data_dup(value) = value
  <2>1. copy(bytes, Len(bytes)) = bytes
    BY <1>2, <1>3, CopyWhole
  <2> QED BY <1>4, <1>5, <1>6, <1>8, <2>1 DEF data_dup, data_create2
<1>10. value # NotFound
  <2>1. ~areParamsInvalid(0, NULL)
    BY DEF areParamsInvalid
  <2>2. NotFound = [datasize |-> 0, data |-> NULL]
    BY <2>1 DEF NotFound, data_create2
  <2>3. NotFound.data = NULL
    BY <2>2
  <2> QED BY <1>3, <1>6, <2>3
<1> QED BY <1>7, <1>9, <1>10 DEF value, bytes

\* A tree with the nodes and the pointers of a search tree is one.
LEMMA SameShape ==
  ASSUME NEW t, NEW below, Sound(t, below), NEW u, Dom(u) = Dom(t), u.root = t.root,
         \A x \in Dom(t) : /\ KeyOf(u, x) = KeyOf(t, x)
                           /\ Left(u, x) = Left(t, x) /\ Right(u, x) = Right(t, x)
  PROVE  Sound(u, below)
<1>1. \A x \in Dom(t) : /\ Left(t, x) \in Dom(t) \cup {NULL} /\ Right(t, x) \in Dom(t) \cup {NULL}
                        /\ below[Left(t, x)] \subseteq Dom(t) /\ below[Right(t, x)] \subseteq Dom(t)
  BY DEF Sound
<1> QED BY <1>1 DEF Sound

-----------------------------------------------------------------------------
(* Heights.                                                                *)

\* A height for every node: that of a leaf is 0.
Tall(t, h) ==
  /\ h \in [Dom(t) \cup {NULL} -> Nat \cup {-1}] /\ h[NULL] = -1
  /\ \A n \in Dom(t) : h[n] = 1 + IntMax(h[Left(t, n)], h[Right(t, n)])

\* tree_compute_height gives that of the root.
LEMMA HeightOfRoot ==
  ASSUME NEW t, NEW below, Sound(t, below)
  PROVE  \E h : Tall(t, h) /\ tree_compute_height(t) = h[t.root]
<1> DEFINE D == Dom(t) \cup {NULL}
           V == Nat \cup {-1}
           Equation(f) == f = [n \in D |-> IF n = NULL THEN -1
                                           ELSE 1 + IntMax(f[Left(t, n)], f[Right(t, n)])]
           step == [n \in Dom(t) |-> [l \in V |-> [r \in V |-> 1 + IntMax(l, r)]]]
           height == CHOOSE f : Equation(f)
<1>1. \A n \in Dom(t) : n # NULL /\ Left(t, n) \in D /\ Right(t, n) \in D
  BY DEF Sound
<1>2. \A l, r \in V : 1 + IntMax(l, r) \in V
  BY DEF IntMax
<1>3. \E f \in [D -> V] : Recursion(t, f, -1, step)
  <2>1. step \in [Dom(t) -> [V -> [V -> V]]] /\ -1 \in V
    BY <1>2
  <2> HIDE DEF step, V
  <2> QED BY <2>1, RecursionExists
<1>4. PICK f \in [D -> V] : Recursion(t, f, -1, step)
  BY <1>3
<1>5. Equation(f)
  <2>1. \A n \in Dom(t) : f[n] = 1 + IntMax(f[Left(t, n)], f[Right(t, n)])
    <3> TAKE n \in Dom(t)
    <3>1. f[Left(t, n)] \in V /\ f[Right(t, n)] \in V
      BY <1>1
    <3>2. f[n] = step[n][f[Left(t, n)]][f[Right(t, n)]]
      BY <1>4 DEF Recursion
    <3> HIDE DEF V
    <3> QED BY <3>1, <3>2
  <2>2. f[NULL] = -1 /\ f = [n \in D |-> f[n]]
    BY <1>4 DEF Recursion
  <2> QED BY <1>1, <2>1, <2>2
<1>6. Equation(height)
  <2> HIDE DEF Equation
  <2> QED BY <1>5, Zenon
<1>7. tree_compute_height(t) = height[t.root]
  BY DEF tree_compute_height, Dom, Left, Right
<1> HIDE DEF height, V, step
<1>8. /\ height = [n \in D |-> height[n]] /\ height[NULL] = -1
      /\ \A n \in Dom(t) : height[n] = 1 + IntMax(height[Left(t, n)], height[Right(t, n)])
  <2>1. \A n \in D : height[n] = IF n = NULL THEN -1
                                 ELSE 1 + IntMax(height[Left(t, n)], height[Right(t, n)])
    BY <1>6, Zenon
  <2> QED BY <1>1, <1>6, <2>1
<1> DEFINE S == {n \in Dom(t) : height[n] \in V}
<1>9. ASSUME NEW n \in Dom(t), Left(t, n) \in S \cup {NULL}, Right(t, n) \in S \cup {NULL}
      PROVE  n \in S
  <2>1. height[Left(t, n)] \in V /\ height[Right(t, n)] \in V
    BY <1>8, <1>9 DEF V
  <2> QED BY <1>2, <1>8, <2>1
<1> HIDE DEF S
<1>10. Dom(t) \subseteq S
  BY <1>9, TreeInduction
<1>11. \A n \in D : height[n] \in V
  BY <1>8, <1>10 DEF S, V
<1>12. Tall(t, height)
  BY <1>8, <1>11 DEF Tall, V
<1> QED BY <1>7, <1>12

\* Outside of a set, the nodes of t have the same children in u.
SameOutside(t, u, Apart) ==
  \A x \in Dom(t) \ Apart : Left(u, x) = Left(t, x) /\ Right(u, x) = Right(t, x)

\* A node with none of that set below it has the same height in t and in u.
LEMMA HeightElsewhere ==
  ASSUME NEW t, NEW below, Sound(t, below), NEW h, Tall(t, h),
         NEW u, NEW g, Tall(u, g), Dom(t) \subseteq Dom(u),
         NEW Apart, SameOutside(t, u, Apart), NEW z \in Dom(t) \cup {NULL}, below[z] \cap Apart = {}
  PROVE  g[z] = h[z]
<1> DEFINE S == {y \in Dom(t) : below[y] \cap Apart = {} => g[y] = h[y]}
<1>1. g[NULL] = h[NULL]
  BY DEF Tall
<1>2. ASSUME NEW n \in Dom(t), Left(t, n) \in S \cup {NULL}, Right(t, n) \in S \cup {NULL}
      PROVE  n \in S
  <2> SUFFICES ASSUME below[n] \cap Apart = {} PROVE g[n] = h[n]
    OBVIOUS
  <2>1. below[n] = {n} \cup below[Left(t, n)] \cup below[Right(t, n)]
    BY DEF Sound
  <2>2. n \in Dom(t) \ Apart
    BY <2>1
  <2>3. g[Left(t, n)] = h[Left(t, n)] /\ g[Right(t, n)] = h[Right(t, n)]
    BY <1>1, <1>2, <2>1
  <2> QED BY <2>2, <2>3 DEF Tall, SameOutside
<1> HIDE DEF S
<1>3. Dom(t) \subseteq S
  BY <1>2, TreeInduction
<1> QED BY <1>1, <1>3 DEF S

\* Trees of the same shape have the same height.
LEMMA SameHeight ==
  ASSUME NEW t, NEW below, Sound(t, below), NEW u, Dom(u) = Dom(t), u.root = t.root,
         \A x \in Dom(t) : /\ KeyOf(u, x) = KeyOf(t, x)
                           /\ Left(u, x) = Left(t, x) /\ Right(u, x) = Right(t, x)
  PROVE  tree_compute_height(u) = tree_compute_height(t)
<1>1. PICK h : Tall(t, h) /\ tree_compute_height(t) = h[t.root]
  BY HeightOfRoot
<1>2. PICK g : Tall(u, g) /\ tree_compute_height(u) = g[u.root]
  BY SameShape, HeightOfRoot
<1>3. g[t.root] = h[t.root]
  <2>1. /\ SameOutside(t, u, {}) /\ Dom(t) \subseteq Dom(u)
        /\ below[t.root] \cap {} = {} /\ t.root \in Dom(t) \cup {NULL}
    BY DEF Sound, SameOutside
  <2> QED BY <1>1, <1>2, <2>1, HeightElsewhere
<1> QED BY <1>1, <1>2, <1>3

\* A search takes one turn after the other until it arrives, and Depth counts them.
LEMMA DepthOfSearch ==
  ASSUME NEW t, NEW below, Sound(t, below), Dom(t) \subseteq Nodes, NEW key \in Int
  PROVE  LET at == Search(t, key)
             d == Depth(t, key)
         IN /\ d \in 0 .. Cardinality(Nodes) /\ at[d] = Location(t, key)
            /\ \A i \in 0 .. Cardinality(Nodes) : i < d => ~Arrived(t, key, at[i])
<1> DEFINE N == Cardinality(Nodes)
           at == Search(t, key)
           Ends == {i \in 0 .. N : Arrived(t, key, at[i])}
<1>1. N \in Nat
  BY BinaryTreeAssumption, FS_CardinalityType
<1>2. /\ at \in [0 .. N -> Locations(t)]
      /\ \A i \in 1 .. N : at[i] = Turn(t, key, at[i - 1])
  BY SearchPasses
<1>3. Location(t, key) = at[N] /\ N \in Ends
  BY <1>1, SearchArrives DEF Location
<1> HIDE DEF at, N
<1>4. PICK d \in Ends : \A i \in Ends : d <= i
  <2>1. Ends \subseteq Nat /\ Ends # {}
    BY <1>1, <1>3
  <2> HIDE DEF Ends
  <2> QED BY <2>1, LeastNumber
<1>5. d \in 0 .. N /\ \A i \in 0 .. N : i < d => ~Arrived(t, key, at[i])
  BY <1>1, <1>4
<1>6. ASSUME NEW i \in 1 .. N
      PROVE  Arrived(t, key, at[i - 1]) <=> at[i] = at[i - 1]
  <2> DEFINE p == at[i - 1]
             n == At(t, p)
  <2>1. p \in Locations(t) /\ at[i] = Turn(t, key, p)
    BY <1>1, <1>2
  <2> HIDE DEF p
  <2>2. n \in Dom(t) \cup {NULL} /\ NULL \notin Dom(t)
    BY <2>1, LocationFacts DEF Sound
  <2>3. CASE n = NULL
    BY <2>1, <2>3 DEF Arrived, Turn, p
  <2>4. CASE n \in Dom(t)
    <3>1. KeyOf(t, n) \in Int
      BY <2>4 DEF Sound
    <3>2. Arrived(t, key, p) <=> key_compare(key, KeyOf(t, n)) = 0
      BY <2>2, <2>4, <3>1, Comparison DEF Arrived
    <3>3. \A field \in {"left", "right"} : Field(n, field) # p
      <4>1. n \in below[n] /\ n \notin below[Left(t, n)] /\ n \notin below[Right(t, n)]
        BY <2>4, SidesApart, ChildrenAreLighter
      <4>2. At(t, Field(n, "left")) = Left(t, n) /\ At(t, Field(n, "right")) = Right(t, n)
        BY <2>4, LocationFacts
      <4> QED BY <4>1, <4>2
    <3>4. Turn(t, key, p) = p <=> key_compare(key, KeyOf(t, n)) = 0
      BY <2>2, <2>4, <3>3 DEF Turn
    <3> QED BY <2>1, <3>2, <3>4 DEF p
  <2> QED BY <2>2, <2>3, <2>4
<1> DEFINE T == {i \in 0 .. N - d : at[d + i] = at[d]}
<1>7. \A i \in 0 .. N - d : i \in T
  <2>1. N - d \in Nat /\ 0 \in T
    BY <1>1, <1>5
  <2>2. ASSUME NEW i \in 1 .. N - d, i - 1 \in T PROVE i \in T
    <3> DEFINE k == d + i
    <3>1. k \in 1 .. N /\ k - 1 = d + (i - 1) /\ i \in 0 .. N - d
      BY <1>1, <1>5
    <3>2. at[k - 1] = at[d]
      BY <2>2, <3>1
    <3>3. Arrived(t, key, at[k - 1])
      BY <1>4, <3>2
    <3> HIDE DEF k
    <3>4. at[k] = at[k - 1]
      BY <1>6, <3>1, <3>3
    <3> QED BY <3>1, <3>2, <3>4 DEF k
  <2> HIDE DEF T
  <2> QED BY <2>1, <2>2, StepByStep
<1>8. \A i \in 0 .. N : i >= d => at[i] = at[d]
  <2> TAKE i \in 0 .. N
  <2> HAVE i >= d
  <2>1. i - d \in 0 .. N - d /\ d + (i - d) = i
    BY <1>1, <1>5
  <2> QED BY <1>7, <2>1
<1>9. Depth(t, key) = d
  <2>1. DOMAIN at = 0 .. N
    BY <1>2
  <2>2. {i \in DOMAIN at : i > 0 /\ at[i] # at[i - 1]} = 1 .. d
    <3>1. ASSUME NEW i \in 0 .. N, i > 0 PROVE at[i] # at[i - 1] <=> i \in 1 .. d
      <4>1. i \in 1 .. N /\ i - 1 \in 0 .. N
        BY <1>1, <3>1
      <4>2. CASE i - 1 < d
        <5>1. at[i] # at[i - 1]
          BY <1>5, <1>6, <4>1, <4>2
        <5> QED BY <1>5, <4>1, <4>2, <5>1
      <4>3. CASE ~(i - 1 < d)
        <5>1. at[i - 1] = at[d] /\ at[i] = at[d]
          BY <1>5, <1>8, <4>1, <4>3
        <5> QED BY <1>5, <4>1, <4>3, <5>1
      <4> QED BY <4>2, <4>3
    <3>2. 1 .. d \subseteq 0 .. N /\ \A i \in 1 .. d : i > 0
      BY <1>1, <1>5
    <3> QED BY <2>1, <3>1, <3>2
  <2>3. Cardinality(1 .. d) = d
    BY <1>1, <1>5, FS_Interval
  <2> QED BY <2>2, <2>3 DEF Depth, at
<1>10. at[d] = Location(t, key)
  BY <1>1, <1>3, <1>5, <1>8
<1> QED BY <1>5, <1>9, <1>10 DEF at, N

\* A new node makes the tree as high as the search for its place was deep, if it was
\* not as high before.
LEMMA HeightOfInsertion ==
  ASSUME NEW t, NEW below, Sound(t, below), Dom(t) \subseteq Nodes, NEW key \in Int,
         NEW p, p = Location(t, key), At(t, p) = NULL,
         NEW n, n \notin Dom(t), n # NULL, NEW u, NEW b, Sound(u, b),
         Dom(u) = Dom(t) \cup {n}, u.root = IF p = Root THEN n ELSE t.root,
         Left(u, n) = NULL, Right(u, n) = NULL,
         \A x \in Dom(t) : /\ Left(u, x) = IF p = Field(x, "left") THEN n ELSE Left(t, x)
                           /\ Right(u, x) = IF p = Field(x, "right") THEN n ELSE Right(t, x)
  PROVE  /\ tree_compute_height(u) = IntMax(Depth(t, key), tree_compute_height(t))
         /\ t.root = NULL => tree_compute_height(u) = 0
<1> DEFINE at == Search(t, key)
           d == Depth(t, key)
           N == Cardinality(Nodes)
           V == Nat \cup {-1}
<1>1. PICK h : Tall(t, h) /\ tree_compute_height(t) = h[t.root]
  BY HeightOfRoot
<1>2. PICK g : Tall(u, g) /\ tree_compute_height(u) = g[u.root]
  BY HeightOfRoot
<1>3. /\ p \in Locations(t) /\ Fits(t, below, key, p)
      /\ N \in Nat /\ d \in 0 .. N /\ at[d] = p
      /\ \A i \in 0 .. N : i < d => ~Arrived(t, key, at[i])
  BY SearchArrives, DepthOfSearch, BinaryTreeAssumption, FS_CardinalityType
<1>4. /\ at \in [0 .. N -> Locations(t)] /\ at[0] = Root
      /\ \A i \in 1 .. N : at[i] = Turn(t, key, at[i - 1])
  BY SearchPasses
<1> HIDE DEF at, d, N
<1>5. ASSUME NEW q \in Locations(t) PROVE At(u, q) = IF q = p THEN n ELSE At(t, q)
  <2>1. q = Root \/ (q.node \in Dom(t) /\ q \in {Field(q.node, "left"), Field(q.node, "right")})
    BY LocationFacts
  <2>2. CASE q = Root
    BY <2>2, LocationFacts
  <2>3. CASE q.node \in Dom(t) /\ q = Field(q.node, "left")
    <3> DEFINE x == q.node
    <3>1. At(u, Field(x, "left")) = Left(u, x) /\ At(t, Field(x, "left")) = Left(t, x)
      BY <2>3, LocationFacts
    <3> QED BY <2>3, <3>1
  <2>4. CASE q.node \in Dom(t) /\ q = Field(q.node, "right")
    <3> DEFINE x == q.node
    <3>1. At(u, Field(x, "right")) = Right(u, x) /\ At(t, Field(x, "right")) = Right(t, x)
      BY <2>4, LocationFacts
    <3> QED BY <2>4, <3>1
  <2> QED BY <2>1, <2>2, <2>3, <2>4
<1> DEFINE Apart == {x \in Dom(t) : p = Field(x, "left") \/ p = Field(x, "right")}
<1>6. ASSUME NEW y \in Dom(t) \cup {NULL}, p # Root => p.node \notin below[y] PROVE g[y] = h[y]
  <2>1. below[y] \cap Apart = {}
    <3> SUFFICES ASSUME NEW x \in Apart PROVE x \notin below[y]
      OBVIOUS
    <3>1. p # Root
      BY LocationFacts
    <3>2. p.node = x
      BY DEF Field
    <3> QED BY <1>6, <3>1, <3>2
  <2>2. SameOutside(t, u, Apart) /\ Dom(t) \subseteq Dom(u)
    BY DEF SameOutside
  <2>3. Tall(t, h) /\ Tall(u, g)
    BY <1>1, <1>2
  <2> HIDE DEF Apart
  <2> QED BY <2>1, <2>2, <2>3, HeightElsewhere
<1> HIDE DEF Apart
<1>7. /\ \A y \in Dom(t) \cup {NULL} : h[y] \in V
      /\ \A y \in Dom(u) \cup {NULL} : g[y] \in V
      /\ h[NULL] = -1 /\ g[NULL] = -1
      /\ \A x \in Dom(t) : h[x] = 1 + IntMax(h[Left(t, x)], h[Right(t, x)])
      /\ \A x \in Dom(u) : g[x] = 1 + IntMax(g[Left(u, x)], g[Right(u, x)])
  BY <1>1, <1>2 DEF Tall
<1> DEFINE T == {i \in 0 .. d : g[At(u, at[d - i])] = IntMax(h[At(t, at[d - i])], i)}
<1>8. 0 \in T
  <2>1. d - 0 = d /\ 0 \in 0 .. d
    BY <1>3
  <2>2. At(u, at[d]) = n /\ At(t, at[d]) = NULL
    BY <1>3, <1>5
  <2>3. g[n] = 0
    <3>1. g[n] = 1 + IntMax(-1, -1)
      BY <1>7
    <3> QED BY <3>1 DEF IntMax
  <2>4. IntMax(-1, 0) = 0
    BY DEF IntMax
  <2> QED BY <1>7, <2>1, <2>2, <2>3, <2>4
<1>9. ASSUME NEW i \in 1 .. d, i - 1 \in T PROVE i \in T
  <2> DEFINE j == d - i
             x == At(t, at[j])
             c == at[j + 1]
  <2>1. /\ j \in 0 .. N /\ j + 1 \in 1 .. N /\ j + 1 \in 0 .. N /\ j < d /\ (j + 1) - 1 = j
        /\ i \in 0 .. d /\ i - 1 \in Nat /\ d - (i - 1) = j + 1
    BY <1>3
  <2>2. g[At(u, c)] = IntMax(h[At(t, c)], i - 1)
    BY <1>9, <2>1
  <2>3. at[j] \in Locations(t) /\ c \in Locations(t) /\ c = Turn(t, key, at[j]) /\ ~Arrived(t, key, at[j])
    BY <1>3, <1>4, <2>1
  <2> HIDE DEF j, c
  <2>4. x \in Dom(t) /\ KeyOf(t, x) # key /\ KeyOf(t, x) \in Int
    BY <2>3, LocationFacts DEF Arrived, Sound
  <2>5. at[j] # p /\ At(u, at[j]) = x
    BY <1>5, <2>3 DEF Arrived
  <2>6. c = IF key < KeyOf(t, x) THEN Field(x, "left") ELSE Field(x, "right")
    <3>1. x # NULL
      BY <2>4 DEF Sound
    <3> QED BY <2>3, <2>4, <3>1, Comparison DEF Turn
  <2> HIDE DEF x
  <2>7. /\ At(t, Field(x, "left")) = Left(t, x) /\ At(u, Field(x, "left")) = Left(u, x)
        /\ At(t, Field(x, "right")) = Right(t, x) /\ At(u, Field(x, "right")) = Right(u, x)
        /\ Left(t, x) \in Dom(t) \cup {NULL} /\ Right(t, x) \in Dom(t) \cup {NULL}
    BY <2>4, LocationFacts DEF Sound
  <2>8. /\ h[x] = 1 + IntMax(h[Left(t, x)], h[Right(t, x)])
        /\ g[x] = 1 + IntMax(g[Left(u, x)], g[Right(u, x)])
        /\ h[Left(t, x)] \in V /\ h[Right(t, x)] \in V
    BY <1>7, <2>4, <2>7
  <2>9. \A k, l \in V, m \in Nat : /\ 1 + IntMax(IntMax(k, m), l) = IntMax(1 + IntMax(k, l), m + 1)
                                   /\ 1 + IntMax(l, IntMax(k, m)) = IntMax(1 + IntMax(l, k), m + 1)
    BY DEF IntMax
  <2>10. (i - 1) + 1 = i
    BY <1>3
  <2>11. g[x] = IntMax(h[x], i)
    <3>1. CASE key < KeyOf(t, x)
      <4>1. g[Left(u, x)] = IntMax(h[Left(t, x)], i - 1)
        BY <2>2, <2>6, <2>7, <3>1
      <4>2. p # Field(x, "right") /\ (p # Root => p.node \notin below[Right(t, x)])
        BY <1>3, <2>4, <3>1 DEF Fits
      <4>3. g[Right(u, x)] = h[Right(t, x)]
        BY <1>6, <2>4, <2>7, <4>2
      <4> HIDE DEF V
      <4>4. 1 + IntMax(IntMax(h[Left(t, x)], i - 1), h[Right(t, x)])
            = IntMax(1 + IntMax(h[Left(t, x)], h[Right(t, x)]), (i - 1) + 1)
        BY <2>1, <2>8, <2>9
      <4> QED BY <2>8, <2>10, <4>1, <4>3, <4>4
    <3>2. CASE ~(key < KeyOf(t, x))
      <4>1. g[Right(u, x)] = IntMax(h[Right(t, x)], i - 1)
        BY <2>2, <2>6, <2>7, <3>2
      <4>2. p # Field(x, "left") /\ (p # Root => p.node \notin below[Left(t, x)])
        BY <1>3, <2>4, <3>2 DEF Fits
      <4>3. g[Left(u, x)] = h[Left(t, x)]
        BY <1>6, <2>4, <2>7, <4>2
      <4> HIDE DEF V
      <4>4. 1 + IntMax(h[Left(t, x)], IntMax(h[Right(t, x)], i - 1))
            = IntMax(1 + IntMax(h[Left(t, x)], h[Right(t, x)]), (i - 1) + 1)
        BY <2>1, <2>8, <2>9
      <4> QED BY <2>8, <2>10, <4>1, <4>3, <4>4
    <3> QED BY <3>1, <3>2
  <2> QED BY <2>1, <2>5, <2>11 DEF j, x
<1> HIDE DEF T
<1>10. d \in T
  <2>1. \A i \in 0 .. d : i \in T
    BY <1>3, <1>8, <1>9, StepByStep
  <2> QED BY <1>3, <2>1
<1>11. g[u.root] = IntMax(h[t.root], d)
  <2>1. d - d = 0 /\ At(u, Root) = u.root /\ At(t, Root) = t.root
    BY <1>3, LocationFacts
  <2> QED BY <1>4, <1>10, <2>1 DEF T
<1>12. IntMax(h[t.root], d) = IntMax(d, h[t.root])
  <2>1. h[t.root] \in Int /\ d \in Int
    BY <1>3, <1>7 DEF Sound
  <2> QED BY <2>1 DEF IntMax
<1>13. ASSUME t.root = NULL PROVE g[u.root] = 0
  <2>1. p = Root
    <3>1. Arrived(t, key, at[0])
      BY <1>4, <1>13, LocationFacts DEF Arrived
    <3>2. d = 0
      <4>1. 0 \in 0 .. N
        BY <1>3
      <4> QED BY <1>3, <3>1, <4>1
    <3> QED BY <1>3, <1>4, <3>2
  <2>2. g[u.root] = 1 + IntMax(-1, -1)
    BY <1>7, <2>1
  <2> QED BY <2>2 DEF IntMax
<1> QED BY <1>1, <1>2, <1>11, <1>12, <1>13 DEF d

-----------------------------------------------------------------------------
(* tree_put.                                                               *)

\* t and u have the same entries, except that of the key.
OthersSame(t, u, key) ==
  /\ \A x \in Dom(u) : KeyOf(u, x) # key => x \in Dom(t) /\ EntryOf(u, x) = EntryOf(t, x)
  /\ \A x \in Dom(t) : KeyOf(t, x) # key => x \in Dom(u) /\ EntryOf(u, x) = EntryOf(t, x)

\* tree_put of a key that the tree has changes the value of its node and nothing else.
LEMMA PutOverwrites ==
  ASSUME NEW t, IsTree(t), NEW below, Sound(t, below), NEW key \in Strings, NEW value \in Typed,
         NEW n, At(t, Location(t, key)) # NULL
  PROVE  LET u == tree_put(t, n, key, value) IN
         /\ IsTree(u) /\ Sound(u, below) /\ Dom(u) = Dom(t) /\ u.size = t.size
         /\ u.height = t.height /\ tree_compute_height(u) = tree_compute_height(t)
         /\ OthersSame(t, u, key)
         /\ \E m \in Dom(u) : KeyOf(u, m) = key /\ EntryOf(u, m).value = value
<1> DEFINE heap == t.heap
           m == At(t, Location(t, key))
           entry == [key |-> key, value |-> value]
           node == [heap[m] EXCEPT !.entry = entry]
           new == [heap EXCEPT ![m] = node]
           u == tree_put(t, n, key, value)
<1>1. m \in Dom(t) /\ KeyOf(t, m) = key
  <2>1. key \in Int /\ Dom(t) \subseteq Nodes
    BY MessagesAssumption DEF IsTree, Dom
  <2> QED BY <2>1, SearchArrives, LocationFacts DEF Arrived
<1>2. entry_create(key, data_dup(value)) = entry
  BY TypedIsData DEF entry_create
<1>3. u = [t EXCEPT !.heap[m].entry = entry]
  BY <1>2 DEF tree_put
<1> HIDE DEF u, m
<1>4. /\ t = [heap |-> heap, root |-> t.root, size |-> t.size, height |-> t.height]
      /\ DOMAIN heap \subseteq Nodes /\ heap \in [DOMAIN heap -> NodeType] /\ DOMAIN heap = Dom(t)
      /\ t.root \in Nodes \cup {NULL} /\ t.size \in Nat /\ t.height \in Nat \cup {-1}
  BY DEF IsTree, NodeType, Dom
<1>5. u = [heap |-> new, root |-> t.root, size |-> t.size, height |-> t.height]
  BY <1>3, <1>4
<1>6. /\ node \in NodeType /\ node.entry = entry
      /\ node.left = heap[m].left /\ node.right = heap[m].right
  BY <1>1, <1>4 DEF NodeType
<1> HIDE DEF node
<1>7. /\ DOMAIN new = DOMAIN heap /\ new \in [DOMAIN heap -> NodeType]
      /\ \A x \in DOMAIN heap : new[x] = IF x = m THEN node ELSE heap[x]
  BY <1>4, <1>6
<1> HIDE DEF new
<1>8. /\ u.heap = new /\ u.root = t.root /\ u.size = t.size /\ u.height = t.height
      /\ IsTree(u) /\ Dom(u) = DOMAIN heap
      /\ \A x : EntryOf(u, x) = new[x].entry /\ KeyOf(u, x) = new[x].entry.key
      /\ \A x : Left(u, x) = new[x].left /\ Right(u, x) = new[x].right
  BY <1>4, <1>5, <1>7, TreeFields
<1>9. ASSUME NEW x \in Dom(t)
      PROVE  /\ EntryOf(u, x) = IF x = m THEN entry ELSE EntryOf(t, x)
             /\ KeyOf(u, x) = KeyOf(t, x) /\ Left(u, x) = Left(t, x) /\ Right(u, x) = Right(t, x)
  <2>1. CASE x = m
    BY <1>1, <1>4, <1>6, <1>7, <1>8, <2>1 DEF EntryOf, KeyOf, Left, Right
  <2>2. CASE x # m
    BY <1>4, <1>7, <1>8, <2>2 DEF EntryOf, KeyOf, Left, Right
  <2> QED BY <2>1, <2>2
<1>10. Sound(u, below)
  BY <1>4, <1>8, <1>9, SameShape
<1>11. OthersSame(t, u, key)
  BY <1>1, <1>4, <1>8, <1>9 DEF OthersSame
<1>12. m \in Dom(u) /\ KeyOf(u, m) = key /\ EntryOf(u, m).value = value
  BY <1>1, <1>4, <1>8, <1>9
<1>13. tree_compute_height(u) = tree_compute_height(t)
  BY <1>4, <1>8, <1>9, SameHeight
<1> QED BY <1>4, <1>8, <1>10, <1>11, <1>12, <1>13 DEF u

\* The tree u is t with the node n for an entry at a location.
Linked(t, u, p, n, key, value) ==
  /\ u.root = IF p = Root THEN n ELSE t.root
  /\ EntryOf(u, n) = [key |-> key, value |-> value] /\ Left(u, n) = NULL /\ Right(u, n) = NULL
  /\ \A x \in Dom(t) : /\ EntryOf(u, x) = EntryOf(t, x)
                       /\ Left(u, x) = IF p = Field(x, "left") THEN n ELSE Left(t, x)
                       /\ Right(u, x) = IF p = Field(x, "right") THEN n ELSE Right(t, x)

\* tree_put of a key that the tree does not have adds a node for it, counts it, and
\* knows the height from the depth of its search.
LEMMA PutInserts ==
  ASSUME NEW t, IsTree(t), NEW below, Sound(t, below), NEW key \in Strings, NEW value \in Typed,
         NEW n \in Free(t), At(t, Location(t, key)) = NULL, NEW u, u = tree_put(t, n, key, value)
  PROVE  /\ IsTree(u) /\ (\E b : Sound(u, b)) /\ Dom(u) = Dom(t) \cup {n} /\ n \notin Dom(t)
         /\ t.size = Cardinality(Dom(t)) => u.size = t.size + 1
         /\ t.height = tree_compute_height(t) => u.height = tree_compute_height(u)
         /\ OthersSame(t, u, key)
         /\ \E m \in Dom(u) : KeyOf(u, m) = key /\ EntryOf(u, m).value = value
         /\ Linked(t, u, Location(t, key), n, key, value)
<1> DEFINE p == Location(t, key)
           a == Assign(t, p, n)
           node == [entry |-> [key |-> key, value |-> value], left |-> NULL, right |-> NULL]
           new == [x \in Dom(t) \cup {n} |-> IF x = n THEN node ELSE a.heap[x]]
           size == IF t.root = NULL THEN 1 ELSE t.size + 1
           height == IF t.root = NULL THEN 0 ELSE IntMax(Depth(t, key), t.height)
<1>1. /\ key \in Int /\ Dom(t) \subseteq Nodes /\ t.root \in Nodes \cup {NULL}
      /\ t.size \in Nat /\ t.height \in Nat \cup {-1}
  BY MessagesAssumption DEF IsTree, Dom
<1>2. p \in Locations(t) /\ Fits(t, below, key, p) /\ At(t, p) = NULL /\ Holds(t, below, key, p)
  BY <1>1, SearchArrives
<1>3. n \in Nodes /\ n \notin Dom(t) /\ n # NULL
  BY BinaryTreeAssumption DEF Free, Dom
<1> HIDE DEF p
<1>4. /\ IsTree(a) /\ Dom(a) = Dom(t) /\ a.size = t.size /\ a.height = t.height
      /\ a.root = IF p = Root THEN n ELSE t.root
      /\ \A x \in Dom(t) :
           /\ EntryOf(a, x) = EntryOf(t, x) /\ KeyOf(a, x) = KeyOf(t, x)
           /\ Left(a, x) = IF p = Field(x, "left") THEN n ELSE Left(t, x)
           /\ Right(a, x) = IF p = Field(x, "right") THEN n ELSE Right(t, x)
  BY <1>2, <1>3, AssignChanges
<1>5. node_create(key, data_dup(value)) = node
  BY TypedIsData DEF node_create, entry_create
<1>6. u = [a EXCEPT !.heap = new, !.size = size, !.height = height]
  <2>1. /\ DOMAIN a.heap = Dom(t) /\ a.size = t.size /\ a.height = t.height
        /\ a = [heap |-> a.heap, root |-> a.root, size |-> a.size, height |-> a.height]
    BY <1>4 DEF Dom, IsTree
  <2> HIDE DEF a
  <2>2. u = [a EXCEPT !.heap = [x \in DOMAIN @ \cup {n} |-> IF x = n THEN node_create(key, data_dup(value)) ELSE @[x]],
                      !.size = IF t.root = NULL THEN 1 ELSE @ + 1,
                      !.height = IF t.root = NULL THEN 0 ELSE IntMax(Depth(t, key), @)]
    BY <1>2 DEF tree_put, p, a
  <2> QED BY <1>5, <2>1, <2>2
<1> HIDE DEF a
<1>7. size \in Nat /\ height \in Nat \cup {-1}
  <2>1. Depth(t, key) \in Nat
    BY <1>1, DepthOfSearch
  <2> QED BY <1>1, <2>1 DEF IntMax
<1> HIDE DEF size, height
<1>8. u = [heap |-> new, root |-> a.root, size |-> size, height |-> height]
  BY <1>4, <1>6 DEF IsTree
<1>9. /\ a.heap \in [Dom(t) -> NodeType] /\ Dom(t) \cup {n} \subseteq Nodes
      /\ a.root \in Nodes \cup {NULL}
  BY <1>1, <1>3, <1>4 DEF IsTree, NodeType, Dom
<1>10. node \in NodeType /\ node.entry = [key |-> key, value |-> value] /\ node.left = NULL /\ node.right = NULL
  BY DEF NodeType
<1> HIDE DEF node
<1>11. /\ DOMAIN new = Dom(t) \cup {n} /\ new \in [DOMAIN new -> NodeType]
       /\ new[n] = node /\ \A x \in Dom(t) : new[x] = a.heap[x]
  BY <1>3, <1>9, <1>10
<1> HIDE DEF new
<1>12. /\ u.heap = new /\ u.root = a.root /\ u.size = size /\ u.height = height
       /\ IsTree(u) /\ Dom(u) = Dom(t) \cup {n}
       /\ \A x : EntryOf(u, x) = new[x].entry /\ KeyOf(u, x) = new[x].entry.key
       /\ \A x : Left(u, x) = new[x].left /\ Right(u, x) = new[x].right
  BY <1>7, <1>8, <1>9, <1>11, TreeFields
<1>13. \A x \in Dom(t) : /\ EntryOf(u, x) = EntryOf(a, x) /\ KeyOf(u, x) = KeyOf(a, x)
                         /\ Left(u, x) = Left(a, x) /\ Right(u, x) = Right(a, x)
  BY <1>11, <1>12 DEF EntryOf, KeyOf, Left, Right
<1>14. KeyOf(u, n) = key /\ EntryOf(u, n).value = value /\ Left(u, n) = NULL /\ Right(u, n) = NULL
  BY <1>10, <1>11, <1>12
<1>15. /\ u.root = IF p = Root THEN n ELSE t.root
       /\ \A x \in Dom(t) : /\ KeyOf(u, x) = KeyOf(t, x)
                            /\ Left(u, x) = IF p = Field(x, "left") THEN n ELSE Left(t, x)
                            /\ Right(u, x) = IF p = Field(x, "right") THEN n ELSE Right(t, x)
  BY <1>4, <1>12, <1>13
<1>16. PICK b : Sound(u, b)
  BY <1>1, <1>2, <1>3, <1>12, <1>14, <1>15, InsertSound
<1>17. t.height = tree_compute_height(t) => u.height = tree_compute_height(u)
  <2>1. p = Location(t, key)
    BY DEF p
  <2>2. /\ tree_compute_height(u) = IntMax(Depth(t, key), tree_compute_height(t))
        /\ t.root = NULL => tree_compute_height(u) = 0
    BY <1>1, <1>2, <1>3, <1>12, <1>14, <1>15, <1>16, <2>1, HeightOfInsertion
  <2> QED BY <1>12, <2>2 DEF height
<1>18. t.size = Cardinality(Dom(t)) => u.size = t.size + 1
  <2>1. t.root = NULL => Dom(t) = {}
    BY DEF Sound
  <2>2. t.root = NULL => Cardinality(Dom(t)) = 0
    BY <2>1, FS_EmptySet
  <2> QED BY <1>1, <1>12, <2>2 DEF size
<1>19. OthersSame(t, u, key)
  BY <1>4, <1>12, <1>13, <1>14 DEF OthersSame
<1>20. n \in Dom(u) /\ KeyOf(u, n) = key /\ EntryOf(u, n).value = value
  BY <1>12, <1>14
<1>21. Linked(t, u, p, n, key, value)
  <2>1. EntryOf(u, n) = [key |-> key, value |-> value]
    BY <1>10, <1>11, <1>12
  <2>2. \A x \in Dom(t) : EntryOf(u, x) = EntryOf(t, x)
    BY <1>4, <1>13
  <2> QED BY <1>14, <1>15, <2>1, <2>2 DEF Linked
<1> QED BY <1>3, <1>12, <1>16, <1>17, <1>18, <1>19, <1>20, <1>21 DEF p

\* tree_put keeps the search tree, its size and its height, and stores the value for
\* the key.
LEMMA PutKeeps ==
  ASSUME NEW t, IsTree(t), NEW below, Sound(t, below), t.size = Cardinality(Dom(t)),
         t.height = tree_compute_height(t), NEW key \in Strings, NEW value \in Typed,
         NEW n, At(t, Location(t, key)) = NULL => n \in Free(t)
  PROVE  LET u == tree_put(t, n, key, value) IN
         /\ IsTree(u) /\ (\E b : Sound(u, b)) /\ u.size = Cardinality(Dom(u))
         /\ u.height = tree_compute_height(u)
         /\ OthersSame(t, u, key)
         /\ \E m \in Dom(u) : KeyOf(u, m) = key /\ EntryOf(u, m).value = value
<1> DEFINE u == tree_put(t, n, key, value)
<1>1. CASE At(t, Location(t, key)) # NULL
  BY <1>1, PutOverwrites
<1>2. CASE At(t, Location(t, key)) = NULL
  <2>1. /\ IsTree(u) /\ (\E b : Sound(u, b)) /\ Dom(u) = Dom(t) \cup {n} /\ n \notin Dom(t)
        /\ u.size = t.size + 1 /\ u.height = tree_compute_height(u) /\ OthersSame(t, u, key)
        /\ \E m \in Dom(u) : KeyOf(u, m) = key /\ EntryOf(u, m).value = value
    <3>1. n \in Free(t)
      BY <1>2
    <3>2. u = tree_put(t, n, key, value)
      OBVIOUS
    <3> HIDE DEF u
    <3> QED BY <1>2, <3>1, <3>2, PutInserts
  <2> HIDE DEF u
  <2>2. Cardinality(Dom(u)) = Cardinality(Dom(t)) + 1
    <3>1. IsFiniteSet(Dom(t))
      BY DEF Sound
    <3> QED BY <2>1, <3>1, FS_AddElement
  <2>3. u.size = Cardinality(Dom(u))
    BY <2>1, <2>2
  <2> QED BY <2>1, <2>3 DEF u
<1> QED BY <1>1, <1>2

\* The only location of a node.
LEMMA LocationOfNode ==
  ASSUME NEW t, NEW below, Sound(t, below), NEW p \in Locations(t), NEW d \in Dom(t), At(t, p) = d
  PROVE  /\ p = Root <=> t.root = d
         /\ \A x \in Dom(t) : /\ p = Field(x, "left") <=> Left(t, x) = d
                              /\ p = Field(x, "right") <=> Right(t, x) = d
<1>1. d # NULL
  BY DEF Sound
<1>2. p = Root => t.root = d
  BY LocationFacts
<1>3. \A x \in Dom(t) : /\ p = Field(x, "left") => Left(t, x) = d
                        /\ p = Field(x, "right") => Right(t, x) = d
  BY LocationFacts
<1>4. p = Root \/ (p.node \in Dom(t) /\ p \in {Field(p.node, "left"), Field(p.node, "right")})
  BY LocationFacts
<1>5. ASSUME t.root = d PROVE p = Root
  <2>1. \A x \in Dom(t) : d \notin Children(t, x)
    BY <1>5, OneParent
  <2> QED BY <1>1, <1>3, <1>4, <2>1 DEF Children
<1>6. ASSUME NEW x \in Dom(t), d \in Children(t, x)
      PROVE  /\ Left(t, x) = d => p = Field(x, "left")
             /\ Right(t, x) = d => p = Field(x, "right")
  <2>1. p # Root
    BY <1>2, <1>6, OneParent
  <2>2. d \in Children(t, p.node)
    BY <1>1, <1>3, <1>4, <2>1 DEF Children
  <2>3. p.node = x
    BY <1>4, <1>6, <2>1, <2>2, OneParent
  <2>4. Left(t, x) # Right(t, x)
    BY <1>1, <1>6, OneParent DEF Children
  <2> QED BY <1>3, <1>4, <2>1, <2>3, <2>4
<1>7. \A x \in Dom(t) : Left(t, x) = d \/ Right(t, x) = d => d \in Children(t, x)
  BY <1>1 DEF Children
<1> QED BY <1>2, <1>3, <1>5, <1>6, <1>7

\* A node that takes over two pointers.
WithFields(a, s, l, r) == [a EXCEPT !.heap[s] = [@ EXCEPT !.left = l, !.right = r]]

\* Two pointers of one node change, and nothing else of the tree.
LEMMA TakeOver ==
  ASSUME NEW a, IsTree(a), NEW s \in Dom(a), NEW l \in Nodes \cup {NULL}, NEW r \in Nodes \cup {NULL}
  PROVE  LET u == WithFields(a, s, l, r) IN
         /\ IsTree(u) /\ Dom(u) = Dom(a) /\ u.size = a.size /\ u.height = a.height /\ u.root = a.root
         /\ \A x \in Dom(a) :
              /\ EntryOf(u, x) = EntryOf(a, x) /\ KeyOf(u, x) = KeyOf(a, x)
              /\ Left(u, x) = IF x = s THEN l ELSE Left(a, x)
              /\ Right(u, x) = IF x = s THEN r ELSE Right(a, x)
<1> DEFINE heap == a.heap
           node == [heap[s] EXCEPT !.left = l, !.right = r]
           new == [heap EXCEPT ![s] = node]
           u == WithFields(a, s, l, r)
<1>1. /\ a = [heap |-> heap, root |-> a.root, size |-> a.size, height |-> a.height]
      /\ DOMAIN heap \subseteq Nodes /\ heap \in [DOMAIN heap -> NodeType] /\ DOMAIN heap = Dom(a)
      /\ a.root \in Nodes \cup {NULL} /\ a.size \in Nat /\ a.height \in Nat \cup {-1}
  BY DEF IsTree, NodeType, Dom
<1>2. u = [heap |-> new, root |-> a.root, size |-> a.size, height |-> a.height]
  BY <1>1 DEF WithFields
<1> HIDE DEF u
<1>3. /\ node \in NodeType /\ node.entry = heap[s].entry /\ node.left = l /\ node.right = r
  BY <1>1 DEF NodeType
<1> HIDE DEF node
<1>4. /\ DOMAIN new = DOMAIN heap /\ new \in [DOMAIN heap -> NodeType]
      /\ \A x \in DOMAIN heap : new[x] = IF x = s THEN node ELSE heap[x]
  BY <1>1, <1>3
<1> HIDE DEF new
<1>5. /\ u.root = a.root /\ u.size = a.size /\ u.height = a.height
      /\ IsTree(u) /\ Dom(u) = DOMAIN heap
      /\ \A x : EntryOf(u, x) = new[x].entry /\ KeyOf(u, x) = new[x].entry.key
      /\ \A x : Left(u, x) = new[x].left /\ Right(u, x) = new[x].right
  BY <1>1, <1>2, <1>4, TreeFields
<1>6. ASSUME NEW x \in Dom(a)
      PROVE  /\ EntryOf(u, x) = EntryOf(a, x) /\ KeyOf(u, x) = KeyOf(a, x)
             /\ Left(u, x) = IF x = s THEN l ELSE Left(a, x)
             /\ Right(u, x) = IF x = s THEN r ELSE Right(a, x)
  <2>1. CASE x = s
    BY <1>1, <1>3, <1>4, <1>5, <2>1 DEF EntryOf, KeyOf, Left, Right
  <2>2. CASE x # s
    BY <1>1, <1>4, <1>5, <2>2 DEF EntryOf, KeyOf, Left, Right
  <2> QED BY <2>1, <2>2
<1> QED BY <1>1, <1>5, <1>6 DEF u

\* A tree without one of its nodes.
Without(a, d) == [a EXCEPT !.heap = [x \in DOMAIN @ \ {d} |-> @[x]]]

\* The other nodes keep their entries and pointers.
LEMMA FreeNode ==
  ASSUME NEW a, IsTree(a), NEW d
  PROVE  LET u == Without(a, d) IN
         /\ IsTree(u) /\ Dom(u) = Dom(a) \ {d} /\ u.size = a.size /\ u.height = a.height /\ u.root = a.root
         /\ \A x \in Dom(u) : /\ EntryOf(u, x) = EntryOf(a, x) /\ KeyOf(u, x) = KeyOf(a, x)
                              /\ Left(u, x) = Left(a, x) /\ Right(u, x) = Right(a, x)
<1> DEFINE heap == a.heap
           new == [x \in DOMAIN heap \ {d} |-> heap[x]]
           u == Without(a, d)
<1>1. /\ a = [heap |-> heap, root |-> a.root, size |-> a.size, height |-> a.height]
      /\ DOMAIN heap \subseteq Nodes /\ heap \in [DOMAIN heap -> NodeType] /\ DOMAIN heap = Dom(a)
      /\ a.root \in Nodes \cup {NULL} /\ a.size \in Nat /\ a.height \in Nat \cup {-1}
  BY DEF IsTree, NodeType, Dom
<1>2. u = [heap |-> new, root |-> a.root, size |-> a.size, height |-> a.height]
  BY <1>1 DEF Without
<1> HIDE DEF u
<1>3. /\ DOMAIN new = DOMAIN heap \ {d} /\ new \in [DOMAIN new -> NodeType]
      /\ \A x \in DOMAIN new : new[x] = heap[x]
  BY <1>1
<1> HIDE DEF new
<1>4. /\ u.root = a.root /\ u.size = a.size /\ u.height = a.height
      /\ IsTree(u) /\ Dom(u) = DOMAIN new
      /\ \A x : EntryOf(u, x) = new[x].entry /\ KeyOf(u, x) = new[x].entry.key
      /\ \A x : Left(u, x) = new[x].left /\ Right(u, x) = new[x].right
  BY <1>1, <1>2, <1>3, TreeFields
<1> QED BY <1>1, <1>3, <1>4 DEF u, EntryOf, KeyOf, Left, Right

\* The successor takes the place of a node with two children, as far as pointers go.
LEMMA SuccessorReplaces ==
  ASSUME NEW t, IsTree(t), NEW below, Sound(t, below), NEW p \in Locations(t), NEW d \in Dom(t),
         At(t, p) = d, Left(t, d) # NULL, Right(t, d) # NULL
  PROVE  LET s == At(t, LowestSuccessor(t, d))
             u == Assign(ReplaceBySuccessor(t, d), p, s)
         IN /\ s \in below[Right(t, d)] /\ Left(t, s) = NULL
            /\ \A m \in below[Right(t, d)] \ {s} : KeyOf(t, m) > KeyOf(t, s)
            /\ IsTree(u) /\ Dom(u) = Dom(t) /\ u.size = t.size /\ u.height = t.height
            /\ u.root = IF t.root = d THEN s ELSE t.root
            /\ Left(u, s) = Left(t, d)
            /\ Right(u, s) = IF Right(t, d) = s THEN Right(t, s) ELSE Right(t, d)
            /\ \A x \in Dom(t) : EntryOf(u, x) = EntryOf(t, x) /\ KeyOf(u, x) = KeyOf(t, x)
            /\ \A x \in Dom(t) \ {s} :
                 /\ Left(u, x) = IF Left(t, x) = d THEN s
                                 ELSE IF Left(t, x) = s THEN Right(t, s) ELSE Left(t, x)
                 /\ Right(u, x) = IF Right(t, x) = d THEN s
                                  ELSE IF Right(t, x) = s THEN Right(t, s) ELSE Right(t, x)
<1> DEFINE q == LowestSuccessor(t, d)
           s == At(t, q)
           a == Assign(t, q, Right(t, s))
           r == ReplaceBySuccessor(t, d)
           u == Assign(r, p, s)
<1>1. Dom(t) \subseteq Nodes /\ Dom(t) # {}
  BY DEF IsTree, Dom
<1>2. /\ q \in Locations(t) /\ s \in Dom(t) /\ s \in below[Right(t, d)] /\ Left(t, s) = NULL
      /\ \A m \in below[Right(t, d)] \ {s} : KeyOf(t, m) > KeyOf(t, s)
  BY <1>1, SuccessorIsLowest
<1> HIDE DEF q
<1>3. /\ d # s /\ t.root # s /\ Left(t, d) # s /\ d # NULL /\ s # NULL
      /\ Right(t, s) # d /\ Right(t, s) \in Dom(t) \cup {NULL}
  <2>1. /\ d \notin below[Right(t, d)] /\ below[Left(t, d)] \cap below[Right(t, d)] = {}
        /\ Left(t, d) \in below[Left(t, d)]
        /\ Right(t, s) # NULL => Right(t, s) \in below[Right(t, s)]
    BY <1>2, SidesApart, ChildrenAreLighter
  <2>2. Right(t, d) \in Dom(t) \cup {NULL} /\ below[t.root] = Dom(t)
    BY DEF Sound
  <2>3. below[s] \subseteq below[Right(t, d)]
    BY <1>2, <2>2, BelowTransitive
  <2>4. /\ below[s] = {s} \cup below[Left(t, s)] \cup below[Right(t, s)]
        /\ Right(t, s) \in Dom(t) \cup {NULL} /\ NULL \notin Dom(t)
    BY <1>2 DEF Sound
  <2> QED BY <1>2, <2>1, <2>2, <2>3, <2>4
<1> HIDE DEF s
<1>4. /\ IsTree(a) /\ Dom(a) = Dom(t) /\ a.size = t.size /\ a.height = t.height /\ a.root = t.root
      /\ \A x \in Dom(t) :
           /\ EntryOf(a, x) = EntryOf(t, x) /\ KeyOf(a, x) = KeyOf(t, x)
           /\ Left(a, x) = IF Left(t, x) = s THEN Right(t, s) ELSE Left(t, x)
           /\ Right(a, x) = IF Right(t, x) = s THEN Right(t, s) ELSE Right(t, x)
  <2>1. Right(t, s) \in Nodes \cup {NULL}
    BY <1>1, <1>3
  <2>2. /\ q = Root <=> t.root = s
        /\ \A x \in Dom(t) : /\ q = Field(x, "left") <=> Left(t, x) = s
                             /\ q = Field(x, "right") <=> Right(t, x) = s
    BY <1>2, LocationOfNode DEF s
  <2> QED BY <1>2, <1>3, <2>1, <2>2, AssignChanges
<1> DEFINE l1 == Left(a, d)
           r1 == Right(a, d)
<1>5. r = WithFields(a, s, l1, r1)
  BY DEF ReplaceBySuccessor, WithFields, Left, Right, q, s
<1>6. l1 = Left(t, d) /\ r1 = (IF Right(t, d) = s THEN Right(t, s) ELSE Right(t, d))
  BY <1>3, <1>4
<1>7. l1 \in Nodes \cup {NULL} /\ r1 \in Nodes \cup {NULL}
  <2>1. Left(t, d) \in Dom(t) \cup {NULL} /\ Right(t, d) \in Dom(t) \cup {NULL}
    BY DEF Sound
  <2> QED BY <1>1, <1>3, <1>6, <2>1
<1> HIDE DEF a, l1, r1, r
<1>8. /\ IsTree(r) /\ Dom(r) = Dom(a) /\ r.size = a.size /\ r.height = a.height /\ r.root = a.root
      /\ \A x \in Dom(a) :
           /\ EntryOf(r, x) = EntryOf(a, x) /\ KeyOf(r, x) = KeyOf(a, x)
           /\ Left(r, x) = IF x = s THEN l1 ELSE Left(a, x)
           /\ Right(r, x) = IF x = s THEN r1 ELSE Right(a, x)
  <2>1. s \in Dom(a)
    BY <1>2, <1>4 DEF s
  <2>2. LET v == WithFields(a, s, l1, r1) IN
        /\ IsTree(v) /\ Dom(v) = Dom(a) /\ v.size = a.size /\ v.height = a.height /\ v.root = a.root
        /\ \A x \in Dom(a) :
             /\ EntryOf(v, x) = EntryOf(a, x) /\ KeyOf(v, x) = KeyOf(a, x)
             /\ Left(v, x) = IF x = s THEN l1 ELSE Left(a, x)
             /\ Right(v, x) = IF x = s THEN r1 ELSE Right(a, x)
    <3>1. IsTree(a)
      BY <1>4
    <3> QED BY <2>1, <3>1, <1>7, TakeOver
  <2> QED BY <1>5, <2>2, Zenon
<1>9. /\ IsTree(u) /\ Dom(u) = Dom(t) /\ u.size = t.size /\ u.height = t.height
      /\ u.root = IF p = Root THEN s ELSE t.root
      /\ \A x \in Dom(t) :
           /\ EntryOf(u, x) = EntryOf(r, x) /\ KeyOf(u, x) = KeyOf(r, x)
           /\ Left(u, x) = IF p = Field(x, "left") THEN s ELSE Left(r, x)
           /\ Right(u, x) = IF p = Field(x, "right") THEN s ELSE Right(r, x)
  <2>1. Locations(r) = Locations(t) /\ s \in Nodes
    BY <1>1, <1>2, <1>4, <1>8 DEF Locations, s
  <2>2. p \in Locations(r) /\ s \in Nodes \cup {NULL}
    BY <2>1
  <2> QED BY <1>4, <1>8, <2>2, AssignChanges
<1> HIDE DEF u
<1>10. /\ p = Root <=> t.root = d
       /\ \A x \in Dom(t) : /\ p = Field(x, "left") <=> Left(t, x) = d
                            /\ p = Field(x, "right") <=> Right(t, x) = d
  BY LocationOfNode
<1>11. s \in Dom(t) /\ Left(t, s) # d
  BY <1>2, <1>3 DEF s
<1>12. Left(u, s) = Left(t, d) /\ Right(u, s) = IF Right(t, d) = s THEN Right(t, s) ELSE Right(t, d)
  BY <1>3, <1>4, <1>6, <1>8, <1>9, <1>10, <1>11
<1>13. \A x \in Dom(t) : EntryOf(u, x) = EntryOf(t, x) /\ KeyOf(u, x) = KeyOf(t, x)
  BY <1>4, <1>8, <1>9
<1>14. \A x \in Dom(t) \ {s} :
         /\ Left(u, x) = IF Left(t, x) = d THEN s
                         ELSE IF Left(t, x) = s THEN Right(t, s) ELSE Left(t, x)
         /\ Right(u, x) = IF Right(t, x) = d THEN s
                          ELSE IF Right(t, x) = s THEN Right(t, s) ELSE Right(t, x)
  BY <1>4, <1>8, <1>9, <1>10
<1>15. u.root = IF t.root = d THEN s ELSE t.root
  BY <1>9, <1>10
<1> QED BY <1>2, <1>9, <1>12, <1>13, <1>14, <1>15 DEF u, r, s, q

\* _tree_node_del takes out the node, and keeps a search tree.
LEMMA NodeDelKeeps ==
  ASSUME NEW t, IsTree(t), NEW below, Sound(t, below), NEW p \in Locations(t), NEW d \in Dom(t),
         At(t, p) = d
  PROVE  LET u == tree_node_del(t, p) IN
         /\ IsTree(u) /\ (\E b : Sound(u, b)) /\ Dom(u) = Dom(t) \ {d}
         /\ u.size = t.size /\ u.height = t.height
         /\ \A x \in Dom(u) : EntryOf(u, x) = EntryOf(t, x) /\ KeyOf(u, x) = KeyOf(t, x)
<1> DEFINE l == Left(t, d)
           r == Right(t, d)
           s == At(t, LowestSuccessor(t, d))
           u == tree_node_del(t, p)
<1>1. /\ p = Root <=> t.root = d
      /\ \A x \in Dom(t) : /\ p = Field(x, "left") <=> Left(t, x) = d
                           /\ p = Field(x, "right") <=> Right(t, x) = d
  BY LocationOfNode
<1>2. Dom(t) \subseteq Nodes /\ l \in Dom(t) \cup {NULL} /\ r \in Dom(t) \cup {NULL}
  BY DEF IsTree, Dom, Sound
<1>3. CASE l # NULL /\ r # NULL
  <2> DEFINE a == Assign(ReplaceBySuccessor(t, d), p, s)
  <2>1. u = Without(a, d)
    BY <1>3 DEF tree_node_del, Without, Left, Right
  <2>2. /\ s \in below[r] /\ Left(t, s) = NULL
        /\ \A m \in below[r] \ {s} : KeyOf(t, m) > KeyOf(t, s)
        /\ IsTree(a) /\ Dom(a) = Dom(t) /\ a.size = t.size /\ a.height = t.height
        /\ a.root = IF t.root = d THEN s ELSE t.root
        /\ Left(a, s) = l
        /\ Right(a, s) = IF r = s THEN Right(t, s) ELSE r
        /\ \A x \in Dom(t) : EntryOf(a, x) = EntryOf(t, x) /\ KeyOf(a, x) = KeyOf(t, x)
        /\ \A x \in Dom(t) \ {s} :
             /\ Left(a, x) = IF Left(t, x) = d THEN s
                             ELSE IF Left(t, x) = s THEN Right(t, s) ELSE Left(t, x)
             /\ Right(a, x) = IF Right(t, x) = d THEN s
                              ELSE IF Right(t, x) = s THEN Right(t, s) ELSE Right(t, x)
    BY <1>3, SuccessorReplaces
  <2> HIDE DEF a, s, u
  <2>3. /\ IsTree(u) /\ Dom(u) = Dom(a) \ {d} /\ u.size = a.size /\ u.height = a.height /\ u.root = a.root
        /\ \A x \in Dom(u) : /\ EntryOf(u, x) = EntryOf(a, x) /\ KeyOf(u, x) = KeyOf(a, x)
                             /\ Left(u, x) = Left(a, x) /\ Right(u, x) = Right(a, x)
    BY <2>1, <2>2, FreeNode
  <2>4. s \in Dom(u)
    <3>1. below[r] \subseteq Dom(t) /\ d \notin below[r]
      BY <1>2, ChildrenAreLighter DEF Sound
    <3> QED BY <2>2, <2>3, <3>1
  <2>5. Dom(u) = Dom(t) \ {d} /\ Dom(u) \subseteq Dom(t)
    BY <2>2, <2>3
  <2>6. \A x \in Dom(u) : EntryOf(u, x) = EntryOf(t, x) /\ KeyOf(u, x) = KeyOf(t, x)
    BY <2>2, <2>3, <2>5
  <2>7. \A x \in Dom(u) \ {s} :
          /\ Left(u, x) = IF Left(t, x) = d THEN s
                          ELSE IF Left(t, x) = s THEN Right(t, s) ELSE Left(t, x)
          /\ Right(u, x) = IF Right(t, x) = d THEN s
                           ELSE IF Right(t, x) = s THEN Right(t, s) ELSE Right(t, x)
    BY <2>2, <2>3, <2>5
  <2>8. /\ Left(u, s) = l /\ Right(u, s) = (IF r = s THEN Right(t, s) ELSE r)
        /\ u.root = IF t.root = d THEN s ELSE t.root
    BY <2>2, <2>3, <2>4
  <2>9. \E b : Sound(u, b)
    BY <2>2, <2>5, <2>6, <2>7, <2>8, ReplaceSound
  <2> QED BY <2>2, <2>3, <2>5, <2>6, <2>9 DEF u
<1>4. CASE l = NULL \/ r = NULL
  <2> DEFINE c == IF l = NULL THEN r ELSE l
             a == Assign(t, p, c)
  <2>1. u = Without(a, d)
    <3>1. CASE l = NULL /\ r = NULL
      BY <3>1 DEF tree_node_del, Without, Left, Right
    <3>2. CASE l = NULL /\ r # NULL
      BY <3>2 DEF tree_node_del, Without, Left, Right
    <3>3. CASE l # NULL /\ r = NULL
      BY <3>3 DEF tree_node_del, Without, Left, Right
    <3> QED BY <1>4, <3>1, <3>2, <3>3
  <2>2. c \in {l, r} /\ {l, r} \subseteq {c, NULL} /\ c \in Nodes \cup {NULL}
    BY <1>2, <1>4
  <2> HIDE DEF c, u
  <2>3. /\ IsTree(a) /\ Dom(a) = Dom(t) /\ a.size = t.size /\ a.height = t.height
        /\ a.root = IF t.root = d THEN c ELSE t.root
        /\ \A x \in Dom(t) :
             /\ EntryOf(a, x) = EntryOf(t, x) /\ KeyOf(a, x) = KeyOf(t, x)
             /\ Left(a, x) = IF Left(t, x) = d THEN c ELSE Left(t, x)
             /\ Right(a, x) = IF Right(t, x) = d THEN c ELSE Right(t, x)
    BY <1>1, <2>2, AssignChanges
  <2> HIDE DEF a
  <2>4. /\ IsTree(u) /\ Dom(u) = Dom(a) \ {d} /\ u.size = a.size /\ u.height = a.height /\ u.root = a.root
        /\ \A x \in Dom(u) : /\ EntryOf(u, x) = EntryOf(a, x) /\ KeyOf(u, x) = KeyOf(a, x)
                             /\ Left(u, x) = Left(a, x) /\ Right(u, x) = Right(a, x)
    BY <2>1, <2>3, FreeNode
  <2>5. Dom(u) = Dom(t) \ {d} /\ Dom(u) \subseteq Dom(t)
    BY <2>3, <2>4
  <2>6. /\ u.root = IF t.root = d THEN c ELSE t.root
        /\ \A x \in Dom(u) :
             /\ EntryOf(u, x) = EntryOf(t, x) /\ KeyOf(u, x) = KeyOf(t, x)
             /\ Left(u, x) = IF Left(t, x) = d THEN c ELSE Left(t, x)
             /\ Right(u, x) = IF Right(t, x) = d THEN c ELSE Right(t, x)
    BY <2>3, <2>4, <2>5
  <2>7. \E b : Sound(u, b)
    BY <2>2, <2>5, <2>6, SpliceSound
  <2> QED BY <2>3, <2>4, <2>5, <2>6, <2>7 DEF u
<1> QED BY <1>3, <1>4

\* tree_del leaves a tree without the key as it is, and otherwise takes out the node
\* with the key and counts size and height anew.
LEMMA DelKeeps ==
  ASSUME NEW t, IsTree(t), NEW below, Sound(t, below), t.size = Cardinality(Dom(t)),
         t.height = tree_compute_height(t), NEW key \in Strings
  PROVE  LET u == tree_del(t, key) IN
         /\ IsTree(u) /\ (\E b : Sound(u, b)) /\ u.size = Cardinality(Dom(u))
         /\ u.height = tree_compute_height(u)
         /\ OthersSame(t, u, key)
         /\ \A m \in Dom(u) : KeyOf(u, m) # key
<1> DEFINE p == Location(t, key)
           d == At(t, p)
           v == tree_node_del(t, p)
           u == tree_del(t, key)
<1>1. Dom(t) \subseteq Nodes /\ key \in Int
  BY MessagesAssumption DEF IsTree, Dom
<1>2. p \in Locations(t) /\ Arrived(t, key, p) /\ Holds(t, below, key, p) /\ d \in Dom(t) \cup {NULL}
  BY <1>1, SearchArrives, LocationFacts
<1> HIDE DEF p
<1>3. CASE d = NULL
  <2>1. u = t
    BY <1>3 DEF tree_del, p
  <2>2. \A m \in Dom(t) : KeyOf(t, m) # key
    BY <1>2, <1>3 DEF Holds, Sound
  <2> QED BY <2>1, <2>2 DEF OthersSame
<1>4. CASE d # NULL
  <2>1. d \in Dom(t) /\ KeyOf(t, d) = key
    BY <1>2, <1>4 DEF Arrived
  <2>2. /\ IsTree(v) /\ (\E b : Sound(v, b)) /\ Dom(v) = Dom(t) \ {d}
        /\ v.size = t.size /\ v.height = t.height
        /\ \A x \in Dom(v) : EntryOf(v, x) = EntryOf(t, x) /\ KeyOf(v, x) = KeyOf(t, x)
    BY <1>2, <2>1, NodeDelKeeps
  <2>3. u = [v EXCEPT !.size = @ - 1, !.height = tree_compute_height(v)]
    BY <1>4 DEF tree_del, p
  <2> HIDE DEF v, u, d
  <2>4. PICK b : Sound(v, b)
    BY <2>2
  <2> DEFINE size == v.size - 1
             height == tree_compute_height(v)
  <2>5. height \in Nat \cup {-1}
    <3>1. PICK h : Tall(v, h) /\ height = h[v.root]
      BY <2>4, HeightOfRoot
    <3> QED BY <2>4, <3>1 DEF Sound, Tall
  <2> HIDE DEF height
  <2>6. size \in Nat /\ size = Cardinality(Dom(v))
    <3>1. IsFiniteSet(Dom(t))
      BY DEF Sound
    <3>2. IsFiniteSet(Dom(v)) /\ Cardinality(Dom(v)) = Cardinality(Dom(t)) - 1
      BY <2>1, <2>2, <3>1, FS_RemoveElement
    <3>3. Cardinality(Dom(v)) \in Nat
      BY <3>2, FS_CardinalityType
    <3> QED BY <2>2, <3>2, <3>3
  <2>7. u = [heap |-> v.heap, root |-> v.root, size |-> size, height |-> height]
    <3>1. v = [heap |-> v.heap, root |-> v.root, size |-> v.size, height |-> v.height]
      BY <2>2 DEF IsTree
    <3>2. u = [v EXCEPT !.size = size, !.height = height]
      BY <2>3 DEF height
    <3> HIDE DEF size
    <3> QED BY <3>1, <3>2
  <2> HIDE DEF size
  <2>8. /\ u.root = v.root /\ u.size = size /\ u.height = height /\ Dom(u) = Dom(v)
        /\ \A x \in Dom(v) : /\ EntryOf(u, x) = EntryOf(v, x) /\ KeyOf(u, x) = KeyOf(v, x)
                             /\ Left(u, x) = Left(v, x) /\ Right(u, x) = Right(v, x)
    BY <2>7, TreeFields DEF Dom, EntryOf, KeyOf, Left, Right
  <2>9. IsTree(u)
    <3>1. /\ DOMAIN v.heap \subseteq Nodes /\ v.heap \in [DOMAIN v.heap -> NodeType]
          /\ v.root \in Nodes \cup {NULL}
      BY <2>2 DEF IsTree, NodeType
    <3> QED BY <2>5, <2>6, <2>7, <3>1, TreeFields
  <2>10. Sound(u, b)
    BY <2>4, <2>8, SameShape
  <2>11. \A m \in Dom(u) : KeyOf(u, m) # key
    BY <2>1, <2>2, <2>8, DistinctKeys
  <2>12. OthersSame(t, u, key)
    BY <2>1, <2>2, <2>8 DEF OthersSame
  <2>13. u.height = tree_compute_height(u)
    BY <2>4, <2>8, SameHeight DEF height
  <2> QED BY <2>6, <2>8, <2>9, <2>10, <2>11, <2>12, <2>13 DEF u
<1> QED BY <1>2, <1>3, <1>4

-----------------------------------------------------------------------------
(* Requests.                                                               *)

Valid == {c \in Commands : ~InvalidArgs(c)}

\* What entry_create_from_args makes of a key and a text, and its message.
EntryOfArgs(c) == [key |-> c.key, value |-> data_create2(Len(c.text) + 1, Append(c.text, 0))]

\* An entry that is typed survives its way into a message and out of it.
LEMMA TypedEntry ==
  ASSUME NEW key \in Strings, NEW text \in Texts
  PROVE  LET value == data_create2(Len(text) + 1, Append(text, 0))
             entry == [key |-> key, value |-> value]
         IN /\ entry_create_from_args(key, text) = entry
            /\ value \in Typed
            /\ entry_to_msg(entry) \in EntryMessages
            /\ msg_to_entry(entry_to_msg(entry)) = entry
<1> DEFINE value == data_create2(Len(text) + 1, Append(text, 0))
           entry == [key |-> key, value |-> value]
           msg == entry_to_msg(entry)
<1>1. key # NULL /\ text # NULL /\ entry # NULL
  <2>1. text \in Seq(Bytes)
    BY RemoteTreeAssumption
  <2>2. value \in Datas
    BY TypedIsData DEF Typed
  <2>3. Datas \subseteq [datasize: Nat, data: Seq(Bytes) \cup {NULL}]
    <3> SUFFICES ASSUME NEW bytes \in Seq(Bytes)
                 PROVE  Len(bytes) \in Nat /\ Array(bytes) \in Seq(Bytes) \cup {NULL}
      BY DEF Datas
    <3> QED BY LenProperties DEF Array
  <2> HIDE DEF value
  <2>4. entry \in [key: Strings \cup {NULL}, value: [datasize: Nat, data: Seq(Bytes) \cup {NULL}] \cup {NULL}]
    BY <2>2, <2>3
  <2> HIDE DEF entry
  <2> QED BY <2>1, <2>4, MessagesAssumption
<1>2. value \in Typed /\ value \in Datas
  BY TypedIsData DEF Typed
<1>3. entry_create_from_args(key, text) = entry
  BY <1>1 DEF entry_create_from_args, entry_create
<1> HIDE DEF value
<1>4. msg = [key |-> string_to_msg(key), value |-> data_to_msg(value)]
  BY <1>1 DEF entry_to_msg
<1>5. msg \in EntryMessages
  <2>1. string_to_msg(key) \in NullableStrings \cup {NULL} /\ data_to_msg(value) \in DataMessages
    BY <1>2, StringKept, ContentKept
  <2> QED BY <1>4, <2>1 DEF EntryMessages
<1>6. msg # NULL
  BY <1>5, EntryMessageKept
<1>7. msg_to_string(string_to_msg(key)) = key /\ msg_to_data(data_to_msg(value)) = value
  BY <1>2, StringKept, ContentKept
<1>8. msg_to_entry(msg) = entry
  <2>1. msg.key = string_to_msg(key) /\ msg.value = data_to_msg(value)
    BY <1>4
  <2> HIDE DEF msg
  <2> QED BY <1>6, <1>7, <2>1 DEF msg_to_entry, entry_create
<1> QED BY <1>2, <1>3, <1>5, <1>8 DEF value

\* The commands whose arguments are there.
LEMMA ValidCommands ==
  ASSUME NEW c \in Valid
  PROVE  \/ c.cmd \in {"size", "height", "getkeys"}
         \/ c.cmd \in {"del", "get"} /\ c.key \in Strings
         \/ c.cmd = "put" /\ c.key \in Strings /\ c.text \in Texts
         \/ c.cmd = "verify" /\ c.id \in Ids
<1>1. CASE c.cmd \in {"size", "height", "getkeys"}
  BY <1>1
<1>2. CASE c.cmd \in {"del", "get"}
  BY <1>2 DEF Valid, Commands, InvalidArgs, Args
<1>3. CASE c.cmd = "put"
  <2>1. c.key \in Args /\ c.text \in Texts \cup {NULL} /\ c.key # NULL /\ c.text # NULL
    BY <1>3 DEF Valid, Commands, InvalidArgs, entry_create_from_args
  <2> QED BY <1>3, <2>1 DEF Args
<1>4. CASE c.cmd = "verify"
  BY <1>4 DEF Valid, Commands, InvalidArgs
<1> QED BY <1>1, <1>2, <1>3, <1>4 DEF Valid, Commands

\* Every request is a message that can be sent.
LEMMA RequestType ==
  ASSUME NEW c \in Valid
  PROVE  Request(c) \in MessageTypes
<1>1. CASE c.cmd \in {"size", "height", "getkeys"}
  BY <1>1 DEF Request, Message, MessageTypes, OpCode
<1>2. CASE c.cmd \in {"del", "get"} /\ c.key \in Strings
  BY <1>2 DEF Request, Message, MessageTypes, OpCode
<1>3. CASE c.cmd = "put" /\ c.key \in Strings /\ c.text \in Texts
  <2> DEFINE content == entry_to_msg(entry_create_from_args(c.key, c.text))
  <2>1. content \in EntryMessages
    BY <1>3, TypedEntry
  <2>2. Request(c) = Message(OpCode.PUT, "ENTRY", content)
    BY <1>3 DEF Request
  <2> HIDE DEF content
  <2> QED BY <2>1, <2>2 DEF Message, MessageTypes, OpCode
<1>4. CASE c.cmd = "verify" /\ c.id \in Ids
  BY <1>4 DEF Request, Message, MessageTypes, OpCode, Ids
<1> QED BY <1>1, <1>2, <1>3, <1>4, ValidCommands

\* A message is not NULL.
LEMMA MessageIsThere ==
  ASSUME NEW msg \in MessageTypes
  PROVE  msg # NULL
<1> DEFINE dataMessages == [len: Nat, data: Seq(Bytes) \cup {NULL}]
           entryMessages == [key: [str: Strings] \cup {NULL}, value: dataMessages \cup {NULL}]
           keysMessages == [n_keys: Nat, keys: Seq(Strings) \cup {NULL}]
           contents == Int \cup dataMessages \cup entryMessages \cup keysMessages \cup {NULL}
           cases == {"NONE", "KEY", "VALUE", "ENTRY", "KEYS", "INT_RESULT", "OP_ID"}
<1>1. DataMessages \subseteq dataMessages
  <2> SUFFICES ASSUME NEW bytes \in Seq(Bytes)
               PROVE  Len(bytes) \in Nat /\ Array(bytes) \in Seq(Bytes) \cup {NULL}
    BY DEF DataMessages
  <2> QED BY LenProperties DEF Array
<1>2. KeysMessages \subseteq keysMessages
  <2> SUFFICES ASSUME NEW keys \in Seq(Strings)
               PROVE  Len(keys) \in Nat /\ Array(keys) \in Seq(Strings) \cup {NULL}
    BY DEF KeysMessages
  <2> QED BY LenProperties DEF Array
<1>3. EntryMessages \subseteq entryMessages
  BY <1>1 DEF EntryMessages, NullableStrings
<1>4. Strings \subseteq Int
  BY MessagesAssumption
<1> HIDE DEF dataMessages, keysMessages, entryMessages
<1>5. MessageTypes \subseteq [op_code: Int, content_case: cases, content: contents]
  <2> SUFFICES ASSUME NEW m \in MessageTypes
               PROVE  m \in [op_code: Int, content_case: cases, content: contents]
    OBVIOUS
  <2>1. m = [op_code |-> m.op_code, content_case |-> m.content_case, content |-> m.content]
    BY DEF MessageTypes
  <2>2. m.op_code \in Int
    BY DEF MessageTypes
  <2>3. m.content_case \in cases
    BY DEF MessageTypes
  <2>4. m.content \in {NULL} \cup Strings \cup DataMessages \cup EntryMessages \cup KeysMessages \cup Int
    BY DEF MessageTypes
  <2>5. m.content \in contents
    BY <1>1, <1>2, <1>3, <1>4, <2>4
  <2> HIDE DEF contents, cases
  <2> QED BY <2>1, <2>2, <2>3, <2>5
<1>6. NULL \notin [op_code: Int, content_case: cases, content: contents]
  BY MessagesAssumption DEF dataMessages, keysMessages, entryMessages
<1> QED BY <1>5, <1>6

\* The task for a write-operation is the request for it, and says what was typed.
LEMMA WritingRequest ==
  ASSUME NEW c \in Writing
  PROVE  /\ Message_dup(Sent(Request(c))) = Request(c) /\ Request(c) # NULL
         /\ \/ /\ c.cmd = "del" /\ c.key \in Strings
               /\ Request(c) = Message(OpCode.DEL, "KEY", c.key)
            \/ /\ c.cmd = "put" /\ c.key \in Strings /\ c.text \in Texts
               /\ EntryOfArgs(c).value \in Typed
               /\ entry_create_from_args(c.key, c.text) = EntryOfArgs(c)
               /\ Request(c).op_code = OpCode.PUT /\ Request(c).content_case = "ENTRY"
               /\ msg_to_entry(Request(c).content) = EntryOfArgs(c)
<1>1. c \in Valid
  BY DEF Writing, Valid
<1>2. Message_dup(Sent(Request(c))) = Request(c) /\ Request(c) # NULL
  BY <1>1, RequestType, MessageKept, MessageIsThere
<1>3. CASE c.cmd = "del"
  <2>1. c.key \in Strings
    BY <1>1, <1>3, ValidCommands
  <2> QED BY <1>2, <1>3, <2>1 DEF Request
<1>4. CASE c.cmd = "put"
  <2>1. c.key \in Strings /\ c.text \in Texts
    BY <1>1, <1>4, ValidCommands
  <2>2. /\ entry_create_from_args(c.key, c.text) = EntryOfArgs(c)
        /\ EntryOfArgs(c).value \in Typed
        /\ msg_to_entry(entry_to_msg(EntryOfArgs(c))) = EntryOfArgs(c)
    BY <2>1, TypedEntry DEF EntryOfArgs
  <2>3. Request(c) = Message(OpCode.PUT, "ENTRY", entry_to_msg(EntryOfArgs(c)))
    BY <1>4, <2>2 DEF Request
  <2> QED BY <1>2, <1>4, <2>1, <2>2, <2>3 DEF Message
<1> QED BY <1>3, <1>4 DEF Writing

-----------------------------------------------------------------------------
(* The map that a tree stores.                                             *)

\* Keys are distinct, so each has the value of its node.
LEMMA StoredValues ==
  ASSUME NEW t, IsTree(t), NEW below, Sound(t, below)
  PROVE  /\ Stored(t) \in [Strings -> Typed \cup {NotFound}]
         /\ \A n \in Dom(t) : KeyOf(t, n) \in Strings /\ EntryOf(t, n).value \in Typed
         /\ \A n \in Dom(t) : Stored(t)[KeyOf(t, n)] = EntryOf(t, n).value
         /\ \A k \in Strings : (\A n \in Dom(t) : KeyOf(t, n) # k) => Stored(t)[k] = NotFound
<1> DEFINE Has(k, n) == KeyOf(t, n) = k
           found(k) == CHOOSE n \in Dom(t) : KeyOf(t, n) = k
<1>1. \A n \in Dom(t) : KeyOf(t, n) \in Strings /\ EntryOf(t, n).value \in Typed
  BY DEF IsTree, Dom, KeyOf, EntryOf
<1>2. Stored(t) = [k \in Strings |-> IF \E n \in Dom(t) : KeyOf(t, n) = k
                                     THEN EntryOf(t, found(k)).value ELSE NotFound]
  BY DEF Stored, Dom, KeyOf, EntryOf
<1>3. ASSUME NEW n \in Dom(t) PROVE found(KeyOf(t, n)) = n
  <2>1. found(KeyOf(t, n)) \in Dom(t) /\ KeyOf(t, found(KeyOf(t, n))) = KeyOf(t, n)
    OBVIOUS
  <2> QED BY <2>1, DistinctKeys
<1>4. ASSUME NEW k \in Strings, NEW n \in Dom(t), KeyOf(t, n) = k
      PROVE  found(k) = n
  BY <1>3, <1>4
<1> HIDE DEF found
<1>5. \A n \in Dom(t) : Stored(t)[KeyOf(t, n)] = EntryOf(t, n).value
  BY <1>1, <1>2, <1>3
<1>6. \A k \in Strings : (\A n \in Dom(t) : KeyOf(t, n) # k) => Stored(t)[k] = NotFound
  BY <1>2
<1>7. \A k \in Strings : Stored(t)[k] \in Typed \cup {NotFound}
  <2> TAKE k \in Strings
  <2>1. CASE \E n \in Dom(t) : KeyOf(t, n) = k
    BY <1>1, <1>5, <2>1
  <2>2. CASE \A n \in Dom(t) : KeyOf(t, n) # k
    BY <1>6, <2>2
  <2> QED BY <2>1, <2>2
<1>8. Stored(t) \in [Strings -> Typed \cup {NotFound}]
  BY <1>2, <1>7
<1> QED BY <1>1, <1>5, <1>6, <1>8

\* The keys of the map are those of the nodes, and there is none when there is no root.
LEMMA StoredKeysAreKeys ==
  ASSUME NEW t, IsTree(t), NEW below, Sound(t, below)
  PROVE  /\ Map!StoredKeys(Stored(t)) = {KeyOf(t, n) : n \in Dom(t)}
         /\ Map!StoredKeys(Stored(t)) = {} <=> tree_del_Fails(t)
<1>1. ASSUME NEW k \in Strings
      PROVE  Stored(t)[k] # NotFound <=> \E n \in Dom(t) : KeyOf(t, n) = k
  <2>1. CASE \E n \in Dom(t) : KeyOf(t, n) = k
    BY <2>1, StoredValues, TypedIsData
  <2>2. CASE \A n \in Dom(t) : KeyOf(t, n) # k
    BY <2>2, StoredValues
  <2> QED BY <2>1, <2>2
<1>2. Map!StoredKeys(Stored(t)) = {KeyOf(t, n) : n \in Dom(t)}
  <2>1. \A n \in Dom(t) : KeyOf(t, n) \in Strings
    BY StoredValues
  <2> QED BY <1>1, <2>1 DEF Map!StoredKeys
<1>3. Dom(t) = {} <=> t.root = NULL
  BY SidesApart DEF Sound
<1> QED BY <1>2, <1>3 DEF tree_del_Fails

\* Trees with the same entries but for a key store the same map but for that key.
LEMMA StoredChanges ==
  ASSUME NEW t, IsTree(t), NEW below, Sound(t, below),
         NEW u, IsTree(u), NEW b, Sound(u, b),
         NEW key \in Strings, OthersSame(t, u, key)
  PROVE  /\ \A m \in Dom(u) : KeyOf(u, m) = key =>
              Stored(u) = [Stored(t) EXCEPT ![key] = EntryOf(u, m).value]
         /\ (\A m \in Dom(u) : KeyOf(u, m) # key) =>
              Stored(u) = [Stored(t) EXCEPT ![key] = NotFound]
<1>1. Stored(t) \in [Strings -> Typed \cup {NotFound}] /\ Stored(u) \in [Strings -> Typed \cup {NotFound}]
  BY StoredValues
<1>2. ASSUME NEW k \in Strings, k # key
      PROVE  Stored(u)[k] = Stored(t)[k]
  <2>1. CASE \E m \in Dom(u) : KeyOf(u, m) = k
    <3>1. PICK m \in Dom(u) : KeyOf(u, m) = k
      BY <2>1
    <3>2. m \in Dom(t) /\ EntryOf(u, m) = EntryOf(t, m)
      BY <1>2, <3>1 DEF OthersSame
    <3>3. KeyOf(t, m) = k
      BY <3>1, <3>2 DEF KeyOf, EntryOf
    <3> QED BY <3>1, <3>2, <3>3, StoredValues
  <2>2. CASE \A m \in Dom(u) : KeyOf(u, m) # k
    <3>1. \A m \in Dom(t) : KeyOf(t, m) # k
      <4> SUFFICES ASSUME NEW m \in Dom(t), KeyOf(t, m) = k PROVE FALSE
        OBVIOUS
      <4>1. m \in Dom(u) /\ EntryOf(u, m) = EntryOf(t, m)
        BY <1>2 DEF OthersSame
      <4> QED BY <2>2, <4>1 DEF KeyOf, EntryOf
    <3> QED BY <2>2, <3>1, StoredValues
  <2> QED BY <2>1, <2>2
<1>3. ASSUME NEW m \in Dom(u), KeyOf(u, m) = key
      PROVE  Stored(u) = [Stored(t) EXCEPT ![key] = EntryOf(u, m).value]
  <2>1. Stored(u)[key] = EntryOf(u, m).value
    BY <1>3, StoredValues
  <2> QED BY <1>1, <1>2, <2>1
<1>4. ASSUME \A m \in Dom(u) : KeyOf(u, m) # key
      PROVE  Stored(u) = [Stored(t) EXCEPT ![key] = NotFound]
  <2>1. Stored(u)[key] = NotFound
    BY <1>4, StoredValues
  <2> QED BY <1>1, <1>2, <2>1
<1> QED BY <1>3, <1>4

-----------------------------------------------------------------------------
(* The steps of RemoteTree.                                                *)

\* A search tree that knows its size and its height.
SearchTree(t) ==
  /\ IsTree(t) /\ \E below : Sound(t, below)
  /\ t.size = Cardinality(Dom(t)) /\ t.height = tree_compute_height(t)

\* It is what WellFormed says of the tree.
LEMMA SearchTreeIsOrdered ==
  ASSUME NEW t, IsTree(t)
  PROVE  SearchTree(t) <=> /\ Ordered(t, Subtree(t))
                           /\ t.size = Cardinality(DOMAIN t.heap) /\ t.height = tree_compute_height(t)
BY OrderedIsSound, SubtreeIsBelow DEF SearchTree, Dom

\* tree_create gives a search tree without nodes.
LEMMA CreatedTree == SearchTree(tree_create)
<1> DEFINE heap == [n \in {} |-> NULL]
           below == [n \in {NULL} |-> {}]
<1>1. tree_create = [heap |-> heap, root |-> NULL, size |-> 0, height |-> -1]
  BY DEF tree_create
<1>2. DOMAIN heap = {} /\ heap \in [DOMAIN heap -> NodeType]
  OBVIOUS
<1> HIDE DEF heap
<1>3. Dom(tree_create) = {} /\ tree_create.root = NULL /\ tree_create.size = 0
  BY <1>1, <1>2 DEF Dom
<1>4. IsTree(tree_create)
  BY <1>1, <1>2, TreeFields
<1>5. Cardinality({}) = 0 /\ IsFiniteSet({})
  BY FS_EmptySet
<1>6. Sound(tree_create, below)
  <2>1. below \in [{NULL} -> SUBSET {}] /\ below[NULL] = {} /\ {} \cup {NULL} = {NULL}
    OBVIOUS
  <2> HIDE DEF below
  <2> QED BY <1>3, <1>5, <2>1 DEF Sound
<1>7. tree_create.height = tree_compute_height(tree_create)
  <2>1. PICK h : Tall(tree_create, h) /\ tree_compute_height(tree_create) = h[tree_create.root]
    BY <1>6, HeightOfRoot
  <2> QED BY <1>1, <1>3, <2>1 DEF Tall
<1> QED BY <1>3, <1>4, <1>5, <1>6, <1>7 DEF SearchTree

\* The put that is processed is the one that was asked for.
LEMMA PutStep ==
  ASSUME WellFormed, ProcessPut
  PROVE  /\ asked.cmd = "put" /\ asked.key \in Strings
         /\ EntryOfArgs(asked).value = entry_create_from_args(asked.key, asked.text).value
         /\ SearchTree(tree') /\ OthersSame(tree, tree', asked.key)
         /\ \E m \in Dom(tree') : /\ KeyOf(tree', m) = asked.key
                                  /\ EntryOf(tree', m).value = EntryOfArgs(asked).value
<1>1. asked \in Writing /\ task = Request(asked) /\ task.op_code = OpCode.PUT
  BY DEF WellFormed, TypeOK, ProcessPut
<1>2. /\ asked.cmd = "put" /\ asked.key \in Strings /\ EntryOfArgs(asked).value \in Typed
      /\ entry_create_from_args(asked.key, asked.text) = EntryOfArgs(asked)
      /\ msg_to_entry(task.content) = EntryOfArgs(asked)
  <2>1. ~(task = Message(OpCode.DEL, "KEY", asked.key))
    BY <1>1 DEF Message, OpCode
  <2> QED BY <1>1, <2>1, WritingRequest
<1> DEFINE key == asked.key
           value == EntryOfArgs(asked).value
<1>3. EntryOfArgs(asked).key = key
  BY DEF EntryOfArgs
<1> HIDE DEF value
<1>4. PICK n \in IF At(tree, Location(tree, key)) = NULL THEN Free(tree) ELSE {NULL} :
        tree' = tree_put(tree, n, key, value)
  BY <1>2, <1>3 DEF ProcessPut, value
<1>5. At(tree, Location(tree, key)) = NULL => n \in Free(tree)
  BY <1>4
<1>6. SearchTree(tree)
  BY SearchTreeIsOrdered DEF WellFormed, TypeOK
<1>7. PICK below : Sound(tree, below)
  BY <1>6 DEF SearchTree
<1>8. /\ SearchTree(tree') /\ OthersSame(tree, tree', key)
      /\ \E m \in Dom(tree') : KeyOf(tree', m) = key /\ EntryOf(tree', m).value = value
  <2>1. /\ IsTree(tree) /\ tree.size = Cardinality(Dom(tree)) /\ tree.height = tree_compute_height(tree)
        /\ key \in Strings /\ value \in Typed
    BY <1>2, <1>6 DEF SearchTree, value
  <2> HIDE DEF key
  <2> QED BY <1>4, <1>5, <1>7, <2>1, PutKeeps DEF SearchTree
<1> QED BY <1>2, <1>8 DEF value

\* The del that is processed is the one that was asked for.
LEMMA DelStep ==
  ASSUME WellFormed, ProcessDel
  PROVE  /\ asked.cmd = "del" /\ asked.key \in Strings
         /\ SearchTree(tree') /\ OthersSame(tree, tree', asked.key)
         /\ \A m \in Dom(tree') : KeyOf(tree', m) # asked.key
<1>1. asked \in Writing /\ task = Request(asked) /\ task.op_code = OpCode.DEL
  BY DEF WellFormed, TypeOK, ProcessDel
<1>2. asked.cmd = "del" /\ asked.key \in Strings /\ task = Message(OpCode.DEL, "KEY", asked.key)
  <2>1. task.op_code # OpCode.PUT
    BY <1>1 DEF OpCode
  <2> QED BY <1>1, <2>1, WritingRequest
<1>3. tree' = tree_del(tree, asked.key)
  BY <1>2 DEF ProcessDel, Message
<1>4. SearchTree(tree)
  BY SearchTreeIsOrdered DEF WellFormed, TypeOK
<1>5. PICK below : Sound(tree, below)
  BY <1>4 DEF SearchTree
<1> DEFINE key == asked.key
<1>6. /\ key \in Strings /\ tree' = tree_del(tree, key) /\ IsTree(tree)
      /\ tree.size = Cardinality(Dom(tree)) /\ tree.height = tree_compute_height(tree)
  BY <1>2, <1>3, <1>4 DEF SearchTree
<1> HIDE DEF key
<1>7. /\ SearchTree(tree') /\ OthersSame(tree, tree', key)
      /\ \A m \in Dom(tree') : KeyOf(tree', m) # key
  BY <1>5, <1>6, DelKeeps DEF SearchTree
<1> QED BY <1>2, <1>7 DEF key

\* exit(1) in tree_del is for a del that was asked for.
LEMMA DelFailsStep ==
  ASSUME WellFormed, ProcessDelFails
  PROVE  asked.cmd = "del" /\ asked.key \in Strings
<1>1. asked \in Writing /\ task = Request(asked) /\ task.op_code = OpCode.DEL
  BY DEF WellFormed, TypeOK, ProcessDelFails
<1>2. task.op_code # OpCode.PUT
  BY <1>1 DEF OpCode
<1> QED BY <1>1, <1>2, WritingRequest

\* Whatever is put and deleted, the nodes are a search tree with the keys in order,
\* none of them lost or shared, and the size is their number (tree.c).
THEOREM TreeWellFormed == Spec => []WellFormed
<1>1. Init => WellFormed
  <2> SUFFICES ASSUME Init PROVE WellFormed
    OBVIOUS
  <2>1. SearchTree(tree)
    BY CreatedTree DEF Init
  <2>2. TypeOK
    BY <2>1 DEF Init, TypeOK, SearchTree
  <2> QED BY <2>1, <2>2, SearchTreeIsOrdered DEF WellFormed, SearchTree
<1>2. ASSUME WellFormed, [Next]_vars
      PROVE  WellFormed'
  <2>1. SearchTree(tree)
    BY <1>2, SearchTreeIsOrdered DEF WellFormed, TypeOK
  <2> SUFFICES /\ SearchTree(tree') /\ alive' \in BOOLEAN
               /\ task_result' \in {TaskResult.SUCCESSFUL, TaskResult.NOT_EXECUTED}
               /\ \/ asked' = NULL /\ task' = NULL
                  \/ asked' \in Writing /\ task' = Request(asked')
    <3>1. IsTree(tree')
      BY DEF SearchTree
    <3>2. /\ Ordered(tree', Subtree(tree')) /\ tree'.size = Cardinality(DOMAIN tree'.heap)
          /\ tree'.height = tree_compute_height(tree')
      BY <3>1, SearchTreeIsOrdered
    <3>3. TypeOK'
      BY <3>1 DEF TypeOK
    <3> QED BY <3>2, <3>3 DEF WellFormed
  <2>2. ASSUME NEW c \in Commands, Ask(c)
        PROVE  /\ tree' = tree /\ alive' \in BOOLEAN /\ task_result' = TaskResult.NOT_EXECUTED
               /\ asked' \in Writing /\ task' = Request(asked')
    BY <1>2, <2>2, WritingRequest DEF Ask, WellFormed, TypeOK
  <2>3. CASE ProcessPut
    BY <1>2, <2>3, PutStep DEF ProcessPut, Finish, WellFormed, TypeOK
  <2>4. CASE ProcessDel
    BY <1>2, <2>4, DelStep DEF ProcessDel, Finish, WellFormed, TypeOK
  <2>5. CASE ProcessDelFails
    BY <2>1, <2>5 DEF ProcessDelFails, Finish
  <2>6. CASE UNCHANGED vars
    BY <1>2, <2>1, <2>6 DEF vars, WellFormed, TypeOK
  <2> QED BY <1>2, <2>1, <2>2, <2>3, <2>4, <2>5, <2>6 DEF Next
<1> QED BY <1>1, <1>2, PTL DEF Spec

\* The commands do to the map what Operations says: no write is lost, none changes
\* another key, and none but a del of a missing key is without success (tree_put, tree_del).
THEOREM WritesRefineMap == Spec => WritesAreMapWrites
<1> DEFINE Written == task # NULL /\ task' = NULL =>
                        /\ Stored(tree') = Map!Apply(Stored(tree), WriteAsked)
                        /\ \/ task_result' = TaskResult.SUCCESSFUL
                           \/ asked.cmd = "del" /\ Stored(tree)[asked.key] = NotFound
<1>1. ASSUME WellFormed, [Next]_vars
      PROVE  [Written]_vars
  <2>1. PICK below : Sound(tree, below)
    BY <1>1, SearchTreeIsOrdered DEF WellFormed, TypeOK, SearchTree
  <2>2. IsTree(tree)
    BY <1>1 DEF WellFormed, TypeOK
  <2>3. ASSUME NEW c \in Commands, Ask(c) PROVE Written
    BY <2>3 DEF Ask
  <2>4. CASE ProcessPut
    <3>1. /\ asked.cmd = "put" /\ asked.key \in Strings
          /\ EntryOfArgs(asked).value = entry_create_from_args(asked.key, asked.text).value
          /\ SearchTree(tree') /\ OthersSame(tree, tree', asked.key)
      BY <1>1, <2>4, PutStep
    <3>2. PICK m \in Dom(tree') : /\ KeyOf(tree', m) = asked.key
                                  /\ EntryOf(tree', m).value = EntryOfArgs(asked).value
      BY <1>1, <2>4, PutStep
    <3>3. PICK b : Sound(tree', b)
      BY <3>1 DEF SearchTree
    <3>4. Stored(tree') = [Stored(tree) EXCEPT ![asked.key] = EntryOf(tree', m).value]
      BY <2>1, <2>2, <3>1, <3>2, <3>3, StoredChanges DEF SearchTree
    <3>5. /\ WriteAsked.op = "PUT" /\ WriteAsked.key = asked.key
          /\ WriteAsked.value = EntryOfArgs(asked).value
      BY <3>1 DEF WriteAsked
    <3>6. Map!Apply(Stored(tree), WriteAsked) =
            [Stored(tree) EXCEPT ![asked.key] = EntryOf(tree', m).value]
      BY <3>2, <3>5 DEF Map!Apply
    <3>7. task_result' = TaskResult.SUCCESSFUL
      BY <2>4 DEF ProcessPut, Finish
    <3> QED BY <3>4, <3>6, <3>7
  <2>5. CASE ProcessDel
    <3>1. /\ asked.cmd = "del" /\ asked.key \in Strings
          /\ SearchTree(tree') /\ OthersSame(tree, tree', asked.key)
          /\ \A m \in Dom(tree') : KeyOf(tree', m) # asked.key
      BY <1>1, <2>5, DelStep
    <3>2. PICK b : Sound(tree', b)
      BY <3>1 DEF SearchTree
    <3>3. Stored(tree') = [Stored(tree) EXCEPT ![asked.key] = NotFound]
      BY <2>1, <2>2, <3>1, <3>2, StoredChanges DEF SearchTree
    <3>4. WriteAsked.op = "DEL" /\ WriteAsked.key = asked.key
      BY <3>1 DEF WriteAsked
    <3>5. Map!Apply(Stored(tree), WriteAsked) = [Stored(tree) EXCEPT ![asked.key] = NotFound]
      BY <3>4 DEF Map!Apply
    <3>6. task_result' = TaskResult.SUCCESSFUL
      BY <2>5 DEF ProcessDel, Finish
    <3> QED BY <3>3, <3>5, <3>6
  <2>6. CASE ProcessDelFails
    <3>1. asked.cmd = "del" /\ asked.key \in Strings
      BY <1>1, <2>6, DelFailsStep
    <3>2. Map!StoredKeys(Stored(tree)) = {} /\ tree' = tree
      BY <2>1, <2>2, <2>6, StoredKeysAreKeys DEF ProcessDelFails
    <3>3. /\ Stored(tree) \in [Strings -> Typed \cup {NotFound}]
          /\ Stored(tree)[asked.key] = NotFound
      BY <2>1, <2>2, <3>1, <3>2, StoredValues DEF Map!StoredKeys
    <3>4. WriteAsked.op = "DEL" /\ WriteAsked.key = asked.key
      BY <3>1 DEF WriteAsked
    <3>5. Map!Apply(Stored(tree), WriteAsked) = [Stored(tree) EXCEPT ![asked.key] = NotFound]
      BY <3>4 DEF Map!Apply
    <3>6. [Stored(tree) EXCEPT ![asked.key] = NotFound] = Stored(tree)
      BY <3>1, <3>3
    <3> QED BY <3>1, <3>2, <3>3, <3>5, <3>6
  <2> QED BY <1>1, <2>3, <2>4, <2>5, <2>6 DEF Next
<1> HIDE DEF Written
<1>2. Spec => [][Written]_vars
  BY <1>1, TreeWellFormed, PTL DEF Spec
<1> QED BY <1>2 DEF WritesAreMapWrites, Written

-----------------------------------------------------------------------------
(* Answers to read-operations.                                             *)

\* The keys of some nodes, each once and in ascending order.
Lists(t, keys, nodes) ==
  /\ keys \in Seq(Strings)
  /\ \A i, j \in 1 .. Len(keys) : i < j => keys[i] < keys[j]
  /\ \A i \in 1 .. Len(keys) : \E n \in nodes : keys[i] = KeyOf(t, n)
  /\ \A n \in nodes : \E i \in 1 .. Len(keys) : keys[i] = KeyOf(t, n)

\* Smaller keys, a key and larger keys, one after the other.
LEMMA ListsJoin ==
  ASSUME NEW t, NEW below, Sound(t, below), IsTree(t), NEW n \in Dom(t),
         NEW l, Lists(t, l, below[Left(t, n)]), NEW r, Lists(t, r, below[Right(t, n)])
  PROVE  LET s == l \o <<KeyOf(t, n)>> \o r IN s \in Seq(Strings) /\ Lists(t, s, below[n])
<1> DEFINE k == KeyOf(t, n)
           m == l \o <<k>>
           s == m \o r
<1>1. /\ k \in Strings /\ Strings \subseteq Int
      /\ below[n] = {n} \cup below[Left(t, n)] \cup below[Right(t, n)]
      /\ \A x \in below[Left(t, n)] : KeyOf(t, x) < k
      /\ \A x \in below[Right(t, n)] : KeyOf(t, x) > k
  BY MessagesAssumption DEF Sound, IsTree, Dom, KeyOf
<1>2. l \in Seq(Strings) /\ r \in Seq(Strings) /\ <<k>> \in Seq(Strings) /\ Len(<<k>>) = 1 /\ <<k>>[1] = k
  BY <1>1 DEF Lists
<1> HIDE DEF k
<1>3. /\ m \in Seq(Strings) /\ Len(m) = Len(l) + 1
      /\ \A i \in 1 .. Len(m) : m[i] = IF i <= Len(l) THEN l[i] ELSE k
  <2>1. /\ m \in Seq(Strings) /\ Len(m) = Len(l) + Len(<<k>>)
        /\ \A i \in 1 .. Len(l) + Len(<<k>>) : m[i] = IF i <= Len(l) THEN l[i] ELSE <<k>>[i - Len(l)]
    BY <1>2, ConcatProperties
  <2>2. Len(l) \in Nat
    BY <1>2, LenProperties
  <2> HIDE DEF m
  <2> QED BY <1>2, <2>1, <2>2
<1> HIDE DEF m
<1>4. /\ s \in Seq(Strings) /\ Len(s) = Len(m) + Len(r)
      /\ \A i \in 1 .. Len(m) + Len(r) : s[i] = IF i <= Len(m) THEN m[i] ELSE r[i - Len(m)]
  BY <1>2, <1>3, ConcatProperties
<1> HIDE DEF s
<1>5. /\ Len(l) \in Nat /\ Len(r) \in Nat
      /\ \A i \in 1 .. Len(l) : l[i] \in Int
      /\ \A i \in 1 .. Len(r) : r[i] \in Int
      /\ k \in Int
  <2>1. Len(l) \in Nat /\ Len(r) \in Nat
    BY <1>2, LenProperties
  <2>2. \A i \in 1 .. Len(l) : l[i] \in Strings
    BY <1>2, ElementOfSeq
  <2>3. \A i \in 1 .. Len(r) : r[i] \in Strings
    BY <1>2, ElementOfSeq
  <2> QED BY <1>1, <2>1, <2>2, <2>3 DEF k
<1>6. /\ Len(s) = Len(l) + 1 + Len(r)
      /\ \A i \in 1 .. Len(l) : s[i] = l[i]
      /\ s[Len(l) + 1] = k
      /\ \A i \in 1 .. Len(r) : s[Len(l) + 1 + i] = r[i]
      /\ \A i \in 1 .. Len(s) : \/ i \in 1 .. Len(l)
                                \/ i = Len(l) + 1
                                \/ i - (Len(l) + 1) \in 1 .. Len(r)
  <2>1. ASSUME NEW i \in 1 .. Len(l) PROVE s[i] = l[i]
    <3>1. i \in 1 .. Len(m) /\ i \in 1 .. Len(m) + Len(r) /\ i <= Len(m) /\ i <= Len(l)
      BY <1>3, <1>5
    <3> QED BY <1>3, <1>4, <3>1
  <2>2. s[Len(l) + 1] = k
    <3> DEFINE i == Len(l) + 1
    <3>1. i \in 1 .. Len(m) /\ i \in 1 .. Len(m) + Len(r) /\ i <= Len(m) /\ ~(i <= Len(l))
      BY <1>3, <1>5
    <3> HIDE DEF i
    <3>2. s[i] = k
      BY <1>3, <1>4, <3>1
    <3> QED BY <3>2 DEF i
  <2>3. ASSUME NEW i \in 1 .. Len(r) PROVE s[Len(l) + 1 + i] = r[i]
    <3> DEFINE j == Len(l) + 1 + i
    <3>1. j \in 1 .. Len(m) + Len(r) /\ ~(j <= Len(m)) /\ j - Len(m) = i
      BY <1>3, <1>5
    <3> HIDE DEF j
    <3>2. s[j] = r[i]
      BY <1>4, <3>1
    <3> QED BY <3>2 DEF j
  <2>4. Len(s) = Len(l) + 1 + Len(r)
    BY <1>3, <1>4
  <2>5. \A i \in 1 .. Len(s) : \/ i \in 1 .. Len(l)
                               \/ i = Len(l) + 1
                               \/ i - (Len(l) + 1) \in 1 .. Len(r)
    BY <1>5, <2>4
  <2> QED BY <2>1, <2>2, <2>3, <2>4, <2>5
<1>7. /\ \A i \in 1 .. Len(l) : l[i] < k
      /\ \A i \in 1 .. Len(r) : r[i] > k
  BY <1>1 DEF Lists
<1>8. ASSUME NEW i \in 1 .. Len(s), NEW j \in 1 .. Len(s), i < j PROVE s[i] < s[j]
  <2> DEFINE N == Len(l) + 1
  <2>1. \A x \in 1 .. Len(s) : x - N \in 1 .. Len(r) => s[x] = r[x - N] /\ r[x - N] > k
    <3> TAKE x \in 1 .. Len(s)
    <3> HAVE x - N \in 1 .. Len(r)
    <3>1. s[N + (x - N)] = r[x - N]
      BY <1>6
    <3>2. x = N + (x - N)
      BY <1>5
    <3> QED BY <1>7, <3>1, <3>2
  <2>2. \A x \in 1 .. Len(l) : s[x] = l[x] /\ l[x] < k
    BY <1>6, <1>7
  <2>3. s[N] = k
    BY <1>6
  <2>4. CASE i \in 1 .. Len(l) /\ j \in 1 .. Len(l)
    BY <1>8, <2>2, <2>4 DEF Lists
  <2>5. CASE i \in 1 .. Len(l) /\ j = N
    BY <2>2, <2>3, <2>5
  <2>6. CASE i \in 1 .. Len(l) /\ j - N \in 1 .. Len(r)
    BY <1>5, <2>1, <2>2, <2>6
  <2>7. CASE i = N /\ j - N \in 1 .. Len(r)
    BY <1>5, <2>1, <2>3, <2>7
  <2>8. CASE i - N \in 1 .. Len(r) /\ j - N \in 1 .. Len(r)
    <3>1. i - N < j - N
      BY <1>5, <1>8
    <3>2. r[i - N] < r[j - N]
      BY <2>8, <3>1 DEF Lists
    <3> QED BY <2>1, <2>8, <3>2
  <2>9. i \in 1 .. Len(l) \/ i = N \/ i - N \in 1 .. Len(r)
    BY <1>6
  <2>10. j \in 1 .. Len(l) \/ j = N \/ j - N \in 1 .. Len(r)
    BY <1>6
  <2>11. /\ j \in 1 .. Len(l) => i \in 1 .. Len(l)
         /\ j = N => i \in 1 .. Len(l)
    BY <1>5, <1>8
  <2> QED BY <2>4, <2>5, <2>6, <2>7, <2>8, <2>9, <2>10, <2>11
<1>9. ASSUME NEW i \in 1 .. Len(s) PROVE \E x \in below[n] : s[i] = KeyOf(t, x)
  <2>1. CASE i \in 1 .. Len(l)
    BY <1>1, <1>6, <2>1 DEF Lists
  <2>2. CASE i = Len(l) + 1
    BY <1>1, <1>6, <2>2 DEF k
  <2>3. CASE i - (Len(l) + 1) \in 1 .. Len(r)
    <3>1. s[i] = r[i - (Len(l) + 1)]
      <4>1. i = Len(l) + 1 + (i - (Len(l) + 1))
        BY <1>5
      <4> QED BY <1>6, <2>3, <4>1
    <3> QED BY <1>1, <2>3, <3>1 DEF Lists
  <2> QED BY <1>6, <2>1, <2>2, <2>3
<1>10. ASSUME NEW x \in below[n] PROVE \E i \in 1 .. Len(s) : s[i] = KeyOf(t, x)
  <2>1. CASE x = n
    <3>1. Len(l) + 1 \in 1 .. Len(s)
      BY <1>5, <1>6
    <3> QED BY <1>6, <2>1, <3>1 DEF k
  <2>2. CASE x \in below[Left(t, n)]
    <3>1. PICK i \in 1 .. Len(l) : l[i] = KeyOf(t, x)
      BY <2>2 DEF Lists
    <3>2. i \in 1 .. Len(s)
      BY <1>5, <1>6
    <3> QED BY <1>6, <3>1, <3>2
  <2>3. CASE x \in below[Right(t, n)]
    <3>1. PICK i \in 1 .. Len(r) : r[i] = KeyOf(t, x)
      BY <2>3 DEF Lists
    <3>2. Len(l) + 1 + i \in 1 .. Len(s)
      BY <1>5, <1>6
    <3> QED BY <1>6, <3>1, <3>2
  <2> QED BY <1>1, <2>1, <2>2, <2>3
<1>11. Lists(t, s, below[n])
  BY <1>4, <1>8, <1>9, <1>10 DEF Lists
<1> QED BY <1>4, <1>11 DEF s, m, k

\* tree_get_keys lists the keys of all nodes.
LEMMA KeysAreListed ==
  ASSUME NEW t, IsTree(t), NEW below, Sound(t, below)
  PROVE  Lists(t, tree_get_keys(t), Dom(t))
<1> DEFINE D == Dom(t) \cup {NULL}
           V == Seq(Strings)
           Equation(f) == f = [n \in D |-> IF n = NULL THEN <<>>
                                           ELSE f[Left(t, n)] \o <<KeyOf(t, n)>> \o f[Right(t, n)]]
           step == [n \in Dom(t) |-> [l \in V |-> [r \in V |-> l \o <<KeyOf(t, n)>> \o r]]]
           keys == CHOOSE f : Equation(f)
<1>1. /\ \A n \in Dom(t) : n # NULL /\ Left(t, n) \in D /\ Right(t, n) \in D
      /\ t.root \in D
  BY DEF Sound
<1>2. \A n \in Dom(t) : KeyOf(t, n) \in Strings
  BY DEF IsTree, Dom, KeyOf
<1>3. \A n \in Dom(t), l, r \in V : l \o <<KeyOf(t, n)>> \o r \in V
  <2> TAKE n \in Dom(t), l, r \in V
  <2>1. <<KeyOf(t, n)>> \in V
    BY <1>2
  <2>2. l \o <<KeyOf(t, n)>> \in V
    BY <2>1, ConcatProperties
  <2> QED BY <2>2, ConcatProperties
<1>4. \E f \in [D -> V] : Recursion(t, f, <<>>, step)
  <2>1. step \in [Dom(t) -> [V -> [V -> V]]] /\ <<>> \in V
    BY <1>3
  <2> HIDE DEF step, V
  <2> QED BY <2>1, RecursionExists
<1>5. PICK f \in [D -> V] : Recursion(t, f, <<>>, step)
  BY <1>4
<1>6. Equation(f)
  <2>1. \A n \in Dom(t) : f[n] = f[Left(t, n)] \o <<KeyOf(t, n)>> \o f[Right(t, n)]
    <3> TAKE n \in Dom(t)
    <3>1. f[Left(t, n)] \in V /\ f[Right(t, n)] \in V
      BY <1>1
    <3>2. f[n] = step[n][f[Left(t, n)]][f[Right(t, n)]]
      BY <1>5 DEF Recursion
    <3> HIDE DEF V
    <3> QED BY <3>1, <3>2
  <2>2. f[NULL] = <<>> /\ f = [n \in D |-> f[n]]
    BY <1>5 DEF Recursion
  <2> QED BY <1>1, <2>1, <2>2
<1>7. Equation(keys)
  <2> HIDE DEF Equation
  <2> QED BY <1>6, Zenon
<1>8. tree_get_keys(t) = keys[t.root]
  BY DEF tree_get_keys, Dom, Left, Right, KeyOf
<1> HIDE DEF keys, V, step
<1>9. /\ keys[NULL] = <<>>
      /\ \A n \in Dom(t) : keys[n] = keys[Left(t, n)] \o <<KeyOf(t, n)>> \o keys[Right(t, n)]
  <2>1. \A n \in D : keys[n] = IF n = NULL THEN <<>>
                               ELSE keys[Left(t, n)] \o <<KeyOf(t, n)>> \o keys[Right(t, n)]
    BY <1>7, Zenon
  <2> QED BY <1>1, <2>1
<1>10. Lists(t, keys[NULL], below[NULL])
  <2>1. below[NULL] = {}
    BY DEF Sound
  <2> QED BY <1>9, <2>1 DEF Lists
<1> DEFINE S == {n \in Dom(t) : Lists(t, keys[n], below[n])}
<1>11. ASSUME NEW n \in Dom(t), Left(t, n) \in S \cup {NULL}, Right(t, n) \in S \cup {NULL}
       PROVE  n \in S
  <2>1. Lists(t, keys[Left(t, n)], below[Left(t, n)]) /\ Lists(t, keys[Right(t, n)], below[Right(t, n)])
    BY <1>10, <1>11
  <2>2. Lists(t, keys[Left(t, n)] \o <<KeyOf(t, n)>> \o keys[Right(t, n)], below[n])
    BY <2>1, ListsJoin
  <2> QED BY <1>9, <2>2
<1> HIDE DEF S
<1>12. Dom(t) \subseteq S
  BY <1>11, TreeInduction
<1>13. Lists(t, keys[t.root], below[t.root])
  BY <1>1, <1>10, <1>12 DEF S
<1> QED BY <1>8, <1>13 DEF Sound

\* tree_get finds what the tree stores.
LEMMA GetFinds ==
  ASSUME NEW t, IsTree(t), NEW below, Sound(t, below), NEW key \in Strings
  PROVE  tree_get(t, key) = Stored(t)[key]
<1> DEFINE p == Location(t, key)
           n == At(t, p)
<1>1. /\ n \in Dom(t) \cup {NULL} /\ NULL \notin Dom(t)
      /\ n # NULL => KeyOf(t, n) = key
      /\ n = NULL => \A m \in Dom(t) : KeyOf(t, m) # key
  <2>1. key \in Int /\ Dom(t) \subseteq Nodes
    BY MessagesAssumption DEF IsTree, Dom
  <2>2. p \in Locations(t) /\ Arrived(t, key, p) /\ Holds(t, below, key, p)
    BY <2>1, SearchArrives
  <2> HIDE DEF p
  <2>3. n \in Dom(t) \cup {NULL}
    BY <2>2, LocationFacts
  <2> QED BY <2>2, <2>3 DEF Arrived, Holds, Sound
<1> HIDE DEF n
<1>2. CASE n = NULL
  BY <1>1, <1>2, StoredValues DEF tree_get, n, p
<1>3. CASE n # NULL
  <2>1. n \in Dom(t) /\ t.root # NULL
    BY <1>1, <1>3 DEF Sound
  <2>2. tree_get(t, key) = data_dup(EntryOf(t, n).value)
    BY <1>3, <2>1 DEF tree_get, EntryOf, n, p
  <2> QED BY <1>1, <2>1, <2>2, <1>3, StoredValues, TypedIsData
<1> QED BY <1>2, <1>3

-----------------------------------------------------------------------------
(* Messages of the system.                                                 *)

\* NotFound is data_create(0), and no bytes.
LEMMA NotFoundIsData == NotFound \in Datas /\ NotFound.data = NULL
<1>1. NotFound = [datasize |-> 0, data |-> NULL]
  BY DEF NotFound, data_create2, areParamsInvalid
<1>2. <<>> \in Seq(Bytes) /\ Len(<<>>) = 0 /\ Array(<<>>) = NULL
  BY DEF Array
<1> QED BY <1>1, <1>2 DEF Datas

\* What is stored can be sent, and is no NULL.
LEMMA StoredIsData ==
  ASSUME NEW t, IsTree(t), NEW below, Sound(t, below), NEW key \in Strings
  PROVE  Stored(t)[key] \in Datas /\ Stored(t)[key] # NULL
<1>1. Stored(t)[key] \in Datas
  BY StoredValues, TypedIsData, NotFoundIsData
<1>2. Datas \subseteq [datasize: Nat, data: Seq(Bytes) \cup {NULL}]
  <2> SUFFICES ASSUME NEW bytes \in Seq(Bytes)
               PROVE  Len(bytes) \in Nat /\ Array(bytes) \in Seq(Bytes) \cup {NULL}
    BY DEF Datas
  <2> QED BY LenProperties DEF Array
<1> QED BY <1>1, <1>2, MessagesAssumption

\* The response to any message is a message.
LEMMA ResponseType ==
  ASSUME TypeOK, NEW below, Sound(tree, below), NEW r \in MessageTypes, NEW id \in Int, NEW result \in Int
  PROVE  Response(r, id, result) \in MessageTypes
<1> DEFINE op == r.op_code
           ct == r.content_case
           m == Response(r, id, result)
<1>1. op \in Int /\ (ct = "KEY" => r.content \in Strings)
  BY DEF MessageTypes
<1>2. IsTree(tree) /\ tree.size \in Int /\ tree.height \in Int
  BY DEF TypeOK, IsTree
<1>3. /\ \A c \in {"INT_RESULT", "OP_ID"}, o, i \in Int : Message(o, c, i) \in MessageTypes
      /\ \A o \in Int : Message(o, "NONE", NULL) \in MessageTypes
      /\ \A o \in Int, v \in DataMessages : Message(o, "VALUE", v) \in MessageTypes
      /\ \A o \in Int, v \in KeysMessages : Message(o, "KEYS", v) \in MessageTypes
  BY DEF Message, MessageTypes
<1>4. op + 1 \in Int /\ OpCode.ERROR \in Int /\ -1 \in Int
  BY <1>1 DEF OpCode
<1>5. CASE op = OpCode.SIZE
  <2>1. m = Message(op + 1, "INT_RESULT", tree.size)
    BY <1>5 DEF Response, OpCode, tree_size
  <2> QED BY <1>2, <1>3, <1>4, <2>1
<1>6. CASE op = OpCode.HEIGHT
  <2>1. m = Message(op + 1, "INT_RESULT", tree.height)
    BY <1>6 DEF Response, OpCode, tree_height
  <2> QED BY <1>2, <1>3, <1>4, <2>1
<1>7. CASE op = OpCode.GETKEYS
  <2>1. m = Message(op + 1, "KEYS", keys_to_msg(tree_get_keys(tree)))
    BY <1>7 DEF Response, OpCode
  <2>2. keys_to_msg(tree_get_keys(tree)) \in KeysMessages
    BY <1>2, KeysAreListed, KeysMessageKept DEF Lists
  <2> QED BY <1>3, <1>4, <2>1, <2>2
<1>8. CASE op = OpCode.GET /\ ct = "KEY"
  <2> DEFINE value == Stored(tree)[r.content]
  <2>1. tree_get(tree, r.content) = value /\ value \in Datas /\ value # NULL
    BY <1>1, <1>2, <1>8, GetFinds, StoredIsData
  <2>2. m = Message(op + 1, "VALUE", data_to_msg(value))
    BY <1>8, <2>1 DEF Response, OpCode
  <2>3. data_to_msg(value) \in DataMessages
    BY <2>1, ContentKept
  <2> HIDE DEF value
  <2> QED BY <1>3, <1>4, <2>2, <2>3
<1>9. CASE op \notin {OpCode.SIZE, OpCode.HEIGHT, OpCode.GETKEYS} /\ ~(op = OpCode.GET /\ ct = "KEY")
  <2>1. m \in {Message(op + 1, "OP_ID", id), Message(op + 1, "INT_RESULT", result),
               Message(OpCode.ERROR, "INT_RESULT", -1)}
    BY <1>9 DEF Response, OpCode
  <2> QED BY <1>3, <1>4, <2>1
<1> QED BY <1>5, <1>6, <1>7, <1>8, <1>9

\* No message changes between the client, the server and its backup (message-private.c,
\* serialization.c): those of the user, the responses, and the task that is copied.
THEOREM NoMessageChanges == Spec => []MessagesKept
<1>1. ASSUME WellFormed PROVE MessagesKept
  <2>1. TypeOK /\ \E below : Sound(tree, below)
    BY <1>1, SearchTreeIsOrdered DEF WellFormed, TypeOK, SearchTree
  <2>2. ASSUME NEW c \in Commands, ~InvalidArgs(c) PROVE Request(c) \in MessageTypes
    BY <2>2, RequestType DEF Valid
  <2>3. ASSUME NEW r \in MessageTypes, NEW id \in Ids PROVE Response(r, id, 0) \in MessageTypes
    BY <2>1, ResponseType DEF Ids
  <2>4. task # NULL => task \in MessageTypes
    BY <2>1, <2>2 DEF TypeOK, Writing
  <2> QED BY <2>2, <2>3, <2>4, MessageKept DEF MessagesKept
<1> QED BY <1>1, TreeWellFormed, PTL

-----------------------------------------------------------------------------
(* What the user is told.                                                  *)

\* The nodes of a full tree of each height up to last.
IsFull(full, last) ==
  /\ full[-1] = 0
  /\ \A h \in 0 .. last : full[h] = 2 * full[h - 1] + 1
  /\ \A h \in -1 .. last : full[h] \in Nat
  /\ \A h \in 0 .. last : full[h] >= full[h - 1]

\* Heights gives those from -1 on for which a full tree has enough nodes.
LEMMA FullTrees ==
  ASSUME NEW n \in Nat
  PROVE  \E full : IsFull(full, n) /\ Map!Heights(n) = {h \in -1 .. n - 1 : n <= full[h]}
<1> DEFINE Equation(f) == f = [h \in -1 .. n |-> IF h = -1 THEN 0 ELSE 2 * f[h - 1] + 1]
           step == [m \in Nat |-> 2 * m + 1]
           full == CHOOSE f : Equation(f)
<1>1. PICK f \in [0 .. n + 1 -> Nat] : Loop(f, 0, step, n + 1)
  <2>1. step \in [Nat -> Nat] /\ n + 1 \in Nat
    OBVIOUS
  <2> HIDE DEF step
  <2> QED BY <2>1, LoopExists
<1>2. \A h \in 0 .. n : f[h + 1] = 2 * f[h] + 1
  <2> TAKE h \in 0 .. n
  <2> DEFINE i == h + 1
  <2>1. i \in 1 .. n + 1 /\ i - 1 = h /\ h \in 0 .. n + 1 /\ f[h] \in Nat
    OBVIOUS
  <2> HIDE DEF i
  <2>2. f[i] = step[f[i - 1]]
    BY <1>1, <2>1 DEF Loop
  <2>3. f[i] = 2 * f[h] + 1
    BY <2>1, <2>2
  <2> QED BY <2>3 DEF i
<1> DEFINE g == [h \in -1 .. n |-> f[h + 1]]
<1>3. Equation(g)
  <2>1. \A h \in -1 .. n : g[h] = IF h = -1 THEN 0 ELSE 2 * g[h - 1] + 1
    <3> TAKE h \in -1 .. n
    <3>1. CASE h = -1
      <4>1. g[-1] = f[0] /\ f[0] = 0
        BY <1>1 DEF Loop
      <4> QED BY <3>1, <4>1
    <3>2. CASE h # -1
      <4>1. h \in 0 .. n /\ h - 1 \in -1 .. n /\ (h - 1) + 1 = h
        BY <3>2
      <4>2. g[h] = f[h + 1] /\ g[h - 1] = f[h]
        BY <4>1
      <4> QED BY <1>2, <3>2, <4>1, <4>2
    <3> QED BY <3>1, <3>2
  <2>2. g = [h \in -1 .. n |-> g[h]]
    OBVIOUS
  <2> HIDE DEF g
  <2> QED BY <2>1, <2>2
<1>4. Equation(full)
  <2> HIDE DEF Equation, g
  <2> QED BY <1>3, Zenon
<1>5. Map!Heights(n) = {h \in -1 .. n - 1 : n <= full[h]}
  BY DEF Map!Heights
<1> HIDE DEF full
<1>6. \A h \in -1 .. n : full[h] = IF h = -1 THEN 0 ELSE 2 * full[h - 1] + 1
  BY <1>4, Zenon
<1>7. full[-1] = 0 /\ \A h \in 0 .. n : full[h] = 2 * full[h - 1] + 1
  BY <1>6
<1> DEFINE T == {i \in 0 .. n + 1 : full[i - 1] \in Nat}
<1>8. \A i \in 0 .. n + 1 : i \in T
  <2>1. 0 \in T /\ n + 1 \in Nat
    <3>1. 0 - 1 = -1 /\ 0 \in 0 .. n + 1
      OBVIOUS
    <3> QED BY <1>7, <3>1
  <2>2. ASSUME NEW i \in 1 .. n + 1, i - 1 \in T PROVE i \in T
    <3> DEFINE h == i - 1
    <3>1. h \in 0 .. n /\ i \in 0 .. n + 1 /\ full[h - 1] \in Nat
      BY <2>2
    <3> HIDE DEF h
    <3>2. full[h] \in Nat
      BY <1>7, <3>1
    <3> QED BY <3>1, <3>2 DEF h
  <2> HIDE DEF T
  <2> QED BY <2>1, <2>2, StepByStep
<1>9. \A h \in -1 .. n : full[h] \in Nat
  <2> TAKE h \in -1 .. n
  <2>1. h + 1 \in 0 .. n + 1 /\ (h + 1) - 1 = h
    OBVIOUS
  <2> QED BY <1>8, <2>1
<1>10. \A h \in 0 .. n : full[h] >= full[h - 1]
  <2> TAKE h \in 0 .. n
  <2>1. h - 1 \in -1 .. n
    OBVIOUS
  <2>2. \A m \in Nat : 2 * m + 1 >= m
    OBVIOUS
  <2> QED BY <1>7, <1>9, <2>1, <2>2
<1>11. IsFull(full, n)
  BY <1>7, <1>9, <1>10 DEF IsFull
<1> QED BY <1>5, <1>11

\* Higher full trees have more nodes.
LEMMA FullTreesGrow ==
  ASSUME NEW full, NEW last \in Nat, IsFull(full, last),
         NEW h \in -1 .. last, NEW k \in -1 .. last, h <= k
  PROVE  full[h] <= full[k]
<1> DEFINE T == {i \in 0 .. last - h : full[h] <= full[h + i]}
<1>1. last - h \in Nat /\ 0 \in T
  <2>1. h + 0 = h /\ full[h] \in Nat /\ 0 \in 0 .. last - h
    BY DEF IsFull
  <2> QED BY <2>1
<1>2. ASSUME NEW i \in 1 .. last - h, i - 1 \in T PROVE i \in T
  <2> DEFINE j == h + i
  <2>1. j \in 0 .. last /\ j - 1 = h + (i - 1) /\ i \in 0 .. last - h /\ j \in -1 .. last /\ j - 1 \in -1 .. last
    OBVIOUS
  <2> HIDE DEF j
  <2>2. full[h] <= full[j - 1] /\ full[j - 1] <= full[j]
    BY <1>2, <2>1 DEF IsFull
  <2>3. full[h] \in Nat /\ full[j - 1] \in Nat /\ full[j] \in Nat
    BY <2>1 DEF IsFull
  <2>4. full[h] <= full[j]
    BY <2>2, <2>3
  <2> QED BY <2>1, <2>4 DEF j
<1> HIDE DEF T
<1>3. \A i \in 0 .. last - h : i \in T
  BY <1>1, <1>2, StepByStep
<1>4. k - h \in 0 .. last - h /\ h + (k - h) = k
  OBVIOUS
<1> QED BY <1>3, <1>4 DEF T

\* The nodes below a node are itself and those below its children.
LEMMA WeightOfNode ==
  ASSUME NEW t, NEW below, Sound(t, below), NEW n \in Dom(t)
  PROVE  Weight(below, n) = 1 + Weight(below, Left(t, n)) + Weight(below, Right(t, n))
<1> DEFINE l == below[Left(t, n)]
           r == below[Right(t, n)]
<1>1. below[n] = (l \cup r) \cup {n} /\ IsFiniteSet(l) /\ IsFiniteSet(r)
  <2>1. l \subseteq Dom(t) /\ r \subseteq Dom(t) /\ IsFiniteSet(Dom(t)) /\ below[n] = {n} \cup l \cup r
    BY DEF Sound
  <2> HIDE DEF l, r
  <2> QED BY <2>1, FS_Subset
<1>2. n \notin l /\ n \notin r /\ l \cap r = {}
  BY ChildrenAreLighter, SidesApart
<1> HIDE DEF l, r
<1>3. IsFiniteSet(l \cup r) /\ Cardinality(l \cup r) = Cardinality(l) + Cardinality(r) - 0
  BY <1>1, <1>2, FS_Union, FS_EmptySet
<1>4. Cardinality(below[n]) = Cardinality(l \cup r) + 1
  BY <1>1, <1>2, <1>3, FS_AddElement
<1>5. Cardinality(l) \in Nat /\ Cardinality(r) \in Nat
  BY <1>1, FS_CardinalityType
<1> QED BY <1>3, <1>4, <1>5 DEF Weight, l, r

\* The height of a tree is one that a binary tree with as many nodes can have.
LEMMA HeightIsPossible ==
  ASSUME NEW t, NEW below, Sound(t, below)
  PROVE  tree_compute_height(t) \in Map!Heights(Cardinality(Dom(t)))
<1> DEFINE N == Cardinality(Dom(t))
           W(x) == Weight(below, x)
<1>1. N \in Nat
  BY FS_CardinalityType DEF Sound
<1>2. PICK h : Tall(t, h) /\ tree_compute_height(t) = h[t.root]
  BY HeightOfRoot
<1>3. PICK full : IsFull(full, N) /\ Map!Heights(N) = {k \in -1 .. N - 1 : N <= full[k]}
  BY <1>1, FullTrees
<1> DEFINE Fine(x) == h[x] + 1 <= W(x) /\ W(x) <= full[h[x]]
           S == {x \in Dom(t) : Fine(x)}
<1>4. /\ \A x \in Dom(t) \cup {NULL} : W(x) \in Nat /\ W(x) <= N /\ h[x] \in Int /\ h[x] >= -1
      /\ h[NULL] = -1 /\ W(NULL) = 0 /\ full[-1] = 0
  <2>1. W(NULL) = 0
    BY FS_EmptySet DEF Sound, Weight
  <2>2. \A x \in Dom(t) \cup {NULL} : W(x) \in Nat /\ W(x) <= N
    BY ChildrenAreLighter
  <2>3. /\ h[NULL] = -1
        /\ \A x \in Dom(t) \cup {NULL} : h[x] \in Nat \cup {-1}
    BY <1>2 DEF Tall
  <2> HIDE DEF W, N
  <2> QED BY <1>3, <2>1, <2>2, <2>3 DEF IsFull
<1>5. Fine(NULL)
  BY <1>4
<1>6. ASSUME NEW n \in Dom(t), Left(t, n) \in S \cup {NULL}, Right(t, n) \in S \cup {NULL}
      PROVE  n \in S
  <2> DEFINE l == Left(t, n)
             r == Right(t, n)
             m == IntMax(h[l], h[r])
  <2>1. l \in Dom(t) \cup {NULL} /\ r \in Dom(t) \cup {NULL}
    BY DEF Sound
  <2>2. Fine(l) /\ Fine(r)
    BY <1>5, <1>6
  <2>3. h[n] = 1 + m
    BY <1>2 DEF Tall
  <2>4. W(n) = 1 + W(l) + W(r)
    BY WeightOfNode
  <2>5. /\ W(l) \in Nat /\ W(r) \in Nat /\ W(n) \in Nat /\ W(n) <= N
        /\ h[l] \in Int /\ h[r] \in Int /\ h[l] >= -1 /\ h[r] >= -1
        /\ h[l] + 1 <= W(l) /\ h[r] + 1 <= W(r)
    BY <1>4, <2>1, <2>2
  <2> HIDE DEF l, r, W, N
  <2>6. m \in Int /\ h[l] <= m /\ h[r] <= m /\ (m = h[l] \/ m = h[r])
    BY <2>5 DEF IntMax
  <2> HIDE DEF m
  <2>7. h[n] + 1 <= W(n) /\ m + 1 \in 0 .. N /\ m \in -1 .. N /\ h[l] \in -1 .. N /\ h[r] \in -1 .. N
    BY <1>1, <2>3, <2>4, <2>5, <2>6
  <2>8. full[h[l]] <= full[m] /\ full[h[r]] <= full[m]
    BY <1>1, <1>3, <2>6, <2>7, FullTreesGrow
  <2>9. full[m + 1] = 2 * full[m] + 1
    <3> DEFINE k == m + 1
    <3>1. k \in 0 .. N /\ k - 1 = m
      BY <2>6, <2>7
    <3> HIDE DEF k
    <3>2. full[k] = 2 * full[m] + 1
      BY <1>3, <3>1 DEF IsFull
    <3> QED BY <3>2 DEF k
  <2>10. full[m] \in Nat /\ full[h[l]] \in Nat /\ full[h[r]] \in Nat
    BY <1>3, <2>7 DEF IsFull
  <2>11. W(l) <= full[h[l]] /\ W(r) <= full[h[r]]
    BY <2>2
  <2>12. W(n) <= full[m + 1]
    BY <2>4, <2>5, <2>8, <2>9, <2>10, <2>11
  <2>13. h[n] = m + 1
    BY <2>3, <2>6
  <2> QED BY <2>7, <2>12, <2>13
<1> HIDE DEF S
<1>7. Dom(t) \subseteq S
  BY <1>6, TreeInduction
<1>8. Fine(t.root) /\ W(t.root) = N /\ t.root \in Dom(t) \cup {NULL}
  BY <1>5, <1>7 DEF S, Sound, Weight
<1>9. h[t.root] \in -1 .. N - 1 /\ N <= full[h[t.root]]
  BY <1>1, <1>4, <1>8
<1> QED BY <1>2, <1>3, <1>9

\* There are as many keys as nodes.
LEMMA AsManyKeys ==
  ASSUME NEW t, NEW below, Sound(t, below)
  PROVE  Cardinality({KeyOf(t, n) : n \in Dom(t)}) = Cardinality(Dom(t))
<1> DEFINE K == {KeyOf(t, n) : n \in Dom(t)}
           f == [n \in Dom(t) |-> KeyOf(t, n)]
<1>1. f \in [Dom(t) -> K] /\ (\A a, b \in Dom(t) : f[a] = f[b] => a = b) /\ \A k \in K : \E n \in Dom(t) : f[n] = k
  BY DistinctKeys
<1> HIDE DEF f, K
<1>2. f \in Surjection(Dom(t), K) /\ f \in Injection(Dom(t), K)
  BY <1>1 DEF Surjection, Injection, IsInjective
<1>3. IsFiniteSet(Dom(t))
  BY DEF Sound
<1> QED BY <1>2, <1>3, FS_Surjection DEF K

\* A valid command is answered with the response to its request.
LEMMA ReceivedResponse ==
  ASSUME TypeOK, alive, NEW below, Sound(tree, below), NEW c \in Valid, NEW id \in Int, NEW result \in Int
  PROVE  /\ Received(c, id, result) = Response(Request(c), id, result)
         /\ Response(Request(c), id, result) # NULL
<1>1. Request(c) \in MessageTypes
  BY RequestType
<1>2. Response(Request(c), id, result) \in MessageTypes
  BY <1>1, ResponseType
<1> QED BY <1>1, <1>2, MessageKept, MessageIsThere DEF Received

\* A response with the type of content that the stub asked for is understood.
LEMMA UnderstoodMessage ==
  ASSUME NEW op, op # OpCode.ERROR, NEW ct, NEW content, Message(op, ct, content) # NULL
  PROVE  Understood(Message(op, ct, content), ct) /\ Message(op, ct, content).content = content
BY DEF Understood, Message

\* The branch of _run_command that each command takes.
LEMMA ToldWhich ==
  ASSUME NEW c, ~InvalidArgs(c), NEW m
  PROVE  /\ c.cmd = "size" =>
              Told(c, m) = IF rtree_size(m) < 0 THEN Say("Query failed!") ELSE Tell("size", rtree_size(m))
         /\ c.cmd = "height" =>
              Told(c, m) = IF rtree_height(m) < -1 THEN Say("Query failed!")
                           ELSE Tell("height", rtree_height(m))
         /\ c.cmd = "verify" =>
              Told(c, m) = IF rtree_verify(m) < 0 THEN Say("Operation failed!")
                           ELSE IF rtree_verify(m) = 0 THEN Say("Operation not yet executed!")
                           ELSE Say("Operation done!")
         /\ c.cmd = "del" => Told(c, m) = Queued(rtree_del(m))
         /\ c.cmd = "put" => Told(c, m) = Queued(rtree_put(m))
<1>1. CASE c.cmd = "size"
  BY <1>1 DEF Told
<1>2. CASE c.cmd = "height"
  BY <1>2 DEF Told
<1>3. CASE c.cmd = "verify"
  BY <1>3 DEF Told
<1>4. CASE c.cmd = "del"
  BY <1>4 DEF Told
<1>5. CASE c.cmd = "put"
  BY <1>5 DEF Told
<1> QED BY <1>1, <1>2, <1>3, <1>4, <1>5

\* What commands without arguments are told: the size, the height and the keys.
LEMMA ToldOfTree ==
  ASSUME TypeOK, alive, NEW below, Sound(tree, below)
  PROVE  LET told(cmd) == Told([cmd |-> cmd], Received([cmd |-> cmd], 0, 0))
         IN /\ told("size") = Tell("size", tree.size)
            /\ told("height") = Tell("height", tree.height)
            /\ told("getkeys") = Tell("keys", tree_get_keys(tree))
<1>1. ASSUME NEW cmd \in {"size", "height", "getkeys"}
      PROVE  [cmd |-> cmd] \in Valid /\ ~InvalidArgs([cmd |-> cmd])
  BY DEF Valid, Commands, InvalidArgs
<1>2. tree.size \in Nat /\ tree.height \in Nat \cup {-1} /\ IsTree(tree)
  BY DEF TypeOK, IsTree
<1>3. ASSUME NEW cmd \in {"size", "height", "getkeys"}
      PROVE  /\ Received([cmd |-> cmd], 0, 0) = Response(Request([cmd |-> cmd]), 0, 0)
             /\ Response(Request([cmd |-> cmd]), 0, 0) # NULL
  BY <1>1, ReceivedResponse
<1>4. Told([cmd |-> "size"], Received([cmd |-> "size"], 0, 0)) = Tell("size", tree.size)
  <2> DEFINE c == [cmd |-> "size"]
             m == Message(11, "INT_RESULT", tree.size)
  <2>1. Response(Request(c), 0, 0) = m
    BY DEF Request, Response, Message, OpCode, tree_size
  <2>2. Received(c, 0, 0) = m /\ m # NULL
    BY <1>3, <2>1
  <2>3. Understood(m, "INT_RESULT") /\ m.content = tree.size
    BY <2>2, UnderstoodMessage DEF OpCode
  <2> HIDE DEF m
  <2>4. rtree_size(m) = tree.size
    BY <2>3 DEF rtree_size
  <2>5. Told(c, m) = Tell("size", tree.size)
    <3>1. ~InvalidArgs(c) /\ c.cmd = "size"
      BY <1>1
    <3> HIDE DEF c
    <3>2. Told(c, m) = IF tree.size < 0 THEN Say("Query failed!") ELSE Tell("size", tree.size)
      BY <2>4, <3>1, ToldWhich
    <3>3. ~(tree.size < 0)
      BY <1>2
    <3> QED BY <3>2, <3>3, Zenon
  <2> QED BY <2>2, <2>5
<1>5. Told([cmd |-> "height"], Received([cmd |-> "height"], 0, 0)) = Tell("height", tree.height)
  <2> DEFINE c == [cmd |-> "height"]
             m == Message(61, "INT_RESULT", tree.height)
  <2>1. Response(Request(c), 0, 0) = m
    BY DEF Request, Response, Message, OpCode, tree_height
  <2>2. Received(c, 0, 0) = m /\ m # NULL
    BY <1>3, <2>1
  <2>3. Understood(m, "INT_RESULT") /\ m.content = tree.height
    BY <2>2, UnderstoodMessage DEF OpCode
  <2> HIDE DEF m
  <2>4. rtree_height(m) = tree.height
    BY <2>3 DEF rtree_height
  <2>5. Told(c, m) = Tell("height", tree.height)
    <3>1. ~InvalidArgs(c) /\ c.cmd = "height"
      BY <1>1
    <3> HIDE DEF c
    <3>2. Told(c, m) = IF tree.height < -1 THEN Say("Query failed!") ELSE Tell("height", tree.height)
      BY <2>4, <3>1, ToldWhich
    <3>3. ~(tree.height < -1)
      BY <1>2
    <3> QED BY <3>2, <3>3, Zenon
  <2> QED BY <2>2, <2>5
<1>6. Told([cmd |-> "getkeys"], Received([cmd |-> "getkeys"], 0, 0)) = Tell("keys", tree_get_keys(tree))
  <2> DEFINE c == [cmd |-> "getkeys"]
             keys == tree_get_keys(tree)
             m == Message(51, "KEYS", keys_to_msg(keys))
  <2>1. Response(Request(c), 0, 0) = m
    BY DEF Request, Response, Message, OpCode
  <2>2. Received(c, 0, 0) = m /\ m # NULL
    BY <1>3, <2>1
  <2>3. Understood(m, "KEYS") /\ m.content = keys_to_msg(keys)
    BY <2>2, UnderstoodMessage DEF OpCode
  <2>4. msg_to_keys(keys_to_msg(keys)) = keys /\ keys # NULL
    <3>1. keys \in Seq(Strings)
      BY <1>2, KeysAreListed DEF Lists
    <3> QED BY <3>1, ContentKept, MessagesAssumption
  <2> HIDE DEF m, keys
  <2>5. rtree_get_keys(m) = keys
    BY <2>3, <2>4 DEF rtree_get_keys
  <2>6. Told(c, m) = Tell("keys", keys)
    BY <1>1, <2>4, <2>5 DEF Told
  <2> QED BY <2>2, <2>6 DEF keys
<1> QED BY <1>4, <1>5, <1>6

\* printf("%s") shows what was typed.
LEMMA ShownText ==
  \A value \in Typed : /\ Shown(value.data) = Front(value.data)
                       /\ value.data # NULL
<1> SUFFICES ASSUME NEW text \in Texts
             PROVE  LET value == data_create2(Len(text) + 1, Append(text, 0))
                    IN Shown(value.data) = Front(value.data) /\ value.data # NULL
  BY DEF Typed
<1> DEFINE data == Append(text, 0)
           I == {i \in 1 .. Len(data) : data[i] = 0}
<1>1. text \in Seq(Bytes) /\ \A i \in 1 .. Len(text) : text[i] # 0
  <2>1. text \in Seq(Bytes \ {0})
    BY RemoteTreeAssumption
  <2>2. \A i \in 1 .. Len(text) : text[i] \in Bytes \ {0}
    BY <2>1, ElementOfSeq
  <2> QED BY <2>1, <2>2
<1>2. /\ data \in Seq(Bytes) /\ Len(data) = Len(text) + 1 /\ Len(text) \in Nat
      /\ \A i \in 1 .. Len(text) : data[i] = text[i]
      /\ data[Len(text) + 1] = 0
  <2>1. 0 \in Bytes
    BY RemoteTreeAssumption
  <2> QED BY <1>1, <2>1, AppendProperties, LenProperties
<1>3. data # NULL
  BY <1>2, MessagesAssumption
<1>4. data_create2(Len(text) + 1, data).data = data
  BY <1>2, <1>3 DEF data_create2, areParamsInvalid
<1> HIDE DEF data
<1>5. I = {Len(text) + 1}
  <2>1. \A i \in 1 .. Len(data) : data[i] = 0 <=> i = Len(text) + 1
    <3> TAKE i \in 1 .. Len(data)
    <3>1. CASE i \in 1 .. Len(text)
      BY <1>1, <1>2, <3>1
    <3>2. CASE i \notin 1 .. Len(text)
      <4>1. i = Len(text) + 1
        BY <1>2, <3>2
      <4> QED BY <1>2, <4>1
    <3> QED BY <3>1, <3>2
  <2>2. Len(text) + 1 \in 1 .. Len(data)
    BY <1>2
  <2> QED BY <2>1, <2>2
<1>6. SelectInSeq(data, LAMBDA byte : byte = 0) = Len(data)
  <2>1. SelectInSeq(data, LAMBDA byte : byte = 0) = IF I # {} THEN Min(I) ELSE 0
    BY DEF SelectInSeq
  <2> HIDE DEF I
  <2>2. Min(I) = Len(text) + 1
    BY <1>2, <1>5 DEF Min
  <2> QED BY <1>2, <1>5, <2>1, <2>2
<1>7. Shown(data) = Front(data)
  BY <1>6 DEF Shown, Front
<1> QED BY <1>3, <1>4, <1>7 DEF data

\* What commands with arguments are told.
LEMMA ToldOfArgs ==
  ASSUME TypeOK, alive, NEW below, Sound(tree, below)
  PROVE  LET told(c, id, result) == Told(c, Received(c, id, result))
         IN /\ \A k \in Strings :
                 told([cmd |-> "get", key |-> k], 0, 0) =
                   IF Stored(tree)[k] = NotFound THEN Say("Key not found!")
                   ELSE Tell("value", Front(Stored(tree)[k].data))
            /\ \A c \in Writing, id \in Ids : told(c, id, 0) = Tell("Operation queued with id", id)
            /\ \A id \in Ids, result \in {-1, 0, 1} :
                 told([cmd |-> "verify", id |-> id], 0, result) =
                   IF result = -1 THEN Say("Operation failed!")
                   ELSE IF result = 0 THEN Say("Operation not yet executed!")
                   ELSE Say("Operation done!")
<1>1. ASSUME NEW k \in Strings
      PROVE  LET c == [cmd |-> "get", key |-> k] IN
             Told(c, Received(c, 0, 0)) = IF Stored(tree)[k] = NotFound THEN Say("Key not found!")
                                          ELSE Tell("value", Front(Stored(tree)[k].data))
  <2> DEFINE c == [cmd |-> "get", key |-> k]
             value == Stored(tree)[k]
             m == Message(31, "VALUE", data_to_msg(value))
  <2>1. c \in Valid /\ ~InvalidArgs(c)
    <3>1. k # NULL
      BY MessagesAssumption
    <3> QED BY <3>1 DEF Valid, Commands, Args, InvalidArgs
  <2>2. /\ tree_get(tree, k) = value /\ value \in Datas /\ value # NULL
        /\ value \in Typed \cup {NotFound}
    BY GetFinds, StoredIsData, StoredValues DEF TypeOK
  <2> HIDE DEF value
  <2>3. Response(Request(c), 0, 0) = m
    BY <2>2 DEF Request, Response, Message, OpCode
  <2>4. Received(c, 0, 0) = m /\ m # NULL
    BY <2>1, <2>3, ReceivedResponse
  <2>5. Understood(m, "VALUE") /\ m.content = data_to_msg(value)
    BY <2>4, UnderstoodMessage DEF OpCode
  <2>6. msg_to_data(data_to_msg(value)) = value
    BY <2>2, ContentKept
  <2> HIDE DEF m
  <2>7. rtree_get(m) = value
    BY <2>5, <2>6 DEF rtree_get
  <2>8. Told(c, m) = IF value.data = NULL THEN Say("Key not found!") ELSE Tell("value", Shown(value.data))
    <3> HIDE DEF c
    <3>1. c.cmd = "get"
      BY DEF c
    <3> QED BY <2>1, <2>2, <2>7, <3>1 DEF Told
  <2>9. CASE value = NotFound
    BY <2>4, <2>8, <2>9, NotFoundIsData DEF value
  <2>10. CASE value # NotFound
    <3>1. value.data # NULL /\ Shown(value.data) = Front(value.data)
      BY <2>2, <2>10, ShownText
    <3> QED BY <2>4, <2>8, <2>10, <3>1 DEF value
  <2> QED BY <2>9, <2>10
<1>2. ASSUME NEW c \in Writing, NEW id \in Ids
      PROVE  Told(c, Received(c, id, 0)) = Tell("Operation queued with id", id)
  <2>1. c \in Valid /\ ~InvalidArgs(c) /\ c.cmd \in {"put", "del"} /\ id \in Int /\ id >= 0
    BY DEF Writing, Valid, Ids
  <2>2. PICK op \in {21, 41} : Response(Request(c), id, 0) = Message(op, "OP_ID", id)
    <3>1. CASE c.cmd = "del"
      BY <3>1 DEF Request, Response, Message, OpCode
    <3>2. CASE c.cmd = "put"
      BY <3>2 DEF Request, Response, Message, OpCode
    <3> QED BY <2>1, <3>1, <3>2
  <2> DEFINE m == Message(op, "OP_ID", id)
  <2>3. Received(c, id, 0) = m /\ m # NULL
    BY <2>1, <2>2, ReceivedResponse
  <2>4. Understood(m, "OP_ID") /\ m.content = id
    BY <2>3, UnderstoodMessage DEF OpCode
  <2> HIDE DEF m
  <2>5. rtree_put(m) = id /\ rtree_del(m) = id
    BY <2>4 DEF rtree_put, rtree_del
  <2>6. Told(c, m) = Tell("Operation queued with id", id)
    <3>1. Told(c, m) = Queued(id)
      BY <2>1, <2>5, ToldWhich
    <3>2. ~(id < 0)
      BY <2>1
    <3> QED BY <3>1, <3>2, Zenon DEF Queued
  <2> QED BY <2>3, <2>6
<1>3. ASSUME NEW id \in Ids, NEW result \in {-1, 0, 1}
      PROVE  LET c == [cmd |-> "verify", id |-> id] IN
             Told(c, Received(c, 0, result)) =
               IF result = -1 THEN Say("Operation failed!")
               ELSE IF result = 0 THEN Say("Operation not yet executed!")
               ELSE Say("Operation done!")
  <2> DEFINE c == [cmd |-> "verify", id |-> id]
             m == Message(71, "INT_RESULT", result)
  <2>1. c \in Valid /\ ~InvalidArgs(c) /\ c.cmd = "verify"
    <3>1. id # NULL /\ id # -1
      BY MessagesAssumption DEF Ids
    <3> QED BY <3>1 DEF Valid, Commands, InvalidArgs
  <2>2. Response(Request(c), 0, result) = m
    BY DEF Request, Response, Message, OpCode
  <2> HIDE DEF c
  <2>3. Received(c, 0, result) = m /\ m # NULL
    BY <2>1, <2>2, ReceivedResponse
  <2>4. Understood(m, "INT_RESULT") /\ m.content = result
    BY <2>3, UnderstoodMessage DEF OpCode
  <2> HIDE DEF m
  <2>5. rtree_verify(m) = result
    BY <2>4 DEF rtree_verify, rtree_size
  <2>6. Told(c, m) = IF result = -1 THEN Say("Operation failed!")
                     ELSE IF result = 0 THEN Say("Operation not yet executed!")
                     ELSE Say("Operation done!")
    <3>1. Told(c, m) = IF result < 0 THEN Say("Operation failed!")
                       ELSE IF result = 0 THEN Say("Operation not yet executed!")
                       ELSE Say("Operation done!")
      BY <2>1, <2>5, ToldWhich
    <3>2. result < 0 <=> result = -1
      OBVIOUS
    <3> QED BY <3>1, <3>2
  <2> QED BY <2>3, <2>6 DEF c
<1> QED BY <1>1, <1>2, <1>3

\* Without a server, a command that is valid fails.
LEMMA ToldOfNone ==
  ASSUME ~alive, NEW c \in Valid
  PROVE  Told(c, Received(c, 0, 0)).say \in {"Query failed!", "Operation failed!"}
<1>1. Received(c, 0, 0) = NULL
  BY DEF Received
<1>2. /\ rtree_size(NULL) = -1 /\ rtree_height(NULL) = -2 /\ rtree_verify(NULL) = -1
      /\ rtree_put(NULL) = -1 /\ rtree_del(NULL) = -1
      /\ rtree_get(NULL) = NULL /\ rtree_get_keys(NULL) = NULL
  BY DEF Understood, rtree_size, rtree_height, rtree_verify, rtree_put, rtree_del, rtree_get, rtree_get_keys
<1>3. ~InvalidArgs(c) /\ c.cmd \in {"size", "height", "getkeys", "del", "get", "put", "verify"}
  BY ValidCommands DEF Valid
<1>4. Say("Query failed!").say = "Query failed!" /\ Say("Operation failed!").say = "Operation failed!"
  BY DEF Say
<1>5. -1 < 0 /\ -2 < -1
  OBVIOUS
<1>6. Queued(-1) = Say("Operation failed!")
  BY DEF Queued
<1>7. CASE c.cmd = "size"
  <2>1. Told(c, NULL) = Say("Query failed!")
    BY <1>2, <1>3, <1>5, <1>7, ToldWhich
  <2> QED BY <1>1, <1>4, <2>1
<1>8. CASE c.cmd = "height"
  <2>1. Told(c, NULL) = Say("Query failed!")
    BY <1>2, <1>3, <1>5, <1>8, ToldWhich
  <2> QED BY <1>1, <1>4, <2>1
<1>9. CASE c.cmd = "verify"
  <2>1. Told(c, NULL) = Say("Operation failed!")
    BY <1>2, <1>3, <1>5, <1>9, ToldWhich
  <2> QED BY <1>1, <1>4, <2>1
<1>10. CASE c.cmd \in {"del", "put"}
  <2>1. Told(c, NULL) = Say("Operation failed!")
    BY <1>2, <1>3, <1>6, <1>10, ToldWhich
  <2> QED BY <1>1, <1>4, <2>1
<1>11. CASE c.cmd = "get"
  <2>1. Told(c, NULL) = Say("Query failed!")
    BY <1>2, <1>3, <1>11 DEF Told
  <2> QED BY <1>1, <1>4, <2>1
<1>12. CASE c.cmd = "getkeys"
  <2>1. Told(c, NULL) = Say("Query failed!")
    BY <1>2, <1>3, <1>12 DEF Told
  <2> QED BY <1>1, <1>4, <2>1
<1> QED BY <1>3, <1>7, <1>8, <1>9, <1>10, <1>11, <1>12

\* Every answer on the screen is what the map says, and a failure is told as one
\* (_run_command of tree_client.c, the functions of client_stub.c, invoke2).
THEOREM AnswersAreTrue == Spec => []ToldTrue
<1> DEFINE stored == Map!StoredKeys(Stored(tree))
           told(c, id, result) == Told(c, Received(c, id, result))
           answer(cmd) == told([cmd |-> cmd], 0, 0)
           keys == answer("getkeys").arg
<1>1. ASSUME WellFormed, ~alive PROVE ToldTrue
  BY <1>1, ToldOfNone DEF ToldTrue, Valid
<1>2. ASSUME WellFormed, alive PROVE ToldTrue
  <2>1. /\ TypeOK /\ IsTree(tree) /\ tree.size = Cardinality(Dom(tree))
        /\ tree.height = tree_compute_height(tree)
    BY <1>2 DEF WellFormed, TypeOK, Dom
  <2>2. PICK below : Sound(tree, below)
    BY <1>2, <2>1, SearchTreeIsOrdered DEF WellFormed, SearchTree
  <2>3. stored = {KeyOf(tree, n) : n \in Dom(tree)} /\ Cardinality(stored) = Cardinality(Dom(tree))
    BY <2>1, <2>2, StoredKeysAreKeys, AsManyKeys
  <2>4. \A k \in Strings : k \in stored <=> Stored(tree)[k] # NotFound
    BY DEF Map!StoredKeys
  <2> HIDE DEF stored
  <2>5. /\ answer("size") = Tell("size", tree.size)
        /\ answer("height") = Tell("height", tree.height)
        /\ answer("getkeys") = Tell("keys", tree_get_keys(tree))
    BY <1>2, <2>1, <2>2, ToldOfTree
  <2>6. /\ \A k \in Strings :
              told([cmd |-> "get", key |-> k], 0, 0) =
                IF Stored(tree)[k] = NotFound THEN Say("Key not found!")
                ELSE Tell("value", Front(Stored(tree)[k].data))
        /\ \A c \in Writing, id \in Ids : told(c, id, 0) = Tell("Operation queued with id", id)
        /\ \A id \in Ids, result \in {-1, 0, 1} :
             told([cmd |-> "verify", id |-> id], 0, result) =
               IF result = -1 THEN Say("Operation failed!")
               ELSE IF result = 0 THEN Say("Operation not yet executed!")
               ELSE Say("Operation done!")
    BY <1>2, <2>1, <2>2, ToldOfArgs
  <2> HIDE DEF told
  <2>7. answer("size") = Tell("size", Cardinality(stored))
    BY <2>1, <2>3, <2>5
  <2>8. \E h \in Map!Heights(Cardinality(stored)) : answer("height") = Tell("height", h)
    BY <2>1, <2>2, <2>3, <2>5, HeightIsPossible
  <2>9. answer("getkeys").say = "keys" /\ keys = tree_get_keys(tree)
    BY <2>5 DEF Tell
  <2>10. Lists(tree, keys, Dom(tree))
    BY <2>1, <2>2, <2>9, KeysAreListed
  <2> HIDE DEF answer, keys
  <2>11. ToSet(keys) = stored
    BY <2>3, <2>10 DEF Lists, ToSet
  <2>12. \A i, j \in 1 .. Len(keys) : i < j => keys[i] < keys[j]
    BY <2>10 DEF Lists
  <2>13. ASSUME NEW k \in Strings
         PROVE  told([cmd |-> "get", key |-> k], 0, 0) =
                  IF k \in stored THEN Tell("value", Front(Stored(tree)[k].data))
                  ELSE Say("Key not found!")
    BY <2>4, <2>6
  <2>14. ASSUME NEW c \in Commands, NEW id \in Ids, c.cmd \in {"put", "del"}, ~InvalidArgs(c)
         PROVE  told(c, id, 0) = Tell("Operation queued with id", id)
    BY <2>6, <2>14 DEF Writing
  <2>15. ASSUME NEW id \in Ids, NEW result \in {-1, 0, 1}
         PROVE  told([cmd |-> "verify", id |-> id], 0, result).say =
                  CASE result = -1 -> "Operation failed!"
                    [] result = 0  -> "Operation not yet executed!"
                    [] result = 1  -> "Operation done!"
    <3> DEFINE line == told([cmd |-> "verify", id |-> id], 0, result)
    <3>1. line = IF result = -1 THEN Say("Operation failed!")
                 ELSE IF result = 0 THEN Say("Operation not yet executed!")
                 ELSE Say("Operation done!")
      BY <2>6
    <3> HIDE DEF line
    <3>2. CASE result = -1
      <4>1. result # 0 /\ result # 1
        BY <3>2
      <4>2. line = Say("Operation failed!")
        BY <3>1, <3>2, <4>1, Zenon
      <4>3. line.say = "Operation failed!"
        BY <4>2 DEF Say
      <4> QED BY <3>2, <4>1, <4>3, Zenon DEF line
    <3>3. CASE result = 0
      <4>1. result # -1 /\ result # 1
        BY <3>3
      <4>2. line = Say("Operation not yet executed!")
        BY <3>1, <3>3, <4>1, Zenon
      <4>3. line.say = "Operation not yet executed!"
        BY <4>2 DEF Say
      <4> QED BY <3>3, <4>1, <4>3, Zenon DEF line
    <3>4. CASE result = 1
      <4>1. result # -1 /\ result # 0
        BY <3>4
      <4>2. line = Say("Operation done!")
        BY <3>1, <3>4, <4>1, Zenon
      <4>3. line.say = "Operation done!"
        BY <4>2 DEF Say
      <4> QED BY <3>4, <4>1, <4>3, Zenon DEF line
    <3> QED BY <3>2, <3>3, <3>4
  <2> QED BY <1>2, <2>7, <2>8, <2>9, <2>11, <2>12, <2>13, <2>14, <2>15
          DEF ToldTrue, stored, told, answer, keys
<1> QED BY <1>1, <1>2, TreeWellFormed, PTL

-----------------------------------------------------------------------------
(* A tree that is written to a buffer and read back.                       *)

\* Before a search is at p, it is at a location that has p below it.
Within(t, below, p, q) == p = q \/ (p # Root /\ p.node \in below[At(t, q)])

\* There is one location where a key that the tree does not have can be put, and the
\* search of tree_put ends there.
LEMMA WhereItFits ==
  ASSUME NEW t, NEW below, Sound(t, below), Dom(t) \subseteq Nodes, NEW key \in Int,
         \A m \in Dom(t) : KeyOf(t, m) # key,
         NEW p \in Locations(t), At(t, p) = NULL, Fits(t, below, key, p)
  PROVE  Location(t, key) = p
<1> DEFINE N == Cardinality(Nodes)
           at == Search(t, key)
           T == {i \in 0 .. N : at[i] \in Locations(t) /\ Within(t, below, p, at[i])}
<1>1. N \in Nat
  BY BinaryTreeAssumption, FS_CardinalityType
<1>2. /\ at \in [0 .. N -> Locations(t)] /\ at[0] = Root
      /\ \A i \in 1 .. N : at[i] = Turn(t, key, at[i - 1])
  BY SearchPasses
<1>3. p = Root \/ (p.node \in Dom(t) /\ p \in {Field(p.node, "left"), Field(p.node, "right")})
  BY LocationFacts
<1>4. 0 \in T
  <2>1. below[At(t, Root)] = Dom(t)
    BY LocationFacts DEF Sound
  <2> QED BY <1>1, <1>2, <1>3, <2>1 DEF Within, Locations
<1>5. ASSUME NEW q \in Locations(t), Within(t, below, p, q)
      PROVE  Within(t, below, p, Turn(t, key, q))
  <2> DEFINE n == At(t, q)
  <2>1. CASE n = NULL
    BY <1>5, <2>1 DEF Turn
  <2>2. CASE n # NULL
    <3>1. n \in Dom(t) /\ KeyOf(t, n) \in Int /\ KeyOf(t, n) # key
      BY <2>2, LocationFacts DEF Sound
    <3>2. p # q /\ p # Root /\ p.node \in below[n]
      BY <1>5, <2>2 DEF Within
    <3> HIDE DEF n
    <3>3. below[n] = {n} \cup below[Left(t, n)] \cup below[Right(t, n)]
      BY <3>1 DEF Sound
    <3>4. Turn(t, key, q) = IF key < KeyOf(t, n) THEN Field(n, "left") ELSE Field(n, "right")
      BY <2>2, <3>1, Comparison DEF Turn, n
    <3>5. /\ At(t, Field(n, "left")) = Left(t, n)
          /\ At(t, Field(n, "right")) = Right(t, n)
      BY <3>1, LocationFacts
    <3>6. CASE p = Field(n, "left") \/ p.node \in below[Left(t, n)]
      <4>1. key < KeyOf(t, n)
        BY <3>1, <3>2, <3>6 DEF Fits
      <4> QED BY <3>2, <3>4, <3>5, <3>6, <4>1 DEF Within
    <3>7. CASE p = Field(n, "right") \/ p.node \in below[Right(t, n)]
      <4>1. key > KeyOf(t, n)
        BY <3>1, <3>2, <3>7 DEF Fits
      <4>2. ~(key < KeyOf(t, n))
        BY <3>1, <4>1
      <4> QED BY <3>2, <3>4, <3>5, <3>7, <4>2 DEF Within
    <3> QED BY <1>3, <3>2, <3>3, <3>6, <3>7
  <2> QED BY <2>1, <2>2
<1>6. ASSUME NEW i \in 1 .. N, i - 1 \in T PROVE i \in T
  <2>1. i \in 0 .. N
    BY <1>1
  <2> QED BY <1>2, <1>5, <1>6, <2>1
<1> HIDE DEF T
<1>7. \A i \in 0 .. N : i \in T
  BY <1>1, <1>4, <1>6, StepByStep
<1>8. Location(t, key) = at[N] /\ Within(t, below, p, at[N])
  <2>1. N \in T
    BY <1>1, <1>7
  <2> QED BY <2>1 DEF T, Location
<1>9. At(t, at[N]) = NULL
  <2>1. Location(t, key) \in Locations(t) /\ Arrived(t, key, Location(t, key))
    BY SearchArrives
  <2>2. At(t, Location(t, key)) \in Dom(t) \cup {NULL}
    BY <2>1, LocationFacts
  <2> QED BY <1>8, <2>1, <2>2 DEF Arrived
<1> QED BY <1>8, <1>9 DEF Within, Sound

\* The tree u is a copy of a part of t: f gives for each of its nodes the one in t, and
\* a child is missing only when it is not in that part.
Copies(u, f, t, part) ==
  /\ f \in [Dom(u) -> part] /\ part \subseteq Dom(t)
  /\ \A d \in part : \E x \in Dom(u) : f[x] = d
  /\ \A x, y \in Dom(u) : f[x] = f[y] => x = y
  /\ \A d \in Dom(t) : Children(t, d) \cap part # {} => d \in part
  /\ IF u.root = NULL THEN t.root \notin part ELSE t.root = f[u.root]
  /\ \A x \in Dom(u) :
       /\ EntryOf(u, x) = EntryOf(t, f[x])
       /\ IF Left(u, x) = NULL THEN Left(t, f[x]) \notin part ELSE Left(t, f[x]) = f[Left(u, x)]
       /\ IF Right(u, x) = NULL THEN Right(t, f[x]) \notin part ELSE Right(t, f[x]) = f[Right(u, x)]

\* What is below a node of the copy is below its original.
LEMMA BelowCopied ==
  ASSUME NEW t, NEW below, Sound(t, below), NEW u, NEW b, Sound(u, b),
         NEW f, NEW part, Copies(u, f, t, part)
  PROVE  \A x \in Dom(u) : \A m \in b[x] : f[m] \in below[f[x]]
<1> DEFINE S == {x \in Dom(u) : \A m \in b[x] : f[m] \in below[f[x]]}
<1>1. ASSUME NEW x \in Dom(u), Left(u, x) \in S \cup {NULL}, Right(u, x) \in S \cup {NULL}
      PROVE  x \in S
  <2>1. /\ b[x] = {x} \cup b[Left(u, x)] \cup b[Right(u, x)] /\ b[NULL] = {} /\ NULL \notin Dom(u)
        /\ f[x] \in Dom(t)
    BY DEF Sound, Copies
  <2>2. below[f[x]] = {f[x]} \cup below[Left(t, f[x])] \cup below[Right(t, f[x])]
    BY <2>1 DEF Sound
  <2>3. ASSUME NEW m \in b[Left(u, x)] PROVE f[m] \in below[f[x]]
    <3>1. Left(u, x) # NULL /\ f[m] \in below[f[Left(u, x)]]
      BY <1>1, <2>1, <2>3
    <3> QED BY <2>2, <3>1 DEF Copies
  <2>4. ASSUME NEW m \in b[Right(u, x)] PROVE f[m] \in below[f[x]]
    <3>1. Right(u, x) # NULL /\ f[m] \in below[f[Right(u, x)]]
      BY <1>1, <2>1, <2>4
    <3> QED BY <2>2, <3>1 DEF Copies
  <2> QED BY <2>1, <2>2, <2>3, <2>4
<1> HIDE DEF S
<1>2. Dom(u) \subseteq S
  BY <1>1, TreeInduction
<1> QED BY <1>2 DEF S

\* The place in the copy for a node of t whose parent has been copied.
PlaceOf(u, f, t, e, p) ==
  /\ p = Root <=> e = t.root
  /\ \A x \in Dom(u) : /\ p = Field(x, "left") <=> Left(t, f[x]) = e
                       /\ p = Field(x, "right") <=> Right(t, f[x]) = e

\* There is one, it is free, and the key of the node can be put there.
LEMMA PlaceInCopy ==
  ASSUME NEW t, NEW below, Sound(t, below), NEW u, NEW b, Sound(u, b),
         NEW f, NEW part, Copies(u, f, t, part), NEW e \in Dom(t) \ part,
         e = t.root \/ \E d \in part : e \in Children(t, d)
  PROVE  \E p \in Locations(u) : /\ PlaceOf(u, f, t, e, p) /\ At(u, p) = NULL
                                 /\ Fits(u, b, KeyOf(t, e), p)
<1>1. NULL \notin Dom(t) /\ e # NULL
  BY DEF Sound
<1>2. CASE e = t.root
  <2>1. u.root = NULL
    BY <1>2 DEF Copies, Sound
  <2>2. Dom(u) = {}
    BY <2>1 DEF Sound
  <2>3. Root \in Locations(u) /\ At(u, Root) = NULL
    BY <2>1, LocationFacts DEF Locations
  <2>4. PlaceOf(u, f, t, e, Root) /\ Fits(u, b, KeyOf(t, e), Root)
    BY <1>2, <2>2 DEF PlaceOf, Fits
  <2> QED BY <2>3, <2>4
<1>3. CASE e # t.root
  <2>1. PICK d \in part : e \in Children(t, d)
    BY <1>3
  <2>2. PICK x \in Dom(u) : f[x] = d
    BY DEF Copies
  <2>3. d \in Dom(t) /\ (e = Left(t, d) \/ e = Right(t, d)) /\ Left(t, d) # Right(t, d)
    BY <2>1, OneParent DEF Children, Copies
  <2>4. \A y \in Dom(u) : e \in {Left(t, f[y]), Right(t, f[y])} => y = x
    <3> TAKE y \in Dom(u)
    <3> HAVE e \in {Left(t, f[y]), Right(t, f[y])}
    <3>1. f[y] \in Dom(t)
      BY DEF Copies
    <3>2. e \in Children(t, f[y])
      BY <1>1 DEF Children
    <3>3. f[y] = d
      BY <2>1, <2>3, <3>1, <3>2, OneParent
    <3> QED BY <2>2, <3>3 DEF Copies
  <2> DEFINE p == IF e = Left(t, d) THEN Field(x, "left") ELSE Field(x, "right")
  <2>5. p \in Locations(u) /\ p # Root /\ p.node = x
    BY LocationFacts DEF Field
  <2>6. At(u, p) = NULL
    <3>1. e = Left(t, d) => Left(u, x) = NULL
      BY <2>2 DEF Copies, Sound
    <3>2. e = Right(t, d) => Right(u, x) = NULL
      BY <2>2 DEF Copies, Sound
    <3> QED BY <2>3, <3>1, <3>2, LocationFacts
  <2>7. PlaceOf(u, f, t, e, p)
    <3> SUFFICES ASSUME NEW y \in Dom(u)
                 PROVE  /\ p = Field(y, "left") <=> Left(t, f[y]) = e
                        /\ p = Field(y, "right") <=> Right(t, f[y]) = e
      BY <1>3, <2>5 DEF PlaceOf
    <3>1. CASE y = x
      <4>1. Field(x, "left") # Field(x, "right")
        BY LocationFacts
      <4> QED BY <2>2, <2>3, <3>1, <4>1
    <3>2. CASE y # x
      <4>1. p # Field(y, "left") /\ p # Field(y, "right")
        BY <2>5, <3>2 DEF Field
      <4> QED BY <2>4, <3>2, <4>1
    <3> QED BY <3>1, <3>2
  <2>8. Fits(u, b, KeyOf(t, e), p)
    <3> DEFINE key == KeyOf(t, e)
    <3>1. e \in below[e] /\ e \in below[d]
      BY <2>1, <2>3, ChildBelow
    <3> SUFFICES ASSUME NEW y \in Dom(u)
                 PROVE  /\ p = Field(y, "left") => key < KeyOf(u, y)
                        /\ p = Field(y, "right") => key > KeyOf(u, y)
                        /\ x \in b[Left(u, y)] => key < KeyOf(u, y)
                        /\ x \in b[Right(u, y)] => key > KeyOf(u, y)
      BY <2>5 DEF Fits
    <3>2. f[y] \in Dom(t) /\ KeyOf(u, y) = KeyOf(t, f[y])
      BY DEF Copies, EntryOf, KeyOf
    <3>3. /\ e \in below[Left(t, f[y])] => key < KeyOf(u, y)
          /\ e \in below[Right(t, f[y])] => key > KeyOf(u, y)
      BY <3>2 DEF Sound
    <3>4. /\ p = Field(y, "left") => e \in below[Left(t, f[y])]
          /\ p = Field(y, "right") => e \in below[Right(t, f[y])]
      BY <2>7, <3>1 DEF PlaceOf
    <3>5. ASSUME NEW s \in {Left(u, y), Right(u, y)}, x \in b[s]
          PROVE  s # NULL /\ e \in below[f[s]]
      <4>1. s \in Dom(u)
        BY <3>5 DEF Sound
      <4>2. d \in below[f[s]] /\ f[s] \in Dom(t)
        BY <2>2, <3>5, <4>1, BelowCopied DEF Copies
      <4>3. e \in below[f[s]]
        BY <3>1, <4>2, BelowTransitive
      <4> QED BY <4>1, <4>3 DEF Sound
    <3>6. /\ x \in b[Left(u, y)] => e \in below[Left(t, f[y])]
          /\ x \in b[Right(u, y)] => e \in below[Right(t, f[y])]
      BY <3>5 DEF Copies
    <3> QED BY <3>3, <3>4, <3>6
  <2> QED BY <2>5, <2>6, <2>7, <2>8
<1> QED BY <1>2, <1>3

\* There is a node left for what has not been copied.
LEMMA NodeLeft ==
  ASSUME NEW t, IsTree(t), NEW u, IsTree(u), NEW below, Sound(t, below),
         NEW f, NEW part, Copies(u, f, t, part), NEW e \in Dom(t) \ part
  PROVE  (CHOOSE n \in Free(u) : TRUE) \in Free(u)
<1> SUFFICES ASSUME Free(u) = {} PROVE FALSE
  OBVIOUS
<1>1. Dom(u) = Nodes /\ Dom(t) \subseteq Nodes
  BY DEF Free, Dom, IsTree
<1>2. IsFiniteSet(Nodes) /\ IsFiniteSet(Dom(t)) /\ IsFiniteSet(part) /\ part \subseteq Dom(t)
  BY <1>1, BinaryTreeAssumption, FS_Subset DEF Copies
<1>3. f \in Injection(Nodes, part)
  BY <1>1 DEF Copies, Injection, IsInjective
<1>4. Cardinality(Nodes) <= Cardinality(part)
  BY <1>2, <1>3, FS_Injection, BinaryTreeAssumption
<1>5. Cardinality(part) < Cardinality(Dom(t)) /\ Cardinality(Dom(t)) <= Cardinality(Nodes)
  <2>1. Cardinality(Dom(t)) <= Cardinality(Nodes)
    BY <1>1, <1>2, FS_Subset
  <2>2. Cardinality(part) <= Cardinality(Dom(t)) /\ Cardinality(part) # Cardinality(Dom(t))
    BY <1>2, FS_Subset
  <2> QED BY <1>2, <2>1, <2>2, FS_CardinalityType
<1> QED BY <1>2, <1>4, <1>5, FS_CardinalityType

\* tree_put of a new key, when the location is known.
LEMMA PutAt ==
  ASSUME NEW u, SearchTree(u), NEW key \in Strings, NEW value \in Typed, NEW v \in Free(u),
         At(u, Location(u, key)) = NULL, NEW w, w = tree_put(u, v, key, value)
  PROVE  SearchTree(w) /\ Dom(w) = Dom(u) \cup {v} /\ Linked(u, w, Location(u, key), v, key, value)
<1>1. IsTree(u) /\ u.size = Cardinality(Dom(u)) /\ u.height = tree_compute_height(u)
  BY DEF SearchTree
<1>2. PICK b : Sound(u, b)
  BY DEF SearchTree
<1>3. Dom(w) = Dom(u) \cup {v} /\ Linked(u, w, Location(u, key), v, key, value)
  BY <1>1, <1>2, PutInserts
<1>4. /\ IsTree(w) /\ (\E c : Sound(w, c))
      /\ w.size = Cardinality(Dom(w)) /\ w.height = tree_compute_height(w)
  BY <1>1, <1>2, PutKeeps
<1> QED BY <1>3, <1>4 DEF SearchTree

\* tree_put of the entry of a node copies the node.
LEMMA CopyGrows ==
  ASSUME NEW t, IsTree(t), NEW below, Sound(t, below), NEW u, SearchTree(u),
         NEW f, NEW part, Copies(u, f, t, part), NEW e \in Dom(t) \ part,
         e = t.root \/ \E d \in part : e \in Children(t, d), NEW v \in Free(u)
  PROVE  LET w == tree_put(u, v, EntryOf(t, e).key, EntryOf(t, e).value) IN
         SearchTree(w) /\ \E g : Copies(w, g, t, part \cup {e})
<1> DEFINE key == KeyOf(t, e)
           value == EntryOf(t, e).value
           w == tree_put(u, v, EntryOf(t, e).key, value)
<1>1. PICK b : IsTree(u) /\ Sound(u, b) /\ u.size = Cardinality(Dom(u)) /\ u.height = tree_compute_height(u)
  BY DEF SearchTree
<1>2. /\ key \in Strings /\ key \in Int /\ value \in Typed /\ key = EntryOf(t, e).key
      /\ EntryOf(t, e) = [key |-> key, value |-> value]
  BY MessagesAssumption DEF IsTree, Dom, EntryOf, KeyOf
<1>4. v \notin Dom(u) /\ v # NULL /\ NULL \notin Dom(u) /\ NULL \notin Dom(t) /\ Dom(u) \subseteq Nodes
  BY <1>1, BinaryTreeAssumption DEF Free, Dom, Sound, IsTree
<1>5. w = tree_put(u, v, key, value)
  BY <1>2
<1> HIDE DEF w, value
<1>6. PICK p \in Locations(u) : PlaceOf(u, f, t, e, p) /\ At(u, p) = NULL /\ Fits(u, b, key, p)
  BY <1>1, PlaceInCopy
<1>7. \A m \in Dom(u) : KeyOf(u, m) # key
  <2> TAKE m \in Dom(u)
  <2>1. f[m] \in part /\ f[m] \in Dom(t) /\ KeyOf(u, m) = KeyOf(t, f[m])
    BY DEF Copies, EntryOf, KeyOf
  <2>2. f[m] # e
    BY <2>1
  <2> QED BY <2>1, <2>2, DistinctKeys
<1> HIDE DEF key
<1>8. Location(u, key) = p
  BY <1>1, <1>2, <1>4, <1>6, <1>7, WhereItFits
<1>9. SearchTree(w) /\ Linked(u, w, p, v, key, value) /\ Dom(w) = Dom(u) \cup {v}
  BY <1>2, <1>5, <1>6, <1>8, PutAt
<1> DEFINE g == [y \in Dom(u) \cup {v} |-> IF y = v THEN e ELSE f[y]]
           grown == part \cup {e}
<1>10. /\ DOMAIN g = Dom(u) \cup {v} /\ g[v] = e /\ \A y \in Dom(u) : g[y] = f[y] /\ f[y] \in part
       /\ g = [y \in Dom(u) \cup {v} |-> g[y]]
  BY <1>4 DEF Copies
<1> HIDE DEF g
<1>11. g \in [Dom(w) -> grown] /\ grown \subseteq Dom(t)
  BY <1>9, <1>10 DEF Copies
<1>12. \A d \in grown : \E x \in Dom(w) : g[x] = d
  <2> TAKE d \in grown
  <2>1. CASE d = e
    BY <1>9, <1>10, <2>1
  <2>2. CASE d \in part
    <3>1. PICK x \in Dom(u) : f[x] = d
      BY <2>2 DEF Copies
    <3> QED BY <1>9, <1>10, <3>1
  <2> QED BY <2>1, <2>2
<1>13. \A x, y \in Dom(w) : g[x] = g[y] => x = y
  BY <1>9, <1>10 DEF Copies
<1>14. \A d \in Dom(t) : Children(t, d) \cap part # {} => d \in part
  BY DEF Copies
<1>15. \A d \in Dom(t) : Children(t, d) \cap grown # {} => d \in grown
  <2> TAKE d \in Dom(t)
  <2> HAVE Children(t, d) \cap grown # {}
  <2>1. CASE e \in Children(t, d)
    <3>1. PICK d2 \in part : e \in Children(t, d2)
      BY <2>1, OneParent
    <3>2. d2 \in Dom(t)
      BY DEF Copies
    <3> QED BY <2>1, <3>1, <3>2, OneParent
  <2>2. CASE e \notin Children(t, d)
    BY <1>14, <2>2
  <2> QED BY <2>1, <2>2
<1>16. Left(t, e) \notin grown /\ Right(t, e) \notin grown
  <2>1. ASSUME NEW c \in {Left(t, e), Right(t, e)} PROVE c \notin grown
    <3>1. CASE c = NULL
      BY <1>4, <1>11, <3>1
    <3>2. CASE c # NULL
      <4>1. c \in Children(t, e)
        BY <3>2 DEF Children
      <4>2. c # e
        BY <4>1, ChildBelow
      <4> QED BY <1>14, <4>1, <4>2
    <3> QED BY <3>1, <3>2
  <2> QED BY <2>1
<1>17. IF w.root = NULL THEN t.root \notin grown ELSE t.root = g[w.root]
  <2>1. w.root = IF p = Root THEN v ELSE u.root
    BY <1>9 DEF Linked
  <2>2. p = Root <=> e = t.root
    BY <1>6 DEF PlaceOf
  <2>3. u.root \in Dom(u) \cup {NULL}
    BY <1>1 DEF Sound
  <2> QED BY <1>4, <1>10, <2>1, <2>2, <2>3 DEF Copies
<1>18. ASSUME NEW y \in Dom(w)
       PROVE  /\ EntryOf(w, y) = EntryOf(t, g[y])
              /\ IF Left(w, y) = NULL THEN Left(t, g[y]) \notin grown ELSE Left(t, g[y]) = g[Left(w, y)]
              /\ IF Right(w, y) = NULL THEN Right(t, g[y]) \notin grown ELSE Right(t, g[y]) = g[Right(w, y)]
  <2>1. CASE y = v
    BY <1>2, <1>9, <1>10, <1>16, <2>1 DEF Linked
  <2>2. CASE y \in Dom(u)
    <3>1. /\ EntryOf(w, y) = EntryOf(u, y) /\ EntryOf(u, y) = EntryOf(t, f[y]) /\ g[y] = f[y]
          /\ Left(w, y) = IF p = Field(y, "left") THEN v ELSE Left(u, y)
          /\ Right(w, y) = IF p = Field(y, "right") THEN v ELSE Right(u, y)
      BY <1>9, <1>10, <2>2 DEF Linked, Copies
    <3>2. /\ p = Field(y, "left") <=> Left(t, f[y]) = e
          /\ p = Field(y, "right") <=> Right(t, f[y]) = e
      BY <1>6, <2>2 DEF PlaceOf
    <3>3. Left(u, y) \in Dom(u) \cup {NULL} /\ Right(u, y) \in Dom(u) \cup {NULL}
      BY <1>1, <2>2 DEF Sound
    <3>4. /\ IF Left(u, y) = NULL THEN Left(t, f[y]) \notin part ELSE Left(t, f[y]) = f[Left(u, y)]
          /\ IF Right(u, y) = NULL THEN Right(t, f[y]) \notin part ELSE Right(t, f[y]) = f[Right(u, y)]
      BY <2>2 DEF Copies
    <3>5. IF Left(w, y) = NULL THEN Left(t, g[y]) \notin grown ELSE Left(t, g[y]) = g[Left(w, y)]
      <4>1. CASE p = Field(y, "left")
        BY <1>4, <1>10, <3>1, <3>2, <4>1
      <4>2. CASE p # Field(y, "left")
        BY <1>10, <3>1, <3>2, <3>3, <3>4, <4>2
      <4> QED BY <4>1, <4>2
    <3>6. IF Right(w, y) = NULL THEN Right(t, g[y]) \notin grown ELSE Right(t, g[y]) = g[Right(w, y)]
      <4>1. CASE p = Field(y, "right")
        BY <1>4, <1>10, <3>1, <3>2, <4>1
      <4>2. CASE p # Field(y, "right")
        BY <1>10, <3>1, <3>2, <3>3, <3>4, <4>2
      <4> QED BY <4>1, <4>2
    <3> QED BY <3>1, <3>5, <3>6
  <2> QED BY <1>9, <2>1, <2>2
<1>19. Copies(w, g, t, grown)
  BY <1>11, <1>12, <1>13, <1>15, <1>17, <1>18 DEF Copies
<1> QED BY <1>9, <1>19 DEF w, value

\* A value before two sequences.
LEMMA ThreeParts ==
  ASSUME NEW V, NEW v \in V, NEW l \in Seq(V), NEW r \in Seq(V), NEW s, s = <<v>> \o l \o r
  PROVE  /\ s \in Seq(V) /\ Len(l) \in Nat /\ Len(r) \in Nat /\ Len(s) = 1 + Len(l) + Len(r)
         /\ s[1] = v
         /\ \A i \in 1 .. Len(l) : s[1 + i] = l[i]
         /\ \A i \in 1 .. Len(r) : s[1 + Len(l) + i] = r[i]
<1> DEFINE m == <<v>> \o l
<1>1. <<v>> \in Seq(V) /\ Len(<<v>>) = 1 /\ <<v>>[1] = v /\ Len(l) \in Nat /\ Len(r) \in Nat
  BY LenProperties
<1>2. /\ m \in Seq(V) /\ Len(m) = 1 + Len(l)
      /\ \A i \in 1 .. Len(<<v>>) + Len(l) : m[i] = IF i <= Len(<<v>>) THEN <<v>>[i] ELSE l[i - Len(<<v>>)]
  BY <1>1, ConcatProperties
<1>3. s = m \o r
  OBVIOUS
<1> HIDE DEF m
<1>4. /\ s \in Seq(V) /\ Len(s) = Len(m) + Len(r)
      /\ \A i \in 1 .. Len(m) + Len(r) : s[i] = IF i <= Len(m) THEN m[i] ELSE r[i - Len(m)]
  BY <1>2, <1>3, ConcatProperties
<1>5. s[1] = v
  <2>1. 1 \in 1 .. 1 + Len(l) /\ 1 \in 1 .. Len(m) + Len(r) /\ 1 <= Len(m)
    BY <1>1, <1>2
  <2>2. m[1] = v
    BY <1>1, <1>2, <2>1
  <2> QED BY <1>4, <2>1, <2>2
<1>6. ASSUME NEW i \in 1 .. Len(l) PROVE s[1 + i] = l[i]
  <2> DEFINE j == 1 + i
  <2>1. /\ j \in 1 .. 1 + Len(l) /\ j \in 1 .. Len(m) + Len(r) /\ j <= Len(m)
        /\ ~(j <= 1) /\ j - 1 = i
    BY <1>1, <1>2
  <2> HIDE DEF j
  <2>2. m[j] = l[i]
    BY <1>1, <1>2, <2>1
  <2>3. s[j] = l[i]
    BY <1>4, <2>1, <2>2
  <2> QED BY <2>3 DEF j
<1>7. ASSUME NEW i \in 1 .. Len(r) PROVE s[1 + Len(l) + i] = r[i]
  <2> DEFINE j == 1 + Len(l) + i
  <2>1. j \in 1 .. Len(m) + Len(r) /\ ~(j <= Len(m)) /\ j - Len(m) = i
    BY <1>1, <1>2
  <2> HIDE DEF j
  <2>2. s[j] = r[i]
    BY <1>4, <2>1
  <2> QED BY <2>2 DEF j
<1> QED BY <1>1, <1>2, <1>4, <1>5, <1>6, <1>7

\* The entries of a tree as they are in a buffer.
WrittenEntries(t) == {entry_to_buffer(EntryOf(t, n)) : n \in Dom(t)}

\* A buffer with the entries of some nodes, each once, in an order in which the parent
\* of a node comes before the node, unless the node is at the top.
Written(t, buffer, order, nodes, top) ==
  /\ buffer \in Seq(WrittenEntries(t)) /\ order \in Seq(Dom(t)) /\ Len(buffer) = Len(order)
  /\ \A i \in 1 .. Len(order) : /\ order[i] \in nodes
                                /\ buffer[i] = entry_to_buffer(EntryOf(t, order[i]))
                                /\ \/ order[i] = top
                                   \/ \E j \in 1 .. i - 1 : order[i] \in Children(t, order[j])
  /\ \A m \in nodes : \E i \in 1 .. Len(order) : order[i] = m
  /\ \A i, j \in 1 .. Len(order) : order[i] = order[j] => i = j

\* A node, what is to its left and what is to its right, one after the other.
LEMMA WrittenJoin ==
  ASSUME NEW t, NEW below, Sound(t, below), NEW n \in Dom(t),
         NEW bl, NEW ol, Written(t, bl, ol, below[Left(t, n)], Left(t, n)),
         NEW br, NEW or, Written(t, br, or, below[Right(t, n)], Right(t, n)),
         NEW b, b = <<entry_to_buffer(EntryOf(t, n))>> \o bl \o br,
         NEW o, o = <<n>> \o ol \o or
  PROVE  Written(t, b, o, below[n], n)
<1> DEFINE L == Len(ol)
           R == Len(or)
<1>1. entry_to_buffer(EntryOf(t, n)) \in WrittenEntries(t)
  BY DEF WrittenEntries
<1>2. /\ bl \in Seq(WrittenEntries(t)) /\ br \in Seq(WrittenEntries(t)) /\ Len(bl) = L /\ Len(br) = R
      /\ ol \in Seq(Dom(t)) /\ or \in Seq(Dom(t))
  BY DEF Written
<1>3. /\ b \in Seq(WrittenEntries(t)) /\ Len(b) = 1 + L + R
      /\ b[1] = entry_to_buffer(EntryOf(t, n))
      /\ \A i \in 1 .. L : b[1 + i] = bl[i]
      /\ \A i \in 1 .. R : b[1 + L + i] = br[i]
  <2>1. /\ b \in Seq(WrittenEntries(t)) /\ Len(b) = 1 + Len(bl) + Len(br)
        /\ b[1] = entry_to_buffer(EntryOf(t, n))
        /\ \A i \in 1 .. Len(bl) : b[1 + i] = bl[i]
        /\ \A i \in 1 .. Len(br) : b[1 + Len(bl) + i] = br[i]
    <3> DEFINE v == entry_to_buffer(EntryOf(t, n))
               V == WrittenEntries(t)
    <3>1. v \in V /\ bl \in Seq(V) /\ br \in Seq(V) /\ b = <<v>> \o bl \o br
      BY <1>1, <1>2
    <3> HIDE DEF v, V
    <3>2. /\ b \in Seq(V) /\ Len(b) = 1 + Len(bl) + Len(br)
          /\ b[1] = v
          /\ \A i \in 1 .. Len(bl) : b[1 + i] = bl[i]
          /\ \A i \in 1 .. Len(br) : b[1 + Len(bl) + i] = br[i]
      BY <3>1, ThreeParts
    <3> QED BY <3>2 DEF v, V
  <2> HIDE DEF L, R
  <2> QED BY <1>2, <2>1
<1>4. /\ o \in Seq(Dom(t)) /\ L \in Nat /\ R \in Nat /\ Len(o) = 1 + L + R
      /\ o[1] = n
      /\ \A i \in 1 .. L : o[1 + i] = ol[i]
      /\ \A i \in 1 .. R : o[1 + L + i] = or[i]
  BY <1>2, ThreeParts
<1>5. /\ below[n] = {n} \cup below[Left(t, n)] \cup below[Right(t, n)]
      /\ below[Left(t, n)] \cap below[Right(t, n)] = {}
      /\ n \notin below[Left(t, n)] /\ n \notin below[Right(t, n)]
      /\ below[Left(t, n)] \subseteq Dom(t) /\ below[Right(t, n)] \subseteq Dom(t) /\ NULL \notin Dom(t)
  BY SidesApart, ChildrenAreLighter DEF Sound
<1>6. /\ \A i \in 1 .. L : ol[i] \in below[Left(t, n)]
      /\ \A i \in 1 .. R : or[i] \in below[Right(t, n)]
  BY DEF Written
<1> HIDE DEF L, R
<1>7. ASSUME NEW i \in 1 .. Len(o)
      PROVE  \/ i = 1
             \/ \E k \in 1 .. L : i = 1 + k
             \/ \E k \in 1 .. R : i = 1 + L + k
  <2>1. i = 1 \/ i - 1 \in 1 .. L \/ i - (1 + L) \in 1 .. R
    BY <1>4
  <2>2. i = 1 + (i - 1) /\ i = 1 + L + (i - (1 + L))
    BY <1>4
  <2> QED BY <2>1, <2>2
<1>8. ASSUME NEW i \in 1 .. Len(o)
      PROVE  /\ o[i] \in below[n] /\ b[i] = entry_to_buffer(EntryOf(t, o[i]))
             /\ o[i] = n \/ \E j \in 1 .. i - 1 : o[i] \in Children(t, o[j])
  <2>1. CASE i = 1
    BY <1>3, <1>4, <1>5, <2>1
  <2>2. ASSUME NEW k \in 1 .. L, i = 1 + k
        PROVE  /\ o[i] \in below[n] /\ b[i] = entry_to_buffer(EntryOf(t, o[i]))
               /\ \E j \in 1 .. i - 1 : o[i] \in Children(t, o[j])
    <3>1. o[i] = ol[k] /\ b[i] = bl[k]
      BY <1>3, <1>4, <2>2
    <3>2. /\ bl[k] = entry_to_buffer(EntryOf(t, ol[k]))
          /\ \/ ol[k] = Left(t, n)
             \/ \E j \in 1 .. k - 1 : ol[k] \in Children(t, ol[j])
      BY DEF Written, L
    <3>3. CASE ol[k] = Left(t, n)
      <4>1. o[i] \in Children(t, o[1])
        BY <1>4, <1>5, <1>6, <3>1, <3>3 DEF Children
      <4>2. 1 \in 1 .. i - 1
        BY <1>4, <2>2
      <4> QED BY <1>5, <1>6, <3>1, <3>2, <4>1, <4>2
    <3>4. CASE \E j \in 1 .. k - 1 : ol[k] \in Children(t, ol[j])
      <4>1. PICK j \in 1 .. k - 1 : ol[k] \in Children(t, ol[j])
        BY <3>4
      <4>2. j \in 1 .. L /\ 1 + j \in 1 .. i - 1
        BY <1>4, <2>2
      <4>3. o[1 + j] = ol[j]
        BY <1>4, <4>2
      <4> QED BY <1>5, <1>6, <3>1, <3>2, <4>1, <4>2, <4>3
    <3> QED BY <3>2, <3>3, <3>4
  <2>3. ASSUME NEW k \in 1 .. R, i = 1 + L + k
        PROVE  /\ o[i] \in below[n] /\ b[i] = entry_to_buffer(EntryOf(t, o[i]))
               /\ \E j \in 1 .. i - 1 : o[i] \in Children(t, o[j])
    <3>1. o[i] = or[k] /\ b[i] = br[k]
      BY <1>3, <1>4, <2>3
    <3>2. /\ br[k] = entry_to_buffer(EntryOf(t, or[k]))
          /\ \/ or[k] = Right(t, n)
             \/ \E j \in 1 .. k - 1 : or[k] \in Children(t, or[j])
      BY DEF Written, R
    <3>3. CASE or[k] = Right(t, n)
      <4>1. o[i] \in Children(t, o[1])
        BY <1>4, <1>5, <1>6, <3>1, <3>3 DEF Children
      <4>2. 1 \in 1 .. i - 1
        BY <1>4, <2>3
      <4> QED BY <1>5, <1>6, <3>1, <3>2, <4>1, <4>2
    <3>4. CASE \E j \in 1 .. k - 1 : or[k] \in Children(t, or[j])
      <4>1. PICK j \in 1 .. k - 1 : or[k] \in Children(t, or[j])
        BY <3>4
      <4>2. j \in 1 .. R /\ 1 + L + j \in 1 .. i - 1
        BY <1>4, <2>3
      <4>3. o[1 + L + j] = or[j]
        BY <1>4, <4>2
      <4> QED BY <1>5, <1>6, <3>1, <3>2, <4>1, <4>2, <4>3
    <3> QED BY <3>2, <3>3, <3>4
  <2> QED BY <1>7, <2>1, <2>2, <2>3
<1>9. ASSUME NEW m \in below[n] PROVE \E i \in 1 .. Len(o) : o[i] = m
  <2>1. CASE m = n
    <3>1. 1 \in 1 .. Len(o)
      BY <1>4
    <3> QED BY <1>4, <2>1, <3>1
  <2>2. CASE m \in below[Left(t, n)]
    <3>1. PICK k \in 1 .. L : ol[k] = m
      BY <2>2 DEF Written, L
    <3>2. 1 + k \in 1 .. Len(o)
      BY <1>4
    <3> QED BY <1>4, <3>1, <3>2
  <2>3. CASE m \in below[Right(t, n)]
    <3>1. PICK k \in 1 .. R : or[k] = m
      BY <2>3 DEF Written, R
    <3>2. 1 + L + k \in 1 .. Len(o)
      BY <1>4
    <3> QED BY <1>4, <3>1, <3>2
  <2> QED BY <1>5, <2>1, <2>2, <2>3
<1>10. ASSUME NEW i \in 1 .. Len(o), NEW j \in 1 .. Len(o), o[i] = o[j] PROVE i = j
  <2>1. /\ \A x, y \in 1 .. L : ol[x] = ol[y] => x = y
        /\ \A x, y \in 1 .. R : or[x] = or[y] => x = y
    BY DEF Written, L, R
  <2> DEFINE Left_(x) == \E k \in 1 .. L : x = 1 + k /\ o[x] = ol[k]
             Right_(x) == \E k \in 1 .. R : x = 1 + L + k /\ o[x] = or[k]
  <2>2. /\ i = 1 \/ Left_(i) \/ Right_(i)
        /\ j = 1 \/ Left_(j) \/ Right_(j)
    BY <1>4, <1>7
  <2>3. \A x \in {i, j} : /\ x = 1 => o[x] = n
                          /\ Left_(x) => o[x] \in below[Left(t, n)]
                          /\ Right_(x) => o[x] \in below[Right(t, n)]
    BY <1>4, <1>6
  <2>4. Left_(i) /\ Left_(j) => i = j
    BY <1>10, <2>1
  <2>5. Right_(i) /\ Right_(j) => i = j
    BY <1>10, <2>1
  <2> HIDE DEF Left_, Right_
  <2> QED BY <1>5, <1>10, <2>2, <2>3, <2>4, <2>5
<1>11. Len(b) = Len(o)
  BY <1>3, <1>4
<1> QED BY <1>3, <1>4, <1>8, <1>9, <1>10, <1>11 DEF Written

\* tree_to_buffer writes all nodes, parents first.
LEMMA TreeIsWritten ==
  ASSUME NEW t, NEW below, Sound(t, below)
  PROVE  \E order : Written(t, tree_to_buffer(t), order, Dom(t), t.root)
<1> DEFINE D == Dom(t) \cup {NULL}
           V == Seq(WrittenEntries(t))
           written(n) == entry_to_buffer(EntryOf(t, n))
           Equation(f) == f = [n \in D |-> IF n = NULL THEN <<>>
                                           ELSE <<written(n)>> \o f[Left(t, n)] \o f[Right(t, n)]]
           step == [n \in Dom(t) |-> [l \in V |-> [r \in V |-> <<written(n)>> \o l \o r]]]
           entries == CHOOSE f : Equation(f)
<1>1. /\ \A n \in Dom(t) : n # NULL /\ Left(t, n) \in D /\ Right(t, n) \in D
      /\ t.root \in D
  BY DEF Sound
<1>2. \A n \in Dom(t) : written(n) \in WrittenEntries(t)
  BY DEF WrittenEntries
<1>3. tree_to_buffer(t) = entries[t.root]
  BY DEF tree_to_buffer, Dom, Left, Right, EntryOf
<1> HIDE DEF written
<1>4. \A n \in Dom(t), l, r \in V : <<written(n)>> \o l \o r \in V
  BY <1>2, ThreeParts
<1>5. \E f \in [D -> V] : Recursion(t, f, <<>>, step)
  <2>1. step \in [Dom(t) -> [V -> [V -> V]]] /\ <<>> \in V
    BY <1>4
  <2> HIDE DEF step, V
  <2> QED BY <2>1, RecursionExists
<1>6. PICK f \in [D -> V] : Recursion(t, f, <<>>, step)
  BY <1>5
<1>7. Equation(f)
  <2>1. \A n \in Dom(t) : f[n] = <<written(n)>> \o f[Left(t, n)] \o f[Right(t, n)]
    <3> TAKE n \in Dom(t)
    <3>1. f[Left(t, n)] \in V /\ f[Right(t, n)] \in V
      BY <1>1
    <3>2. f[n] = step[n][f[Left(t, n)]][f[Right(t, n)]]
      BY <1>6 DEF Recursion
    <3> HIDE DEF V
    <3> QED BY <3>1, <3>2
  <2>2. f[NULL] = <<>> /\ f = [n \in D |-> f[n]]
    BY <1>6 DEF Recursion
  <2> QED BY <1>1, <2>1, <2>2
<1>8. Equation(entries)
  <2> HIDE DEF Equation
  <2> QED BY <1>7, Zenon
<1> HIDE DEF entries, V, step
<1>9. /\ entries[NULL] = <<>>
      /\ \A n \in Dom(t) : entries[n] = <<written(n)>> \o entries[Left(t, n)] \o entries[Right(t, n)]
  <2>1. \A n \in D : entries[n] = IF n = NULL THEN <<>>
                                  ELSE <<written(n)>> \o entries[Left(t, n)] \o entries[Right(t, n)]
    BY <1>8, Zenon
  <2> QED BY <1>1, <2>1
<1> DEFINE Done(n) == \E order : Written(t, entries[n], order, below[n], n)
           S == {n \in Dom(t) : Done(n)}
<1>10. Done(NULL)
  <2>1. below[NULL] = {}
    BY DEF Sound
  <2>2. Written(t, <<>>, <<>>, {}, NULL)
    BY DEF Written
  <2> QED BY <1>9, <2>1, <2>2
<1>11. ASSUME NEW n \in Dom(t), Left(t, n) \in S \cup {NULL}, Right(t, n) \in S \cup {NULL}
       PROVE  n \in S
  <2>1. PICK ol : Written(t, entries[Left(t, n)], ol, below[Left(t, n)], Left(t, n))
    BY <1>10, <1>11
  <2>2. PICK or : Written(t, entries[Right(t, n)], or, below[Right(t, n)], Right(t, n))
    BY <1>10, <1>11
  <2>3. Written(t, entries[n], <<n>> \o ol \o or, below[n], n)
    BY <1>9, <2>1, <2>2, WrittenJoin DEF written
  <2> QED BY <2>3
<1> HIDE DEF S, Done
<1>12. Dom(t) \subseteq S
  BY <1>11, TreeInduction
<1>13. Done(t.root)
  BY <1>1, <1>10, <1>12 DEF S
<1>14. PICK order : Written(t, entries[t.root], order, below[t.root], t.root)
  BY <1>13 DEF Done
<1> QED BY <1>3, <1>14 DEF Sound

\* An entry of the tree comes out of its buffer as it went in.
LEMMA EntryComesBack ==
  ASSUME NEW t, IsTree(t), NEW n \in Dom(t)
  PROVE  buffer_to_entry(entry_to_buffer(EntryOf(t, n))) = EntryOf(t, n)
<1> DEFINE entry == EntryOf(t, n)
<1>1. entry = [key |-> entry.key, value |-> entry.value] /\ entry.key \in Strings /\ entry.value \in Typed
  BY DEF IsTree, Dom, EntryOf
<1> HIDE DEF entry
<1>2. PICK text \in Texts : entry.value = data_create2(Len(text) + 1, Append(text, 0))
  BY <1>1 DEF Typed
<1>3. entry_to_msg(entry) \in EntryMessages /\ msg_to_entry(entry_to_msg(entry)) = entry
  BY <1>1, <1>2, TypedEntry
<1>4. UnpackEntry(PackEntry(entry_to_msg(entry))) = entry_to_msg(entry)
  BY <1>3, EntryMessageKept
<1> QED BY <1>3, <1>4 DEF entry_to_buffer, buffer_to_entry, entry

\* What buffer_to_tree has read after some entries, and that there is such a sequence
\* of trees whatever tree_put does.
Reading(read, buffer) ==
  /\ read[0] = tree_create
  /\ \A i \in 1 .. Len(buffer) :
       LET entry == buffer_to_entry(buffer[i])
       IN read[i] = tree_put(read[i - 1], CHOOSE n \in Free(read[i - 1]) : TRUE, entry.key, entry.value)

\* buffer_to_tree gives the last of them.
LEMMA TreeIsRead ==
  ASSUME NEW buffer, Len(buffer) \in Nat, buffer # <<>>
  PROVE  \E read : Reading(read, buffer) /\ buffer_to_tree(buffer) = read[Len(buffer)]
<1> DEFINE L == Len(buffer)
           put(i, t) == tree_put(t, CHOOSE n \in Free(t) : TRUE,
                                 buffer_to_entry(buffer[i]).key, buffer_to_entry(buffer[i]).value)
           Equation(f) == f = [i \in 0 .. L |-> IF i = 0 THEN tree_create ELSE put(i, f[i - 1])]
           read == CHOOSE f : Equation(f)
           Upto(f, m) == /\ f = [i \in 0 .. L |-> f[i]] /\ f[0] = tree_create
                         /\ \A i \in 1 .. m : f[i] = put(i, f[i - 1])
           T == {m \in 0 .. L : \E f : Upto(f, m)}
<1>1. buffer_to_tree(buffer) = read[L]
  BY DEF buffer_to_tree
<1>2. \A f : (f[0] = tree_create /\ \A i \in 1 .. L : f[i] = put(i, f[i - 1])) => Reading(f, buffer)
  BY DEF Reading
<1> HIDE DEF put
<1>3. 0 \in T
  <2> DEFINE f == [i \in 0 .. L |-> tree_create]
  <2>1. f[0] = tree_create /\ DOMAIN f = 0 .. L
    OBVIOUS
  <2>2. f = [i \in 0 .. L |-> f[i]]
    BY <2>1
  <2> HIDE DEF f
  <2>3. Upto(f, 0)
    BY <2>1, <2>2
  <2> QED BY <2>3
<1>4. ASSUME NEW m \in 1 .. L, m - 1 \in T PROVE m \in T
  <2>1. PICK f : Upto(f, m - 1)
    BY <1>4
  <2> DEFINE next == put(m, f[m - 1])
             g == [i \in 0 .. L |-> IF i = m THEN next ELSE f[i]]
  <2> HIDE DEF next
  <2>2. /\ g = [i \in 0 .. L |-> g[i]] /\ g[m] = next
        /\ \A i \in 0 .. L : i # m => g[i] = f[i]
    OBVIOUS
  <2> HIDE DEF g
  <2>3. g[0] = tree_create
    BY <2>1, <2>2
  <2>4. ASSUME NEW i \in 1 .. m PROVE g[i] = put(i, g[i - 1])
    <3>1. i - 1 \in 0 .. L /\ i - 1 # m /\ g[i - 1] = f[i - 1]
      BY <2>2
    <3>2. CASE i = m
      BY <2>2, <3>1, <3>2 DEF next
    <3>3. CASE i # m
      <4>1. i \in 1 .. m - 1 /\ i \in 0 .. L
        BY <3>3
      <4> QED BY <2>1, <2>2, <3>1, <3>3, <4>1
    <3> QED BY <3>2, <3>3
  <2>5. Upto(g, m) /\ m \in 0 .. L
    BY <2>2, <2>3, <2>4
  <2> HIDE DEF Upto
  <2> QED BY <2>5
<1> HIDE DEF T
<1>5. \A m \in 0 .. L : m \in T
  BY <1>3, <1>4, StepByStep
<1>6. PICK f : Upto(f, L)
  <2>1. L \in T
    BY <1>5
  <2> QED BY <2>1 DEF T
<1>7. Equation(f)
  <2>1. \A i \in 0 .. L : f[i] = IF i = 0 THEN tree_create ELSE put(i, f[i - 1])
    <3> TAKE i \in 0 .. L
    <3>1. CASE i = 0
      BY <1>6, <3>1
    <3>2. CASE i # 0
      <4>1. i \in 1 .. L
        BY <3>2
      <4> QED BY <1>6, <3>2, <4>1
    <3> QED BY <3>1, <3>2
  <2> QED BY <1>6, <2>1
<1>8. Equation(read)
  <2> HIDE DEF Equation
  <2> QED BY <1>7, Zenon
<1> HIDE DEF read
<1>9. \A i \in 0 .. L : read[i] = IF i = 0 THEN tree_create ELSE put(i, read[i - 1])
  BY <1>8, Zenon
<1>10. read[0] = tree_create /\ \A i \in 1 .. L : read[i] = put(i, read[i - 1])
  <2>1. 0 \in 0 .. L /\ \A i \in 1 .. L : i \in 0 .. L /\ i # 0
    OBVIOUS
  <2> QED BY <1>9, <2>1
<1>11. Reading(read, buffer)
  BY <1>2, <1>10
<1> QED BY <1>1, <1>11

\* After each entry, what has been read is a copy of the nodes written so far.
LEMMA ReadCopies ==
  ASSUME NEW t, IsTree(t), NEW below, Sound(t, below),
         NEW buffer, NEW order, Written(t, buffer, order, Dom(t), t.root),
         NEW read, Reading(read, buffer)
  PROVE  SearchTree(read[Len(buffer)]) /\ \E f : Copies(read[Len(buffer)], f, t, Dom(t))
<1> DEFINE L == Len(buffer)
           Part(i) == {order[j] : j \in 1 .. i}
           Good(i) == SearchTree(read[i]) /\ \E f : Copies(read[i], f, t, Part(i))
           T == {i \in 0 .. L : Good(i)}
<1>1. L \in Nat /\ Len(order) = L /\ NULL \notin Dom(t) /\ \A i \in 1 .. L : order[i] \in Dom(t)
  BY LenProperties, ElementOfSeq DEF Written, Sound
<1>2. 0 \in T
  <2>1. SearchTree(tree_create) /\ read[0] = tree_create
    BY CreatedTree DEF Reading
  <2>2. Dom(tree_create) = {} /\ tree_create.root = NULL /\ Part(0) = {}
    BY DEF tree_create, Dom
  <2>3. t.root \notin {} /\ [x \in {} |-> NULL] \in [{} -> {}]
    OBVIOUS
  <2>4. Copies(tree_create, [x \in {} |-> NULL], t, {})
    BY <2>2, <2>3 DEF Copies
  <2>5. Good(0)
    BY <2>1, <2>2, <2>4
  <2> HIDE DEF Good
  <2> QED BY <1>1, <2>5
<1>3. ASSUME NEW i \in 1 .. L, i - 1 \in T PROVE i \in T
  <2> DEFINE e == order[i]
             u == read[i - 1]
  <2>1. SearchTree(u)
    BY <1>3
  <2>2. PICK f : Copies(u, f, t, Part(i - 1))
    BY <1>3
  <2>3. Part(i) = Part(i - 1) \cup {e}
    <3>1. \A j : j \in 1 .. i <=> j \in 1 .. i - 1 \/ j = i
      BY <1>1
    <3> QED BY <3>1
  <2>4. e \in Dom(t) \ Part(i - 1)
    <3>1. ASSUME NEW j \in 1 .. i - 1 PROVE order[j] # order[i]
      <4>1. j \in 1 .. Len(order) /\ i \in 1 .. Len(order) /\ j # i
        BY <1>1
      <4> QED BY <4>1 DEF Written
    <3> QED BY <1>1, <3>1
  <2>5. e = t.root \/ \E d \in Part(i - 1) : e \in Children(t, d)
    BY <1>1 DEF Written
  <2>6. buffer_to_entry(buffer[i]) = EntryOf(t, e)
    BY <1>1, EntryComesBack DEF Written
  <2> DEFINE v == CHOOSE n \in Free(u) : TRUE
  <2>7. read[i] = tree_put(u, v, EntryOf(t, e).key, EntryOf(t, e).value)
    BY <2>6 DEF Reading
  <2> HIDE DEF Part, e, u
  <2>8. v \in Free(u)
    BY <2>1, <2>2, <2>4, NodeLeft DEF SearchTree
  <2> HIDE DEF v
  <2>9. SearchTree(read[i]) /\ \E g : Copies(read[i], g, t, Part(i - 1) \cup {e})
    <3> DEFINE w == tree_put(u, v, EntryOf(t, e).key, EntryOf(t, e).value)
               part == Part(i - 1)
    <3>1. Copies(u, f, t, part) /\ e \in Dom(t) \ part
      BY <2>2, <2>4
    <3>2. e = t.root \/ \E d \in part : e \in Children(t, d)
      BY <2>5
    <3> HIDE DEF part
    <3>3. SearchTree(w) /\ \E g : Copies(w, g, t, part \cup {e})
      BY <2>1, <2>8, <3>1, <3>2, CopyGrows
    <3> HIDE DEF w
    <3>4. read[i] = w
      BY <2>7 DEF w
    <3> QED BY <3>3, <3>4 DEF part
  <2>10. i \in 0 .. L
    BY <1>1
  <2> QED BY <2>3, <2>9, <2>10
<1> HIDE DEF T
<1>4. \A i \in 0 .. L : i \in T
  BY <1>1, <1>2, <1>3, StepByStep
<1>5. Good(L)
  <2>1. L \in T
    BY <1>1, <1>4
  <2> QED BY <2>1 DEF T
<1>6. Part(L) = Dom(t)
  <2>1. \A m \in Dom(t) : \E i \in 1 .. L : order[i] = m
    BY <1>1 DEF Written
  <2> QED BY <1>1, <2>1
<1> HIDE DEF Part
<1> QED BY <1>5, <1>6

\* The node, its entry and the shapes of its children, for every node.
Shapes(t, s) ==
  /\ s[NULL] = NULL
  /\ \A n \in Dom(t) :
       s[n] = [entry |-> EntryOf(t, n), left |-> s[Left(t, n)], right |-> s[Right(t, n)]]

\* A copy of all nodes has as many of them, the height and the shape.
LEMMA CopyIsWhole ==
  ASSUME NEW t, NEW below, Sound(t, below), NEW u, NEW b, Sound(u, b),
         NEW f, Copies(u, f, t, Dom(t))
  PROVE  /\ Cardinality(Dom(u)) = Cardinality(Dom(t))
         /\ tree_compute_height(u) = tree_compute_height(t)
         /\ \A s, r : Shapes(t, s) /\ Shapes(u, r) => r[u.root] = s[t.root]
<1>1. /\ NULL \notin Dom(t) /\ NULL \notin Dom(u)
      /\ IsFiniteSet(Dom(t)) /\ IsFiniteSet(Dom(u))
      /\ t.root \in Dom(t) \cup {NULL} /\ u.root \in Dom(u) \cup {NULL}
      /\ \A n \in Dom(t) : Left(t, n) \in Dom(t) \cup {NULL} /\ Right(t, n) \in Dom(t) \cup {NULL}
      /\ \A x \in Dom(u) : Left(u, x) \in Dom(u) \cup {NULL} /\ Right(u, x) \in Dom(u) \cup {NULL}
  BY DEF Sound
<1>2. \A x \in Dom(u) :
        /\ f[x] \in Dom(t) /\ EntryOf(u, x) = EntryOf(t, f[x])
        /\ Left(t, f[x]) = IF Left(u, x) = NULL THEN NULL ELSE f[Left(u, x)]
        /\ Right(t, f[x]) = IF Right(u, x) = NULL THEN NULL ELSE f[Right(u, x)]
  BY <1>1 DEF Copies
<1>3. t.root = IF u.root = NULL THEN NULL ELSE f[u.root]
  BY <1>1 DEF Copies
<1>4. Cardinality(Dom(u)) = Cardinality(Dom(t))
  <2>1. f \in Surjection(Dom(u), Dom(t)) /\ f \in Injection(Dom(u), Dom(t))
    BY DEF Copies, Surjection, Injection, IsInjective
  <2> QED BY <1>1, <2>1, FS_Surjection
<1>5. tree_compute_height(u) = tree_compute_height(t)
  <2>1. PICK h : Tall(t, h) /\ tree_compute_height(t) = h[t.root]
    BY HeightOfRoot
  <2>2. PICK g : Tall(u, g) /\ tree_compute_height(u) = g[u.root]
    BY HeightOfRoot
  <2> DEFINE S == {x \in Dom(u) : g[x] = h[f[x]]}
  <2>3. ASSUME NEW x \in Dom(u), Left(u, x) \in S \cup {NULL}, Right(u, x) \in S \cup {NULL}
        PROVE  x \in S
    <3>1. g[Left(u, x)] = h[Left(t, f[x])] /\ g[Right(u, x)] = h[Right(t, f[x])]
      BY <1>1, <1>2, <2>1, <2>2, <2>3 DEF Tall
    <3> QED BY <1>2, <2>1, <2>2, <3>1 DEF Tall
  <2> HIDE DEF S
  <2>4. Dom(u) \subseteq S
    BY <2>3, TreeInduction
  <2>5. g[u.root] = h[t.root]
    BY <1>1, <1>3, <2>1, <2>2, <2>4 DEF S, Tall
  <2> QED BY <2>1, <2>2, <2>5
<1>6. ASSUME NEW s, NEW r, Shapes(t, s), Shapes(u, r) PROVE r[u.root] = s[t.root]
  <2> DEFINE S == {x \in Dom(u) : r[x] = s[f[x]]}
  <2>1. r[NULL] = s[NULL]
    BY <1>6 DEF Shapes
  <2>2. ASSUME NEW x \in Dom(u), Left(u, x) \in S \cup {NULL}, Right(u, x) \in S \cup {NULL}
        PROVE  x \in S
    <3>1. r[Left(u, x)] = s[Left(t, f[x])] /\ r[Right(u, x)] = s[Right(t, f[x])]
      BY <1>1, <1>2, <2>1, <2>2
    <3> QED BY <1>2, <1>6, <3>1 DEF Shapes
  <2> HIDE DEF S
  <2>3. Dom(u) \subseteq S
    BY <2>2, TreeInduction
  <2> QED BY <1>1, <1>3, <2>1, <2>3 DEF S
<1> QED BY <1>4, <1>5, <1>6

\* There are such shapes.
LEMMA ShapesExist ==
  ASSUME NEW t, NEW below, Sound(t, below)
  PROVE  \E s : s = [n \in Dom(t) \cup {NULL} |->
                       IF n = NULL THEN NULL
                       ELSE [entry |-> EntryOf(t, n), left |-> s[Left(t, n)], right |-> s[Right(t, n)]]]
<1> DEFINE D == Dom(t) \cup {NULL}
           N == Cardinality(Dom(t))
           shape(s, n) == [entry |-> EntryOf(t, n), left |-> s[Left(t, n)], right |-> s[Right(t, n)]]
           Upto(s, i) == /\ s = [n \in D |-> s[n]] /\ s[NULL] = NULL
                         /\ \A n \in Dom(t) : Weight(below, n) <= i => s[n] = shape(s, n)
           T == {i \in 0 .. N : \E s : Upto(s, i)}
<1>1. /\ N \in Nat /\ NULL \notin Dom(t) /\ NULL \in D
      /\ \A n \in Dom(t) : n \in D /\ Left(t, n) \in D /\ Right(t, n) \in D
      /\ \A n \in D : Weight(below, n) \in Nat /\ Weight(below, n) <= N
      /\ \A n \in Dom(t) : /\ Weight(below, Left(t, n)) < Weight(below, n)
                           /\ Weight(below, Right(t, n)) < Weight(below, n)
  BY FS_CardinalityType, ChildrenAreLighter DEF Sound
<1>2. \A s, g : \A n \in Dom(t) :
        s[Left(t, n)] = g[Left(t, n)] /\ s[Right(t, n)] = g[Right(t, n)] => shape(s, n) = shape(g, n)
  OBVIOUS
<1> HIDE DEF shape
<1>3. 0 \in T
  <2> DEFINE s == [n \in D |-> NULL]
  <2>1. s = [n \in D |-> s[n]] /\ s[NULL] = NULL
    OBVIOUS
  <2>2. \A n \in Dom(t) : ~(Weight(below, n) <= 0)
    BY <1>1
  <2> HIDE DEF s
  <2>3. Upto(s, 0)
    BY <2>1, <2>2
  <2> HIDE DEF Upto
  <2> QED BY <1>1, <2>3
<1>4. ASSUME NEW i \in 1 .. N, i - 1 \in T PROVE i \in T
  <2>1. PICK s : Upto(s, i - 1)
    BY <1>4
  <2> DEFINE g == [n \in D |-> IF n # NULL /\ Weight(below, n) = i THEN shape(s, n) ELSE s[n]]
  <2>2. /\ g = [n \in D |-> g[n]] /\ g[NULL] = s[NULL]
        /\ \A n \in Dom(t) : g[n] = IF Weight(below, n) = i THEN shape(s, n) ELSE s[n]
    BY <1>1
  <2> HIDE DEF g
  <2>3. ASSUME NEW n \in Dom(t), Weight(below, n) <= i PROVE g[n] = shape(g, n)
    <3>1. ASSUME NEW c \in {Left(t, n), Right(t, n)} PROVE g[c] = s[c]
      <4>1. c \in D /\ Weight(below, c) # i
        <5>1. Weight(below, c) < Weight(below, n) /\ c \in D
          BY <1>1
        <5> QED BY <1>1, <2>3, <5>1
      <4> QED BY <2>2, <4>1
    <3>2. shape(g, n) = shape(s, n)
      BY <1>2, <3>1
    <3>3. CASE Weight(below, n) = i
      BY <2>2, <3>2, <3>3
    <3>4. CASE Weight(below, n) # i
      <4>1. Weight(below, n) <= i - 1
        <5>1. Weight(below, n) \in Int /\ i \in Int
          BY <1>1
        <5>2. \A x, y \in Int : x <= y /\ x # y => x <= y - 1
          OBVIOUS
        <5> QED BY <2>3, <3>4, <5>1, <5>2, Zenon
      <4>2. s[n] = shape(s, n)
        BY <2>1, <4>1
      <4> QED BY <2>2, <3>2, <3>4, <4>2
    <3> QED BY <3>3, <3>4
  <2>4. Upto(g, i)
    BY <2>1, <2>2, <2>3
  <2>5. i \in 0 .. N
    BY <1>1
  <2> HIDE DEF Upto
  <2> QED BY <2>4, <2>5
<1> HIDE DEF T
<1>5. \A i \in 0 .. N : i \in T
  BY <1>1, <1>3, <1>4, StepByStep
<1>6. PICK s : Upto(s, N)
  <2>1. N \in T
    BY <1>1, <1>5
  <2> QED BY <2>1 DEF T
<1>7. \A n \in D : s[n] = IF n = NULL THEN NULL ELSE shape(s, n)
  BY <1>1, <1>6
<1>8. s = [n \in D |-> IF n = NULL THEN NULL ELSE shape(s, n)]
  BY <1>6, <1>7
<1> QED BY <1>8 DEF shape

\* A tree that was written to a buffer is read from it as it was, node by node, with the
\* size and the height counted anew (tree_to_buffer, buffer_to_tree); only an empty tree
\* does not come back.
THEOREM TreeComesBack == Spec => []TreeRoundTrip
<1>1. ASSUME WellFormed PROVE TreeRoundTrip
  <2> DEFINE buffer == tree_to_buffer(tree)
             copied == buffer_to_tree(buffer)
             equation(t, s) == s = [n \in Dom(t) \cup {NULL} |->
                                      IF n = NULL THEN NULL
                                      ELSE [entry |-> EntryOf(t, n), left |-> s[Left(t, n)],
                                            right |-> s[Right(t, n)]]]
             of(t) == CHOOSE s : equation(t, s)
             shape(t) == <<of(t)[t.root], t.size, t.height>>
  <2>1. /\ IsTree(tree) /\ tree.size = Cardinality(Dom(tree))
        /\ tree.height = tree_compute_height(tree)
    BY <1>1 DEF WellFormed, TypeOK, Dom
  <2>2. PICK below : Sound(tree, below)
    BY <1>1, <2>1, SearchTreeIsOrdered DEF WellFormed, SearchTree
  <2>3. PICK order : Written(tree, buffer, order, Dom(tree), tree.root)
    BY <2>2, TreeIsWritten
  <2>4. Len(buffer) = Len(order) /\ buffer \in Seq(WrittenEntries(tree)) /\ Len(buffer) \in Nat
    BY <2>3, LenProperties DEF Written
  <2>5. TreeRoundTrip <=> IF tree.root = NULL THEN copied = NULL ELSE shape(copied) = shape(tree)
    BY DEF TreeRoundTrip, Dom, Left, Right, EntryOf
  <2>6. CASE tree.root = NULL
    <3>1. Dom(tree) = {}
      BY <2>2, <2>6 DEF Sound
    <3>2. \A i \in 1 .. Len(order) : FALSE
      BY <2>3, <3>1 DEF Written
    <3>3. Len(buffer) = 0
      BY <2>4, <3>2
    <3>4. buffer = <<>>
      BY <2>4, <3>3, EmptySeq
    <3>5. copied = NULL
      BY <3>4 DEF buffer_to_tree
    <3> QED BY <2>5, <2>6, <3>5
  <2>7. CASE tree.root # NULL
    <3> HIDE DEF buffer
    <3>1. buffer # <<>>
      <4>1. tree.root \in Dom(tree)
        BY <2>2, <2>7 DEF Sound
      <4>2. \E i \in 1 .. Len(order) : order[i] = tree.root
        BY <2>3, <4>1 DEF Written
      <4>3. Len(buffer) # 0
        BY <2>4, <4>2
      <4> QED BY <2>4, <4>3, EmptySeq
    <3>2. PICK read : Reading(read, buffer) /\ copied = read[Len(buffer)]
      BY <2>4, <3>1, TreeIsRead
    <3>3. PICK f : SearchTree(copied) /\ Copies(copied, f, tree, Dom(tree))
      BY <2>1, <2>2, <2>3, <3>2, ReadCopies
    <3> HIDE DEF copied
    <3>4. PICK b : Sound(copied, b)
      BY <3>3 DEF SearchTree
    <3>5. copied.size = Cardinality(Dom(copied)) /\ copied.height = tree_compute_height(copied)
      BY <3>3 DEF SearchTree
    <3>6. copied.size = tree.size /\ copied.height = tree.height
      BY <2>1, <2>2, <3>3, <3>4, <3>5, CopyIsWhole
    <3>7. ASSUME NEW t, NEW c, Sound(t, c) PROVE Shapes(t, of(t))
      <4>1. \E s : equation(t, s)
        BY <3>7, ShapesExist
      <4>2. equation(t, of(t))
        <5> HIDE DEF equation
        <5> QED BY <4>1, Zenon
      <4> HIDE DEF of
      <4>3. \A n \in Dom(t) \cup {NULL} :
              of(t)[n] = IF n = NULL THEN NULL
                         ELSE [entry |-> EntryOf(t, n), left |-> of(t)[Left(t, n)],
                               right |-> of(t)[Right(t, n)]]
        BY <4>2, Zenon
      <4>4. NULL \notin Dom(t)
        BY <3>7 DEF Sound
      <4> QED BY <4>3, <4>4 DEF Shapes
    <3> HIDE DEF of
    <3>8. of(copied)[copied.root] = of(tree)[tree.root]
      <4>1. Shapes(tree, of(tree)) /\ Shapes(copied, of(copied))
        BY <2>2, <3>4, <3>7
      <4> QED BY <2>2, <3>3, <3>4, <4>1, CopyIsWhole
    <3> QED BY <2>5, <2>7, <3>6, <3>8
  <2> QED BY <2>6, <2>7
<1> QED BY <1>1, TreeWellFormed, PTL
=============================================================================
