------------------------ MODULE NetworkServerProofs ------------------------
(***************************************************************************)
(* Proofs about NetworkServer for every set of connections and every size  *)
(* of the array: what the loop that compacts the array leaves of it, and   *)
(* with it that every open connection is polled at one place, in the order *)
(* in which it was accepted, and read only when it has input.              *)
(***************************************************************************)
EXTENDS NetworkServer, WellFoundedInduction, TLAPS

-----------------------------------------------------------------------------
(* Induction over the rounds of a loop.                                    *)

\* A set of naturals that is not empty has a least one.
LEMMA LeastNatural ==
  ASSUME NEW T, T \subseteq Nat, T # {}
  PROVE  \E n \in T : \A k \in T : n <= k
<1>1. \E n \in T : \A k \in T : <<k, n>> \notin OpToRel(<, Nat)
  BY WFMin, NatLessThanWellFounded, Zenon
<1>2. \E n \in T : \A k \in T : ~(k < n)
  BY <1>1, Zenon DEF OpToRel
<1> QED BY <1>2

\* What holds at first and is kept by every round holds after each.
LEMMA RoundInduction ==
  ASSUME NEW T, NEW last \in Nat, 0 \in T,
         \A n \in Nat : n < last /\ n \in T => n + 1 \in T
  PROVE  \A n \in 0 .. last : n \in T
<1> DEFINE Missed == {n \in 0 .. last : n \notin T}
<1> SUFFICES ASSUME Missed # {} PROVE FALSE
  OBVIOUS
<1>1. PICK n \in Missed : \A k \in Missed : n <= k
  <2>1. Missed \subseteq Nat
    OBVIOUS
  <2> QED BY <2>1, LeastNatural
<1>2. n \in Nat /\ n # 0 /\ n <= last /\ n \notin T
  OBVIOUS
<1>3. n - 1 \in Nat /\ n - 1 \in 0 .. last /\ n - 1 < n
  BY <1>2
<1>4. n - 1 \in T
  BY <1>1, <1>2, <1>3
<1> QED BY <1>2, <1>3, <1>4

-----------------------------------------------------------------------------
(* What a round of the compacting loop does to the array.                  *)

Arrays == [Slots -> Pollfds]

\* No connection has two places.
Distinct(a) ==
  \A s, t \in Slots : a[s].fd = a[t].fd /\ a[s].fd # NoFd => s = t

\* The same connections, in the same order.
SameOrder(a, b) ==
  \A s, t \in Slots :
    s < t /\ a[s].fd # NoFd /\ a[t].fd # NoFd =>
      \E m, n \in Slots : m < n /\ b[m].fd = a[s].fd /\ b[n].fd = a[t].fd

Keeps(a, b) ==
  /\ \A s \in Slots : a[s].fd # NoFd => \E m \in Slots : b[m].fd = a[s].fd
  /\ \A m \in Slots : b[m].fd # NoFd => \E s \in Slots : a[s].fd = b[m].fd
  /\ SameOrder(a, b)
  /\ Distinct(a) => Distinct(b)

\* An array keeps what it has when it stays as it is, and over several rounds.
LEMMA KeepsItself == ASSUME NEW a \in Arrays PROVE Keeps(a, a)
BY DEF Keeps, SameOrder, Distinct

\* What two rounds of the compaction keep each, they keep together.
LEMMA KeepsOn ==
  ASSUME NEW a \in Arrays, NEW b \in Arrays, NEW c \in Arrays, Keeps(a, b), Keeps(b, c)
  PROVE  Keeps(a, c)
<1>1. \A s \in Slots : a[s].fd # NoFd => \E m \in Slots : c[m].fd = a[s].fd
  <2> SUFFICES ASSUME NEW s \in Slots, a[s].fd # NoFd
               PROVE  \E m \in Slots : c[m].fd = a[s].fd
    OBVIOUS
  <2>1. PICK l \in Slots : b[l].fd = a[s].fd
    BY DEF Keeps
  <2> QED BY <2>1 DEF Keeps
<1>2. \A m \in Slots : c[m].fd # NoFd => \E s \in Slots : a[s].fd = c[m].fd
  <2> SUFFICES ASSUME NEW m \in Slots, c[m].fd # NoFd
               PROVE  \E s \in Slots : a[s].fd = c[m].fd
    OBVIOUS
  <2>1. PICK l \in Slots : b[l].fd = c[m].fd
    BY DEF Keeps
  <2> QED BY <2>1 DEF Keeps
<1>3. SameOrder(a, c)
  <2> SUFFICES ASSUME NEW s \in Slots, NEW t \in Slots, s < t,
                      a[s].fd # NoFd, a[t].fd # NoFd
               PROVE  \E m, n \in Slots : m < n /\ c[m].fd = a[s].fd /\ c[n].fd = a[t].fd
    BY DEF SameOrder
  <2>1. PICK k, l \in Slots : k < l /\ b[k].fd = a[s].fd /\ b[l].fd = a[t].fd
    BY DEF Keeps, SameOrder
  <2> QED BY <2>1 DEF Keeps, SameOrder
<1> QED BY <1>1, <1>2, <1>3 DEF Keeps

\* Moving a closed place to the end loses nothing and changes no order.
LEMMA MoveToEndKeeps ==
  ASSUME NEW a \in [slots: Arrays, last: Slots], NEW s \in Slots, s < a.last
  PROVE  /\ MoveToEnd(a, s) \in [slots: Arrays, last: Slots]
         /\ Keeps(a.slots, MoveToEnd(a, s).slots)
<1> DEFINE b == MoveToEnd(a, s)
<1>0. a.slots \in Arrays /\ a.last \in Slots /\ a = [slots |-> a.slots, last |-> a.last]
  OBVIOUS
<1>1. CASE a.slots[s].fd # NoFd
  <2>1. b = a
    BY <1>1 DEF MoveToEnd
  <2> QED BY <1>0, <2>1, KeepsItself
<1>2. CASE a.slots[s].fd = NoFd
  <2>1. /\ b.slots = [j \in Slots |-> CASE j \in s .. a.last - 1 -> a.slots[j + 1]
                                        [] j = a.last            -> a.slots[s]
                                        [] OTHER                 -> a.slots[j]]
        /\ b.last = a.last - 1 /\ b = [slots |-> b.slots, last |-> b.last]
    BY <1>2 DEF MoveToEnd
  <2>2. s \in Nat /\ s >= 1 /\ a.last \in Nat /\ a.last <= MAX_CLIENT_SOCKETS
        /\ MAX_CLIENT_SOCKETS \in Nat
    BY <1>0, NetworkServerAssumption DEF Slots
  <2>3. /\ \A j \in Slots : j < s => b.slots[j] = a.slots[j]
        /\ \A j \in Slots : s <= j /\ j < a.last =>
             b.slots[j] = a.slots[j + 1] /\ j + 1 \in Slots
        /\ b.slots[a.last] = a.slots[s]
        /\ \A j \in Slots : j > a.last => b.slots[j] = a.slots[j]
        /\ b.last \in Slots
    BY <1>0, <2>1, <2>2 DEF Slots
  <2>4. b.slots \in Arrays
    <3>1. \A j \in Slots : b.slots[j] \in Pollfds
      <4>1. \A j \in Slots : a.slots[j] \in Pollfds
        BY <1>0 DEF Arrays
      <4> SUFFICES ASSUME NEW j \in Slots PROVE b.slots[j] \in Pollfds
        OBVIOUS
      <4>2. j \in Int /\ (j < s \/ (s <= j /\ j < a.last) \/ j = a.last \/ j > a.last)
        BY <2>2 DEF Slots
      <4> HIDE DEF b
      <4> QED BY <2>3, <4>1, <4>2
    <3> QED BY <2>1, <3>1 DEF Arrays
  <2>5. ASSUME NEW j \in Slots, a.slots[j].fd # NoFd
        PROVE  \/ j < s /\ b.slots[j] = a.slots[j]
               \/ j > a.last /\ b.slots[j] = a.slots[j]
               \/ s < j /\ j <= a.last /\ j - 1 \in Slots /\ b.slots[j - 1] = a.slots[j]
    <3>1. j # s /\ j \in Int
      BY <1>2, <2>5 DEF Slots
    <3>2. CASE s < j /\ j <= a.last
      <4>1. j - 1 \in Slots /\ s <= j - 1 /\ j - 1 < a.last
        BY <2>2, <3>1, <3>2 DEF Slots
      <4> QED BY <2>3, <3>1, <3>2, <4>1
    <3> QED BY <2>2, <2>3, <3>1, <3>2
  <2>6. SameOrder(a.slots, b.slots)
    BY <2>2, <2>5 DEF SameOrder, Slots
  <2>7. ASSUME NEW m \in Slots, b.slots[m].fd # NoFd
        PROVE  \/ m < s /\ b.slots[m] = a.slots[m]
               \/ m > a.last /\ b.slots[m] = a.slots[m]
               \/ s <= m /\ m < a.last /\ m + 1 \in Slots /\ b.slots[m] = a.slots[m + 1]
    BY <1>2, <2>2, <2>3, <2>7 DEF Slots
  <2>8. Distinct(a.slots) => Distinct(b.slots)
    <3> SUFFICES ASSUME Distinct(a.slots), NEW m \in Slots, NEW n \in Slots,
                        b.slots[m].fd = b.slots[n].fd, b.slots[m].fd # NoFd
                 PROVE  m = n
      BY DEF Distinct
    <3> QED BY <2>2, <2>7 DEF Distinct, Slots
  <2> QED BY <2>1, <2>3, <2>4, <2>5, <2>6, <2>7, <2>8 DEF Keeps
<1> QED BY <1>1, <1>2

\* Its effect on the places between s and the last: all are open, if those after s were.
LEMMA MoveToEndCloses ==
  ASSUME NEW a \in [slots: Arrays, last: Slots], NEW s \in Slots, s < a.last,
         \A t \in Slots : t > a.last => a.slots[t].fd = NoFd
  PROVE  LET b == MoveToEnd(a, s) IN
         /\ s <= b.last /\ b.last <= a.last
         /\ \A t \in Slots : t > b.last => b.slots[t].fd = NoFd
         /\ (\A t \in s + 1 .. a.last : a.slots[t].fd # NoFd) =>
              \A t \in s .. b.last : b.slots[t].fd # NoFd
         /\ a.slots[s].fd = NoFd => b.last = a.last - 1
<1>1. /\ s \in Nat /\ s >= 1 /\ a.last \in Nat /\ a.last <= MAX_CLIENT_SOCKETS
      /\ MAX_CLIENT_SOCKETS \in Nat
  BY NetworkServerAssumption DEF Slots
<1>2. CASE a.slots[s].fd # NoFd
  BY <1>1, <1>2 DEF MoveToEnd, Slots
<1>3. CASE a.slots[s].fd = NoFd
  BY <1>1, <1>3 DEF MoveToEnd, Slots
<1> QED BY <1>2, <1>3

-----------------------------------------------------------------------------
(* All rounds.                                                             *)

\* The equation that defines Compacting.
Rounds(f, first, last) ==
  f = [n \in 0 .. last - 1 |-> IF n = 0 THEN first ELSE MoveToEnd(f[n - 1], last - n)]

\* A function is defined by its first value and by what each round makes of it.
LEMMA RoundsExist ==
  ASSUME NEW first, NEW last \in Nat
  PROVE  \E f : Rounds(f, first, last)
<1> USE DEF Rounds
<1> DEFINE Upto(m) == \E f : f = [n \in 0 .. m |-> IF n = 0 THEN first
                                                  ELSE MoveToEnd(f[n - 1], last - n)]
<1> DEFINE T == {m \in Nat : Upto(m)}
<1>1. Upto(0)
  <2>1. [n \in 0 .. 0 |-> first] =
          [n \in 0 .. 0 |-> IF n = 0 THEN first
                            ELSE MoveToEnd([k \in 0 .. 0 |-> first][n - 1], last - n)]
    OBVIOUS
  <2> QED BY <2>1
<1>2. ASSUME NEW m \in Nat, Upto(m) PROVE Upto(m + 1)
  <2>1. PICK f : f = [n \in 0 .. m |-> IF n = 0 THEN first
                                       ELSE MoveToEnd(f[n - 1], last - n)]
    BY <1>2
  <2> DEFINE g == [n \in 0 .. m + 1 |-> IF n = 0 THEN first
                                        ELSE MoveToEnd(f[n - 1], last - n)]
  <2>2. \A n \in 0 .. m : g[n] = f[n]
    <3>1. \A n \in 0 .. m : f[n] = IF n = 0 THEN first ELSE MoveToEnd(f[n - 1], last - n)
      BY <2>1
    <3> QED BY <3>1
  <2> HIDE DEF g
  <2>3. \A n \in 0 .. m + 1 : n # 0 => f[n - 1] = g[n - 1]
    <3>1. \A n \in 0 .. m + 1 : n # 0 => n - 1 \in 0 .. m
      OBVIOUS
    <3> QED BY <2>2, <3>1
  <2>4. g = [n \in 0 .. m + 1 |-> IF n = 0 THEN first ELSE MoveToEnd(f[n - 1], last - n)]
    BY DEF g
  <2>5. g = [n \in 0 .. m + 1 |-> IF n = 0 THEN first ELSE MoveToEnd(g[n - 1], last - n)]
    BY <2>3, <2>4
  <2> QED BY <2>5
<1>3. CASE last = 0
  <2>1. [n \in 0 .. -1 |-> first] =
          [n \in 0 .. -1 |-> IF n = 0 THEN first
                             ELSE MoveToEnd([k \in 0 .. -1 |-> first][n - 1], 0 - n)]
    OBVIOUS
  <2> QED BY <1>3, <2>1
<1>4. CASE last # 0
  <2>1. last - 1 \in Nat
    BY <1>4
  <2> HIDE DEF Upto
  <2>2. 0 \in T /\ \A m \in Nat : m < last - 1 /\ m \in T => m + 1 \in T
    BY <1>1, <1>2
  <2> HIDE DEF T
  <2>3. \A m \in 0 .. last - 1 : m \in T
    BY <2>1, <2>2, RoundInduction
  <2>4. last - 1 \in T
    BY <2>1, <2>3
  <2>5. Upto(last - 1)
    BY <2>4 DEF T
  <2> QED BY <2>5 DEF Upto
<1> QED BY <1>3, <1>4

\* The last connected place, or the end of the array.
LEMMA LastConnectedPlace ==
  ASSUME sockets \in Arrays
  PROVE  /\ LastConnected \in Slots
         /\ \A s \in Slots : s > LastConnected => sockets[s].fd = NoFd
         /\ \/ sockets[LastConnected].fd # NoFd
            \/ \A s \in Slots : sockets[s].fd = NoFd
<1> DEFINE connected == {s \in Slots : sockets[s].fd # NoFd}
<1>1. MAX_CLIENT_SOCKETS \in Slots
  BY NetworkServerAssumption DEF Slots
<1>2. CASE connected = {}
  <2>1. LastConnected = MAX_CLIENT_SOCKETS
    BY <1>2 DEF LastConnected
  <2> QED BY <1>1, <1>2, <2>1
<1>3. CASE connected # {}
  <2> DEFINE T == {n \in Nat : \E s \in connected : n = MAX_CLIENT_SOCKETS - s}
  <2>1. T # {} /\ T \subseteq Nat
    <3>1. PICK s \in connected : TRUE
      BY <1>3
    <3>2. MAX_CLIENT_SOCKETS - s \in Nat
      BY NetworkServerAssumption DEF Slots
    <3> QED BY <3>2
  <2> HIDE DEF T
  <2>2. PICK n \in T : \A k \in T : n <= k
    BY <2>1, LeastNatural
  <2>3. PICK s \in connected : n = MAX_CLIENT_SOCKETS - s
    BY <2>2 DEF T
  <2>4. \A t \in connected : s >= t
    <3> SUFFICES ASSUME NEW t \in connected PROVE s >= t
      OBVIOUS
    <3>1. MAX_CLIENT_SOCKETS - t \in T
      BY NetworkServerAssumption DEF T, Slots
    <3>2. s \in Int /\ t \in Int /\ MAX_CLIENT_SOCKETS \in Int
      BY NetworkServerAssumption DEF Slots
    <3> QED BY <2>2, <2>3, <3>1, <3>2
  <2>5. Max(connected) \in connected /\ \A t \in connected : Max(connected) >= t
    BY <2>4 DEF Max
  <2>6. LastConnected = Max(connected)
    BY <1>3 DEF LastConnected
  <2> HIDE DEF connected
  <2>7. LastConnected \in connected /\ \A t \in connected : LastConnected >= t
    BY <2>5, <2>6
  <2> QED BY <2>7 DEF connected, Slots
<1> QED BY <1>2, <1>3

\* After the loop: the same connections in the same order, and below the count no
\* place is closed but the first of an array that is empty.
LEMMA CompactedArray ==
  ASSUME sockets \in Arrays
  PROVE  /\ Compacted.slots \in Arrays /\ Compacted.last \in Slots
         /\ Keeps(sockets, Compacted.slots)
         /\ \A s \in Slots : s > Compacted.last => Compacted.slots[s].fd = NoFd
         /\ \A s \in 1 .. Compacted.last : Compacted.slots[s].fd = NoFd => s = 1
<1> DEFINE last == LastConnected
<1>1. /\ last \in Slots /\ last \in Nat /\ last >= 1 /\ last <= MAX_CLIENT_SOCKETS
      /\ MAX_CLIENT_SOCKETS \in Nat
      /\ \A s \in Slots : s > last => sockets[s].fd = NoFd
      /\ sockets[last].fd # NoFd \/ \A s \in Slots : sockets[s].fd = NoFd
  BY LastConnectedPlace, NetworkServerAssumption DEF Slots
<1> HIDE DEF last
<1>2. Compacting = [n \in 0 .. last - 1 |->
                      IF n = 0 THEN [slots |-> sockets, last |-> last]
                      ELSE MoveToEnd(Compacting[n - 1], last - n)]
  <2> DEFINE first == [slots |-> sockets, last |-> last]
  <2>1. last \in Nat
    BY <1>1
  <2>2. \E f : Rounds(f, first, last)
    BY <2>1, RoundsExist, Zenon
  <2>3. Compacting = CHOOSE f : Rounds(f, first, last)
    BY DEF Compacting, Rounds, last
  <2>4. Rounds(Compacting, first, last)
    BY <2>2, <2>3, Zenon
  <2> QED BY <2>4 DEF Rounds
<1>3. /\ Compacting[0] = [slots |-> sockets, last |-> last]
      /\ \A n \in Nat : n < last - 1 =>
           Compacting[n + 1] = MoveToEnd(Compacting[n], last - (n + 1))
  <2>1. \A n \in 0 .. last - 1 :
          Compacting[n] = IF n = 0 THEN [slots |-> sockets, last |-> last]
                          ELSE MoveToEnd(Compacting[n - 1], last - n)
    BY <1>2, Zenon
  <2>2. \A n \in Nat : n < last - 1 => n + 1 \in 0 .. last - 1 /\ n + 1 # 0 /\ n + 1 - 1 = n
    BY <1>1
  <2>3. 0 \in 0 .. last - 1
    BY <1>1
  <2> QED BY <2>1, <2>2, <2>3
<1> DEFINE After(n, a) ==
      /\ a \in [slots: Arrays, last: Slots]
      /\ last - n <= a.last /\ a.last <= last
      /\ Keeps(sockets, a.slots)
      /\ \A s \in Slots : s > a.last => a.slots[s].fd = NoFd
      /\ IF sockets[last].fd # NoFd
         THEN \A s \in last - n .. a.last : a.slots[s].fd # NoFd
         ELSE a.last = last - n
<1>4. After(0, Compacting[0])
  <2>1. [slots |-> sockets, last |-> last] \in [slots: Arrays, last: Slots]
    BY <1>1
  <2>2. Keeps(sockets, sockets)
    BY KeepsItself
  <2>3. After(0, [slots |-> sockets, last |-> last])
    BY <1>1, <2>1, <2>2
  <2> QED BY <1>3, <2>3
<1>5. ASSUME NEW n \in Nat, n < last - 1, After(n, Compacting[n])
      PROVE  After(n + 1, Compacting[n + 1])
  <2> DEFINE a == Compacting[n]
             s == last - (n + 1)
             b == MoveToEnd(a, s)
  <2>1. /\ a \in [slots: Arrays, last: Slots] /\ last - n <= a.last /\ a.last <= last
        /\ Keeps(sockets, a.slots)
        /\ \A t \in Slots : t > a.last => a.slots[t].fd = NoFd
        /\ IF sockets[last].fd # NoFd
           THEN \A t \in last - n .. a.last : a.slots[t].fd # NoFd
           ELSE a.last = last - n
    BY <1>5
  <2>2. s \in Slots /\ s \in Int /\ s < a.last /\ s + 1 = last - n /\ a.last \in Int
    BY <1>1, <1>5, <2>1 DEF Slots
  <2>3. Compacting[n + 1] = b
    BY <1>3, <1>5
  <2> HIDE DEF a, s, After
  <2>4. b \in [slots: Arrays, last: Slots] /\ Keeps(a.slots, b.slots)
    BY <2>1, <2>2, MoveToEndKeeps
  <2>5. /\ s <= b.last /\ b.last <= a.last
        /\ \A t \in Slots : t > b.last => b.slots[t].fd = NoFd
        /\ (\A t \in s + 1 .. a.last : a.slots[t].fd # NoFd) =>
             \A t \in s .. b.last : b.slots[t].fd # NoFd
        /\ a.slots[s].fd = NoFd => b.last = a.last - 1
    BY <2>1, <2>2, MoveToEndCloses
  <2> HIDE DEF b
  <2>6. Keeps(sockets, b.slots)
    <3>1. a.slots \in Arrays /\ b.slots \in Arrays
      BY <2>1, <2>4
    <3> QED BY <2>1, <2>4, <3>1, KeepsOn
  <2>7. sockets[last].fd = NoFd => b.last = s
    <3> SUFFICES ASSUME sockets[last].fd = NoFd PROVE b.last = s
      OBVIOUS
    <3>1. a.slots[s].fd = NoFd
      <4>1. \A t \in Slots : sockets[t].fd = NoFd
        BY <1>1
      <4>2. a.slots[s].fd # NoFd => \E t \in Slots : sockets[t].fd = a.slots[s].fd
        BY <2>1, <2>2, Zenon DEF Keeps
      <4> QED BY <4>1, <4>2
    <3> QED BY <2>1, <2>2, <2>5, <3>1
  <2>8. b.last \in Int /\ s \in Int /\ s = last - (n + 1)
    BY <1>1, <2>4 DEF s, Slots
  <2>9. After(n + 1, b)
    BY <1>1, <2>1, <2>2, <2>4, <2>5, <2>6, <2>7, <2>8 DEF After
  <2> QED BY <2>3, <2>9
<1> HIDE DEF After
<1> DEFINE T == {n \in Nat : After(n, Compacting[n])}
<1>6. last - 1 \in T
  <2>1. 0 \in T /\ last - 1 \in Nat
    BY <1>1, <1>4
  <2>2. \A n \in Nat : n < last - 1 /\ n \in T => n + 1 \in T
    BY <1>5
  <2> HIDE DEF T
  <2>3. \A n \in 0 .. last - 1 : n \in T
    BY <2>1, <2>2, RoundInduction
  <2> QED BY <2>1, <2>3
<1>7. After(last - 1, Compacted)
  BY <1>6 DEF Compacted, last
<1> QED
  <2>1. /\ Compacted.slots \in Arrays /\ Compacted.last \in Slots
        /\ Keeps(sockets, Compacted.slots)
        /\ \A s \in Slots : s > Compacted.last => Compacted.slots[s].fd = NoFd
    BY <1>7 DEF After
  <2>2. CASE sockets[last].fd # NoFd
    <3>1. last - (last - 1) = 1
      BY <1>1
    <3> QED BY <1>7, <2>1, <2>2, <3>1 DEF After
  <2>3. CASE sockets[last].fd = NoFd
    <3>1. Compacted.last = 1
      BY <1>1, <1>7, <2>3 DEF After
    <3> QED BY <2>1, <3>1
  <2> QED BY <2>1, <2>2, <2>3

-----------------------------------------------------------------------------
(* The backlog.                                                            *)

\* A connection joins the backlog at its end, once.
LEMMA BacklogAppend ==
  ASSUME NEW q \in Seq(Conns), NEW c \in Conns
  PROVE  /\ Append(q, c) \in Seq(Conns)
         /\ ToSet(Append(q, c)) = ToSet(q) \cup {c}
         /\ IsInjective(q) /\ c \notin ToSet(q) => IsInjective(Append(q, c))
<1>1. /\ Append(q, c) \in Seq(Conns)
      /\ DOMAIN Append(q, c) = DOMAIN q \cup {Len(q) + 1}
      /\ \A k \in DOMAIN q : Append(q, c)[k] = q[k]
      /\ Append(q, c)[Len(q) + 1] = c
  OBVIOUS
<1> DEFINE r == Append(q, c)
<1> HIDE DEF r
<1>2. ToSet(r) = ToSet(q) \cup {c}
  BY <1>1 DEF ToSet, r
<1>3. IsInjective(q) /\ c \notin ToSet(q) => IsInjective(r)
  BY <1>1 DEF ToSet, IsInjective, r
<1> QED BY <1>1, <1>2, <1>3 DEF r

\* The oldest one leaves it.
LEMMA BacklogHead ==
  ASSUME NEW q \in Seq(Conns), q # <<>>
  PROVE  /\ Head(q) \in Conns /\ Tail(q) \in Seq(Conns)
         /\ ToSet(q) = ToSet(Tail(q)) \cup {Head(q)}
         /\ IsInjective(q) => IsInjective(Tail(q)) /\ Head(q) \notin ToSet(Tail(q))
<1>1. /\ Tail(q) \in Seq(Conns) /\ Len(q) \in Nat /\ Len(q) > 0
      /\ DOMAIN Tail(q) = 1 .. Len(q) - 1 /\ DOMAIN q = 1 .. Len(q)
      /\ \A k \in DOMAIN Tail(q) : Tail(q)[k] = q[k + 1] /\ k + 1 \in DOMAIN q
      /\ \A k \in DOMAIN q : k # 1 => k - 1 \in DOMAIN Tail(q) /\ Tail(q)[k - 1] = q[k]
      /\ Head(q) = q[1] /\ q[1] \in Conns
  OBVIOUS
<1> DEFINE r == Tail(q)
           h == Head(q)
<1> HIDE DEF r, h
<1>2. ToSet(q) = ToSet(r) \cup {h}
  <2>1. \A k \in DOMAIN q : k = 1 \/ q[k] \in ToSet(r)
    BY <1>1 DEF ToSet, r
  <2>2. \A k \in DOMAIN r : r[k] \in ToSet(q)
    BY <1>1 DEF ToSet, r
  <2>3. h \in ToSet(q)
    BY <1>1 DEF ToSet, h
  <2> QED BY <1>1, <2>1, <2>2, <2>3 DEF ToSet, h
<1>3. IsInjective(q) => IsInjective(r) /\ h \notin ToSet(r)
  BY <1>1 DEF ToSet, IsInjective, r, h
<1> QED BY <1>1, <1>2, <1>3 DEF r, h

-----------------------------------------------------------------------------
(* The inductive invariant.                                                *)

LoopTypes == TypeOK /\ IF pc = "clients" THEN i <= client_sockets_count + 1
                                         ELSE i = 1 /\ ~some_fds_closed

\* The count and the index of the loop stay within the array.
LEMMA TypesNext == IInv /\ [Next]_vars => LoopTypes'
<1> SUFFICES ASSUME IInv, [Next]_vars PROVE LoopTypes'
  OBVIOUS
<1>1. /\ pc \in {"poll", "listening", "clients", "returned"}
      /\ sockets \in [Slots -> Pollfds] /\ acceptable \in BOOLEAN
      /\ client_sockets_count \in 0 .. MAX_CLIENT_SOCKETS
      /\ i \in 1 .. MAX_CLIENT_SOCKETS + 1 /\ some_fds_closed \in BOOLEAN
      /\ backlog \in Seq(Conns) /\ peer \in [Conns -> PeerStates]
      /\ IF pc = "clients" THEN i <= client_sockets_count + 1
                           ELSE i = 1 /\ ~some_fds_closed
      /\ pc = "listening" /\ acceptable => backlog # <<>>
      /\ MAX_CLIENT_SOCKETS \in Nat /\ MAX_CLIENT_SOCKETS > 0
  BY NetworkServerAssumption DEF IInv, TypeOK, InputsConsistent
<1> USE DEF LoopTypes, TypeOK, loopVars, PeerStates
<1>2. CASE Clients
  <2> PICK c \in Conns : Connect(c) \/ StartRequest(c) \/ CompleteRequest(c) \/ Disconnect(c)
    BY <1>2 DEF Clients
  <2>1. CASE Connect(c)
    BY <1>1, <2>1, BacklogAppend DEF Connect
  <2>2. CASE StartRequest(c) \/ CompleteRequest(c) \/ Disconnect(c)
    BY <1>1, <2>2 DEF StartRequest, CompleteRequest, Disconnect
  <2> QED BY <2>1, <2>2
<1>3. CASE Poll
  <2>1. sockets' \in [Slots -> Pollfds]
    BY <1>1, <1>3 DEF Poll, Pollfds
  <2> QED BY <1>1, <1>3, <2>1 DEF Poll
<1>4. CASE Accept
  <2>1. Head(backlog) \in Conns /\ Tail(backlog) \in Seq(Conns)
    BY <1>1, <1>4, BacklogHead DEF Accept
  <2>2. sockets' \in [Slots -> Pollfds]
    BY <1>1, <1>4, <2>1 DEF Accept, Pollfds
  <2> QED BY <1>1, <1>4, <2>1, <2>2 DEF Accept, HasRoom
<1>5. CASE AcceptFails
  <2>1. sockets' \in [Slots -> Pollfds]
    BY <1>1, <1>5 DEF AcceptFails, Pollfds
  <2> QED BY <1>1, <1>5, <2>1 DEF AcceptFails
<1>6. CASE SkipAccept
  BY <1>1, <1>6 DEF SkipAccept
<1>7. CASE SkipClient
  BY <1>1, <1>7 DEF SkipClient, AtClient
<1>8. CASE HandleRequest
  <2>1. i \in Nat /\ i <= client_sockets_count /\ pc = "clients" /\ i' = i + 1
        /\ UNCHANGED <<pc, sockets, acceptable, client_sockets_count, some_fds_closed, backlog>>
    BY <1>1, <1>8 DEF HandleRequest, Handling, AtClient
  <2>2. peer' \in [Conns -> PeerStates]
    BY <1>1, <1>8 DEF HandleRequest
  <2> QED BY <1>1, <2>1, <2>2
<1>9. CASE HandleFails
  <2>1. sockets' \in [Slots -> Pollfds]
    BY <1>1, <1>9 DEF HandleFails, Pollfds
  <2>2. i \in Nat /\ i <= client_sockets_count /\ pc = "clients" /\ i' = i + 1
        /\ UNCHANGED <<pc, acceptable, client_sockets_count, backlog>>
        /\ some_fds_closed' = TRUE
    BY <1>1, <1>9 DEF HandleFails, Handling, AtClient
  <2>3. peer' \in [Conns -> PeerStates]
    BY <1>1, <1>9 DEF HandleFails
  <2> QED BY <1>1, <2>1, <2>2, <2>3
<1>10. CASE EndRound
  <2>1. Compacted.slots \in [Slots -> Pollfds] /\ Compacted.last \in Slots
    BY <1>1, CompactedArray DEF Arrays
  <2>2. sockets' \in [Slots -> Pollfds] /\ client_sockets_count' \in 0 .. MAX_CLIENT_SOCKETS
    <3>1. Compacted.last \in 0 .. MAX_CLIENT_SOCKETS
      BY <1>1, <2>1 DEF Slots
    <3>2. CASE some_fds_closed
      BY <1>10, <2>1, <3>1, <3>2 DEF EndRound
    <3>3. CASE ~some_fds_closed
      BY <1>1, <1>10, <3>3 DEF EndRound
    <3> QED BY <3>2, <3>3
  <2>3. pc' = "poll" /\ i' = 1 /\ some_fds_closed' = FALSE /\ UNCHANGED <<acceptable, backlog, peer>>
    BY <1>10 DEF EndRound
  <2>4. i' \in 1 .. MAX_CLIENT_SOCKETS + 1
    BY <1>1, <2>3
  <2>5. TypeOK'
    BY <1>1, <2>2, <2>3, <2>4
  <2> QED BY <2>3, <2>5
<1>11. CASE Interrupt
  BY <1>1, <1>11 DEF Interrupt
<1>12. CASE UNCHANGED vars
  BY <1>1, <1>12 DEF vars
<1> QED BY <1>2, <1>3, <1>4, <1>5, <1>6, <1>7, <1>8, <1>9, <1>10, <1>11, <1>12 DEF Next, Loop

\* What the invariant says while the loop runs, with the sets of connections spelled out.
LEMMA PlacesParts ==
  ASSUME IInv, pc # "returned"
  PROVE  /\ sockets \in Arrays /\ backlog \in Seq(Conns) /\ peer \in [Conns -> PeerStates]
         /\ client_sockets_count \in 0 .. MAX_CLIENT_SOCKETS
         /\ \A s \in Slots : s > client_sockets_count => sockets[s].fd = NoFd
         /\ Distinct(sockets)
         /\ IsInjective(backlog)
         /\ \A s \in Slots : sockets[s].fd # NoFd => sockets[s].fd \notin ToSet(backlog)
         /\ \A c \in Conns : peer[c] # "none" <=>
              \/ c \in ToSet(backlog)
              \/ \E s \in Slots : sockets[s].fd = c
         /\ \A s \in 1 .. client_sockets_count :
              sockets[s].fd = NoFd => s = 1 \/ some_fds_closed
<1>1. PlacesConsistent /\ TypeOK
  BY DEF IInv
<1>2. \A s \in Slots : sockets[s].fd # NoFd => sockets[s].fd \in Connected
  BY DEF Connected
<1>3. \A c \in Conns : c \in Connected <=> \E s \in Slots : sockets[s].fd = c
  BY NetworkServerAssumption DEF Connected
<1>4. \A s \in Slots : sockets[s].fd # NoFd => sockets[s].fd \notin ToSet(backlog)
  BY <1>1, <1>2 DEF PlacesConsistent
<1>5. \A c \in Conns : peer[c] # "none" <=>
        c \in ToSet(backlog) \/ \E s \in Slots : sockets[s].fd = c
  BY <1>1, <1>3 DEF PlacesConsistent
<1> QED BY <1>1, <1>4, <1>5 DEF PlacesConsistent, TypeOK, Arrays, Distinct

\* And back: the same facts about the next state give the invariant there.
LEMMA PlacesAgain ==
  ASSUME LoopTypes',
         \A s \in Slots : s > client_sockets_count' => sockets'[s].fd = NoFd,
         Distinct(sockets'), IsInjective(backlog'),
         \A s \in Slots : sockets'[s].fd # NoFd => sockets'[s].fd \notin ToSet(backlog'),
         \A c \in Conns : peer'[c] # "none" <=>
           \/ c \in ToSet(backlog')
           \/ \E s \in Slots : sockets'[s].fd = c,
         \A s \in 1 .. client_sockets_count' :
           sockets'[s].fd = NoFd => s = 1 \/ some_fds_closed'
  PROVE  PlacesConsistent'
<1>1. \A c \in Connected' : c # NoFd /\ \E s \in Slots : sockets'[s].fd = c
  BY DEF Connected
<1>2. (ToSet(backlog) \cap Connected)' = {}
  BY <1>1
<1>3. \A c \in Conns : c \in Connected' <=> \E s \in Slots : sockets'[s].fd = c
  BY NetworkServerAssumption DEF Connected
<1>4. \A c \in Conns : peer'[c] # "none" <=> c \in (ToSet(backlog) \cup Connected)'
  BY <1>3
<1> QED BY <1>2, <1>4 DEF PlacesConsistent, Distinct

\* Every step of the loop and of the clients keeps each open connection at one place.
LEMMA PlacesNext == IInv /\ [Next]_vars /\ pc' # "returned" => PlacesConsistent'
<1> SUFFICES ASSUME IInv, [Next]_vars, pc' # "returned" PROVE PlacesConsistent'
  OBVIOUS
<1>1. LoopTypes'
  BY TypesNext
<1>2. pc # "returned"
  BY DEF Next, Clients, Connect, StartRequest, CompleteRequest, Disconnect, Loop, Poll, Accept,
         AcceptFails, SkipAccept, SkipClient, HandleRequest, HandleFails, Handling, AtClient,
         EndRound, Interrupt, vars, loopVars
<1>3. /\ sockets \in [Slots -> Pollfds] /\ backlog \in Seq(Conns)
      /\ peer \in [Conns -> PeerStates]
      /\ client_sockets_count \in Nat /\ client_sockets_count <= MAX_CLIENT_SOCKETS
      /\ MAX_CLIENT_SOCKETS \in Nat
      /\ \A s \in Slots : s > client_sockets_count => sockets[s].fd = NoFd
      /\ \A s, t \in Slots : sockets[s].fd = sockets[t].fd /\ sockets[s].fd # NoFd => s = t
      /\ IsInjective(backlog)
      /\ \A s \in Slots : sockets[s].fd # NoFd => sockets[s].fd \notin ToSet(backlog)
      /\ \A c \in Conns : peer[c] # "none" <=>
           c \in ToSet(backlog) \/ \E s \in Slots : sockets[s].fd = c
      /\ \A s \in 1 .. client_sockets_count :
           sockets[s].fd = NoFd => s = 1 \/ some_fds_closed
  BY <1>2, PlacesParts, NetworkServerAssumption DEF Distinct, Arrays
<1> DEFINE Quiet ==
      /\ \A s \in Slots : sockets'[s].fd = sockets[s].fd
      /\ UNCHANGED <<client_sockets_count, some_fds_closed, backlog>>
      /\ \A c \in Conns : peer'[c] = "none" <=> peer[c] = "none"
<1>4. Quiet => PlacesConsistent'
  <2> SUFFICES ASSUME Quiet PROVE PlacesConsistent'
    OBVIOUS
  <2>1. \A s \in Slots : s > client_sockets_count' => sockets'[s].fd = NoFd
    BY <1>3
  <2>2. Distinct(sockets')
    BY <1>3 DEF Distinct
  <2>3. \A s \in Slots : sockets'[s].fd # NoFd => sockets'[s].fd \notin ToSet(backlog')
    BY <1>3
  <2>4. \A c \in Conns : peer'[c] # "none" <=>
          c \in ToSet(backlog') \/ \E s \in Slots : sockets'[s].fd = c
    BY <1>3
  <2>5. \A s \in 1 .. client_sockets_count' :
          sockets'[s].fd = NoFd => s = 1 \/ some_fds_closed'
    BY <1>3 DEF Slots
  <2>6. IsInjective(backlog')
    BY <1>3
  <2> QED BY <1>1, <2>1, <2>2, <2>3, <2>4, <2>5, <2>6, PlacesAgain
<1>5. ASSUME NEW c \in Conns, Connect(c) PROVE PlacesConsistent'
  <2>1. peer[c] = "none" /\ peer' = [peer EXCEPT ![c] = "idle"] /\ backlog' = Append(backlog, c)
        /\ UNCHANGED <<sockets, client_sockets_count, some_fds_closed>>
    BY <1>5 DEF Connect, loopVars
  <2>2. c \notin ToSet(backlog) /\ \A s \in Slots : sockets[s].fd # c
    BY <1>3, <2>1
  <2>3. ToSet(backlog') = ToSet(backlog) \cup {c} /\ IsInjective(backlog')
    BY <1>3, <2>1, <2>2, BacklogAppend
  <2>4. \A s \in Slots : sockets'[s].fd # NoFd => sockets'[s].fd \notin ToSet(backlog')
    BY <1>3, <2>1, <2>2, <2>3
  <2>5. \A d \in Conns : peer'[d] # "none" <=>
          d \in ToSet(backlog') \/ \E s \in Slots : sockets'[s].fd = d
    BY <1>3, <2>1, <2>3
  <2> QED BY <1>1, <1>3, <2>1, <2>3, <2>4, <2>5, PlacesAgain DEF Distinct
<1>6. ASSUME NEW c \in Conns, StartRequest(c) \/ CompleteRequest(c) \/ Disconnect(c)
      PROVE  PlacesConsistent'
  <2>1. UNCHANGED <<sockets, client_sockets_count, some_fds_closed, backlog>>
    BY <1>6 DEF StartRequest, CompleteRequest, Disconnect, loopVars
  <2>2. \A d \in Conns : peer'[d] = "none" <=> peer[d] = "none"
    BY <1>3, <1>6 DEF StartRequest, CompleteRequest, Disconnect
  <2> QED BY <1>4, <2>1, <2>2
<1>7. CASE Poll
  <2>1. \A s \in Slots : sockets'[s].fd = sockets[s].fd
    BY <1>3, <1>7 DEF Poll, Pollfds
  <2> QED BY <1>4, <1>7, <2>1 DEF Poll
<1>8. CASE Accept
  <2> DEFINE c == Head(backlog)
             p == client_sockets_count + 1
  <2>1. /\ p \in Slots /\ c \in Conns /\ c # NoFd
        /\ ToSet(backlog) = ToSet(backlog') \cup {c}
        /\ IsInjective(backlog') /\ c \notin ToSet(backlog')
    <3>1. backlog # <<>>
      BY <1>2, <1>8 DEF IInv, InputsConsistent, Accept
    <3>2. p \in Slots
      BY <1>3, <1>8 DEF Accept, HasRoom, Slots
    <3> QED BY <1>3, <1>8, <3>1, <3>2, BacklogHead, NetworkServerAssumption DEF Accept
  <2>2. /\ sockets' = [sockets EXCEPT ![p] = [fd |-> c, pollin |-> FALSE]]
        /\ client_sockets_count' = p
        /\ UNCHANGED <<some_fds_closed, peer>>
    BY <1>8 DEF Accept
  <2>3. /\ sockets[p].fd = NoFd /\ sockets'[p].fd = c
        /\ \A s \in Slots : s # p => sockets'[s].fd = sockets[s].fd
        /\ \A s \in Slots : sockets[s].fd # c
    BY <1>3, <2>1, <2>2
  <2> HIDE DEF c
  <2>4. \A s \in Slots : s > client_sockets_count' => sockets'[s].fd = NoFd
    BY <1>3, <2>2, <2>3 DEF Slots
  <2>5. \A s \in 1 .. client_sockets_count' :
          sockets'[s].fd = NoFd => s = 1 \/ some_fds_closed'
    <3>1. \A s \in 1 .. client_sockets_count' : s = p \/ s \in 1 .. client_sockets_count
      BY <1>3, <2>2
    <3>2. \A s \in 1 .. client_sockets_count : s # p /\ s \in Slots
      BY <1>3 DEF Slots
    <3> QED BY <1>3, <2>1, <2>2, <2>3, <3>1, <3>2
  <2> HIDE DEF p
  <2>6. Distinct(sockets')
    BY <1>3, <2>1, <2>3 DEF Distinct
  <2>7. \A s \in Slots : sockets'[s].fd # NoFd => sockets'[s].fd \notin ToSet(backlog')
    BY <1>3, <2>1, <2>3
  <2>8. \A d \in Conns : peer'[d] # "none" <=>
          d \in ToSet(backlog') \/ \E s \in Slots : sockets'[s].fd = d
    <3> SUFFICES ASSUME NEW d \in Conns
                 PROVE  peer'[d] # "none" <=>
                          d \in ToSet(backlog') \/ \E s \in Slots : sockets'[s].fd = d
      OBVIOUS
    <3>1. d # c => ((\E s \in Slots : sockets'[s].fd = d) <=> \E s \in Slots : sockets[s].fd = d)
      <4>1. d # NoFd
        BY NetworkServerAssumption
      <4> QED BY <2>1, <2>3, <4>1
    <3>2. d \in ToSet(backlog) <=> d \in ToSet(backlog') \/ d = c
      BY <2>1
    <3> QED BY <1>3, <2>1, <2>2, <2>3, <3>1, <3>2
  <2> QED BY <1>1, <2>1, <2>4, <2>5, <2>6, <2>7, <2>8, PlacesAgain
<1>9. CASE AcceptFails
  <2>1. client_sockets_count + 1 \in Slots /\ sockets[client_sockets_count + 1].fd = NoFd
    BY <1>3, <1>9 DEF AcceptFails, HasRoom, Slots
  <2>2. \A s \in Slots : sockets'[s].fd = sockets[s].fd
    BY <1>3, <1>9, <2>1 DEF AcceptFails, Pollfds
  <2> QED BY <1>4, <1>9, <2>2 DEF AcceptFails
<1>10. CASE SkipAccept
  BY <1>4, <1>10 DEF SkipAccept
<1>11. CASE SkipClient
  BY <1>4, <1>11 DEF SkipClient
<1>12. CASE HandleRequest
  <2>1. \A d \in Conns : peer'[d] = "none" <=> peer[d] = "none"
    BY <1>3, <1>12 DEF HandleRequest
  <2> QED BY <1>4, <1>12, <2>1 DEF HandleRequest
<1>13. CASE HandleFails
  <2> DEFINE c == sockets[i].fd
  <2>1. i \in Slots /\ c # NoFd /\ c \in Conns
    <3>1. i \in Slots
      BY <1>2, <1>3, <1>13 DEF HandleFails, Handling, AtClient, IInv, TypeOK, Slots
    <3> QED BY <1>3, <1>13, <3>1 DEF HandleFails, Handling, Pollfds
  <2>2. /\ peer' = [peer EXCEPT ![c] = "none"]
        /\ sockets' = [sockets EXCEPT ![i].fd = NoFd]
        /\ some_fds_closed' = TRUE
        /\ UNCHANGED <<client_sockets_count, backlog>>
    BY <1>13 DEF HandleFails
  <2>3. /\ sockets'[i].fd = NoFd
        /\ \A s \in Slots : s # i => sockets'[s].fd = sockets[s].fd
        /\ \A s \in Slots : sockets[s].fd = c => s = i
        /\ c \notin ToSet(backlog)
    BY <1>3, <2>1, <2>2 DEF Pollfds
  <2>4. \A s \in Slots : s > client_sockets_count' => sockets'[s].fd = NoFd
    BY <1>3, <2>2, <2>3
  <2>5. Distinct(sockets')
    BY <1>3, <2>3 DEF Distinct
  <2>6. \A s \in Slots : sockets'[s].fd # NoFd => sockets'[s].fd \notin ToSet(backlog')
    BY <1>3, <2>2, <2>3
  <2>7. \A d \in Conns : peer'[d] # "none" <=>
          d \in ToSet(backlog') \/ \E s \in Slots : sockets'[s].fd = d
    <3> SUFFICES ASSUME NEW d \in Conns
                 PROVE  peer'[d] # "none" <=>
                          d \in ToSet(backlog') \/ \E s \in Slots : sockets'[s].fd = d
      OBVIOUS
    <3>1. d # NoFd
      BY NetworkServerAssumption
    <3>2. CASE d = c
      <4>1. peer'[d] = "none"
        BY <1>3, <2>1, <2>2, <3>2
      <4>2. \A s \in Slots : sockets'[s].fd # d
        BY <2>3, <3>1, <3>2
      <4> QED BY <2>2, <2>3, <3>2, <4>1, <4>2
    <3>3. CASE d # c
      <4>1. peer'[d] = peer[d]
        BY <1>3, <2>2, <3>3
      <4>2. (\E s \in Slots : sockets'[s].fd = d) <=> \E s \in Slots : sockets[s].fd = d
        BY <2>1, <2>3, <3>1, <3>3
      <4> QED BY <1>3, <2>2, <4>1, <4>2
    <3> QED BY <3>2, <3>3
  <2> QED BY <1>1, <1>3, <2>2, <2>4, <2>5, <2>6, <2>7, PlacesAgain
<1>14. CASE EndRound
  <2>1. CASE ~some_fds_closed
    <3>1. some_fds_closed' = some_fds_closed
      <4>1. some_fds_closed \in BOOLEAN
        BY DEF IInv, TypeOK
      <4> QED BY <1>14, <2>1, <4>1, Zenon DEF EndRound
    <3>2. UNCHANGED <<sockets, client_sockets_count, backlog, peer>>
      BY <1>14, <2>1 DEF EndRound
    <3> QED BY <1>4, <3>1, <3>2
  <2>2. CASE some_fds_closed
    <3>1. /\ Keeps(sockets, Compacted.slots)
          /\ \A s \in Slots : s > Compacted.last => Compacted.slots[s].fd = NoFd
          /\ \A s \in 1 .. Compacted.last : Compacted.slots[s].fd = NoFd => s = 1
      BY <1>3, CompactedArray DEF Arrays
    <3>2. /\ sockets' = Compacted.slots /\ client_sockets_count' = Compacted.last
          /\ UNCHANGED <<backlog, peer>>
      BY <1>14, <2>2 DEF EndRound
    <3>3. /\ \A s \in Slots : sockets[s].fd # NoFd =>
               \E m \in Slots : sockets'[m].fd = sockets[s].fd
          /\ \A m \in Slots : sockets'[m].fd # NoFd =>
               \E s \in Slots : sockets[s].fd = sockets'[m].fd
          /\ Distinct(sockets')
      BY <1>3, <3>1, <3>2 DEF Keeps, Distinct
    <3>4. \A s \in Slots : sockets'[s].fd # NoFd => sockets'[s].fd \notin ToSet(backlog')
      BY <1>3, <3>2, <3>3
    <3>5. \A d \in Conns : peer'[d] # "none" <=>
            d \in ToSet(backlog') \/ \E s \in Slots : sockets'[s].fd = d
      <4>1. ASSUME NEW d \in Conns
            PROVE  (\E s \in Slots : sockets'[s].fd = d) <=> \E s \in Slots : sockets[s].fd = d
        <5>1. d # NoFd
          BY NetworkServerAssumption
        <5> QED BY <3>3, <5>1
      <4> QED BY <1>3, <3>2, <4>1
    <3> QED BY <1>1, <1>3, <3>1, <3>2, <3>3, <3>4, <3>5, PlacesAgain
  <2> QED BY <1>4, <2>1, <2>2
<1>15. CASE Interrupt
  BY <1>15 DEF Interrupt
<1>16. CASE UNCHANGED vars
  BY <1>4, <1>16 DEF vars, loopVars
<1> QED BY <1>4, <1>5, <1>6, <1>7, <1>8, <1>9, <1>10, <1>11, <1>12, <1>13, <1>14, <1>15, <1>16
        DEF Next, Clients, Loop

\* Until the loop comes to it, a socket that poll reported has its input: clients add
\* to it, and the loop reads each socket at most once in a round.
LEMMA InputsNext == IInv /\ [Next]_vars /\ pc' # "returned" => InputsConsistent'
<1> SUFFICES ASSUME IInv, [Next]_vars, pc' # "returned" PROVE InputsConsistent'
  OBVIOUS
<1>1. pc # "returned"
  BY DEF Next, Clients, Connect, StartRequest, CompleteRequest, Disconnect, Loop, Poll, Accept,
         AcceptFails, SkipAccept, SkipClient, HandleRequest, HandleFails, Handling, AtClient,
         EndRound, Interrupt, vars, loopVars
<1>2. /\ sockets \in [Slots -> Pollfds] /\ backlog \in Seq(Conns)
      /\ peer \in [Conns -> PeerStates]
      /\ client_sockets_count \in Nat /\ i \in Nat /\ i > 0
      /\ client_sockets_count <= MAX_CLIENT_SOCKETS /\ MAX_CLIENT_SOCKETS \in Nat
      /\ \A s \in Slots : s \in Nat
      /\ \A s, t \in Slots : sockets[s].fd = sockets[t].fd /\ sockets[s].fd # NoFd => s = t
  BY <1>1, PlacesParts, NetworkServerAssumption DEF Distinct, Arrays, IInv, TypeOK, Slots
<1>3. /\ \A s \in Slots :
           Ahead(s) /\ sockets[s].fd # NoFd /\ sockets[s].pollin => HasInput(sockets[s].fd)
      /\ pc = "listening" /\ acceptable => backlog # <<>>
  BY <1>1 DEF IInv, InputsConsistent
\* Clients only add to what there is to read.
<1>4. ASSUME UNCHANGED loopVars,
             \A d \in Conns : HasInput(d) => HasInput(d)',
             backlog # <<>> => backlog' # <<>>
      PROVE  InputsConsistent'
  <2>1. \A s \in Slots : Ahead(s)' => Ahead(s)
    BY <1>4 DEF Ahead, loopVars
  <2>2. \A s \in Slots : sockets[s].fd # NoFd => sockets[s].fd \in Conns
    BY <1>2 DEF Pollfds
  <2>3. \A s \in Slots : sockets'[s] = sockets[s]
    BY <1>4 DEF loopVars
  <2>4. \A s \in Slots : Ahead(s)' /\ sockets'[s].fd # NoFd /\ sockets'[s].pollin =>
          peer'[sockets'[s].fd] \in {"sending", "request", "last", "closed"}
    BY <1>3, <1>4, <2>1, <2>2, <2>3 DEF HasInput
  <2>5. pc' = "listening" /\ acceptable' => backlog' # <<>>
    BY <1>3, <1>4 DEF loopVars
  <2> QED BY <2>4, <2>5 DEF InputsConsistent, HasInput
\* The loop goes on in the same round.
<1>5. ASSUME pc' = "clients",
             \A s \in Slots :
               Ahead(s)' /\ sockets'[s].fd # NoFd /\ sockets'[s].pollin =>
                 /\ Ahead(s) /\ sockets'[s] = sockets[s]
                 /\ peer'[sockets[s].fd] = peer[sockets[s].fd]
      PROVE  InputsConsistent'
  BY <1>3, <1>5 DEF InputsConsistent, HasInput
<1>6. ASSUME NEW c \in Conns, Connect(c) PROVE InputsConsistent'
  <2>1. \A d \in Conns : HasInput(d) => HasInput(d)'
    BY <1>2, <1>6 DEF Connect, HasInput
  <2>2. backlog' # <<>>
    BY <1>2, <1>6 DEF Connect
  <2> QED BY <1>4, <1>6, <2>1, <2>2 DEF Connect
<1>7. ASSUME NEW c \in Conns, StartRequest(c) \/ CompleteRequest(c) \/ Disconnect(c)
      PROVE  InputsConsistent'
  <2>1. \A d \in Conns : HasInput(d) => HasInput(d)'
    BY <1>2, <1>7 DEF StartRequest, CompleteRequest, Disconnect, HasInput
  <2>2. UNCHANGED <<loopVars, backlog>>
    BY <1>7 DEF StartRequest, CompleteRequest, Disconnect
  <2> QED BY <1>4, <2>1, <2>2
<1>8. CASE Poll
  <2>1. \A s \in Slots : s <= client_sockets_count /\ sockets'[s].fd # NoFd /\ sockets'[s].pollin =>
          sockets'[s].fd = sockets[s].fd /\ peer[sockets[s].fd] \in {"sending", "request", "last", "closed"}
    BY <1>2, <1>8 DEF Poll, Pollfds, HasInput
  <2>2. /\ UNCHANGED <<client_sockets_count, peer, backlog>>
        /\ acceptable' = (backlog # <<>>)
    BY <1>8 DEF Poll
  <2>3. \A s \in Slots : Ahead(s)' => s <= client_sockets_count
    BY <2>2 DEF Ahead
  <2> QED BY <2>1, <2>2, <2>3 DEF InputsConsistent, HasInput
<1>9. CASE Accept
  <2>1. /\ pc = "listening" /\ pc' = "clients" /\ UNCHANGED peer
        /\ client_sockets_count' = client_sockets_count + 1
        /\ client_sockets_count + 1 \in Slots
        /\ sockets' = [sockets EXCEPT ![client_sockets_count + 1] =
                         [fd |-> Head(backlog), pollin |-> FALSE]]
    BY <1>2, <1>9 DEF Accept, HasRoom, Slots
  <2>2. /\ ~sockets'[client_sockets_count + 1].pollin
        /\ \A s \in Slots : s # client_sockets_count + 1 => sockets'[s] = sockets[s]
    BY <1>2, <2>1
  <2>3. \A s \in Slots : Ahead(s)' /\ s # client_sockets_count + 1 => Ahead(s)
    BY <1>2, <2>1 DEF Ahead
  <2> QED BY <1>5, <2>1, <2>2, <2>3
<1>10. CASE AcceptFails
  <2>1. /\ pc = "listening" /\ pc' = "clients" /\ UNCHANGED <<peer, client_sockets_count>>
        /\ client_sockets_count + 1 \in Slots
        /\ sockets' = [sockets EXCEPT ![client_sockets_count + 1].fd = NoFd]
    BY <1>2, <1>10 DEF AcceptFails, HasRoom, Slots
  <2>2. \A s \in Slots : s # client_sockets_count + 1 => sockets'[s] = sockets[s]
    BY <1>2, <2>1
  <2>3. \A s \in Slots : Ahead(s)' => Ahead(s) /\ s # client_sockets_count + 1
    BY <1>2, <2>1 DEF Ahead
  <2> QED BY <1>5, <2>1, <2>2, <2>3
<1>11. CASE SkipAccept
  <2>1. pc = "listening" /\ pc' = "clients" /\ UNCHANGED <<sockets, peer, client_sockets_count, i>>
    BY <1>11 DEF SkipAccept
  <2>2. \A s \in Slots : Ahead(s)' => Ahead(s)
    BY <2>1 DEF Ahead
  <2> QED BY <1>5, <2>1, <2>2
<1>12. CASE SkipClient
  <2>1. /\ pc = "clients" /\ pc' = "clients" /\ i' = i + 1
        /\ UNCHANGED <<sockets, peer, client_sockets_count>>
    BY <1>12 DEF SkipClient, AtClient
  <2>2. \A s \in Slots : Ahead(s)' => Ahead(s)
    BY <1>2, <2>1 DEF Ahead
  <2> QED BY <1>5, <2>1, <2>2
<1>13. CASE HandleRequest \/ HandleFails
  <2>1. /\ pc = "clients" /\ pc' = "clients" /\ i' = i + 1 /\ i \in Slots
        /\ sockets[i].fd # NoFd /\ UNCHANGED client_sockets_count
    BY <1>2, <1>13 DEF HandleRequest, HandleFails, Handling, AtClient, Slots
  <2>2. \A s \in Slots : Ahead(s)' => Ahead(s) /\ s # i
    BY <1>2, <2>1 DEF Ahead
  <2>3. \A s \in Slots : s # i => sockets'[s] = sockets[s]
    BY <1>2, <1>13, <2>1 DEF HandleRequest, HandleFails
  <2>4. \A s \in Slots : s # i /\ sockets[s].fd # NoFd =>
          sockets[s].fd \in Conns /\ sockets[s].fd # sockets[i].fd
    BY <1>2, <2>1 DEF Pollfds
  <2>5. \A d \in Conns : d # sockets[i].fd => peer'[d] = peer[d]
    BY <1>2, <1>13 DEF HandleRequest, HandleFails
  <2> QED BY <1>5, <2>1, <2>2, <2>3, <2>4, <2>5
<1>14. CASE EndRound
  <2>1. pc' = "poll"
    BY <1>14 DEF EndRound
  <2> QED BY <2>1 DEF InputsConsistent, Ahead
<1>15. CASE Interrupt
  BY <1>15 DEF Interrupt
<1>16. CASE UNCHANGED vars
  <2>1. \A d \in Conns : HasInput(d) => HasInput(d)'
    BY <1>16 DEF vars, HasInput
  <2> QED BY <1>4, <1>16, <2>1 DEF vars
<1> QED BY <1>6, <1>7, <1>8, <1>9, <1>10, <1>11, <1>12, <1>13, <1>14, <1>15, <1>16
        DEF Next, Clients, Loop

\* The server starts with the listening socket alone (network_server.c:174-184).
LEMMA InvariantInit == Init => IInv
<1> SUFFICES ASSUME Init PROVE IInv
  OBVIOUS
<1>1. \A s \in Slots : sockets[s] = [fd |-> NoFd, pollin |-> FALSE]
  BY DEF Init
<1>2. TypeOK /\ i = 1 /\ ~some_fds_closed /\ pc = "poll"
  <2>1. sockets \in [Slots -> Pollfds]
    BY DEF Init, Pollfds
  <2>2. peer \in [Conns -> PeerStates]
    BY DEF Init, PeerStates
  <2>3. acceptable \in BOOLEAN /\ some_fds_closed \in BOOLEAN /\ ~some_fds_closed
    BY Zenon DEF Init
  <2>4. /\ pc = "poll" /\ i = 1 /\ backlog \in Seq(Conns)
        /\ i \in 1 .. MAX_CLIENT_SOCKETS + 1
        /\ client_sockets_count \in 0 .. MAX_CLIENT_SOCKETS
    BY NetworkServerAssumption DEF Init
  <2> QED BY <2>1, <2>2, <2>3, <2>4 DEF TypeOK
<1>3. Connected = {}
  BY <1>1 DEF Connected
<1>4. backlog = <<>> /\ ToSet(backlog) = {} /\ IsInjective(backlog)
  BY DEF Init, ToSet, IsInjective
<1>5. PlacesConsistent
  BY <1>1, <1>3, <1>4 DEF Init, PlacesConsistent
<1>6. InputsConsistent
  BY <1>1, <1>2 DEF InputsConsistent
<1> QED BY <1>2, <1>5, <1>6 DEF IInv

\* Every step of the clients and of the loop keeps the invariant.
LEMMA InvariantNext == IInv /\ [Next]_vars => IInv'
<1> SUFFICES ASSUME IInv, [Next]_vars PROVE IInv'
  OBVIOUS
<1>1. LoopTypes'
  BY TypesNext
<1>2. pc' # "returned" => PlacesConsistent' /\ InputsConsistent'
  BY PlacesNext, InputsNext
<1> QED BY <1>1, <1>2 DEF IInv, LoopTypes

-----------------------------------------------------------------------------
(* The theorems.                                                           *)

\* The places, the count and the requests of the loop agree in every state
\* (network_server.c:63-171).
THEOREM InvariantHolds == Spec => []IInv
<1>1. Init => IInv
  BY InvariantInit
<1>2. IInv /\ [Next]_vars => IInv'
  BY InvariantNext
<1> QED BY <1>1, <1>2, PTL DEF Spec

\* The count and the index of the loop never leave the array of descriptors
\* (network_server.c:72, 113-116, 126-171).
THEOREM TypesCorrect == Spec => []TypeOK
<1>1. IInv => TypeOK
  BY DEF IInv
<1> QED BY <1>1, InvariantHolds, PTL

\* Every open connection waits to be accepted or has one place that poll looks at,
\* however sockets close and places move.
THEOREM ConnectionsPolled == Spec => []EveryConnectionPolled
<1>1. IInv => EveryConnectionPolled
  <2> SUFFICES ASSUME IInv, pc # "returned", NEW c \in Conns
               PROVE  IF peer[c] = "none" \/ c \in ToSet(backlog)
                      THEN {s \in Slots : sockets[s].fd = c} = {}
                      ELSE \E s \in 1 .. client_sockets_count :
                             {t \in Slots : sockets[t].fd = c} = {s}
    BY DEF EveryConnectionPolled
  <2>1. c # NoFd
    BY NetworkServerAssumption
  <2>2. /\ client_sockets_count \in 0 .. MAX_CLIENT_SOCKETS
        /\ \A s \in Slots : s > client_sockets_count => sockets[s].fd = NoFd
        /\ \A s, t \in Slots : sockets[s].fd = sockets[t].fd /\ sockets[s].fd # NoFd => s = t
        /\ \A s \in Slots : sockets[s].fd # NoFd => sockets[s].fd \notin ToSet(backlog)
        /\ peer[c] # "none" <=> c \in ToSet(backlog) \/ \E s \in Slots : sockets[s].fd = c
    BY PlacesParts DEF Distinct
  <2>3. CASE peer[c] = "none" \/ c \in ToSet(backlog)
    BY <2>1, <2>2, <2>3
  <2>4. CASE ~(peer[c] = "none" \/ c \in ToSet(backlog))
    <3>1. PICK s \in Slots : sockets[s].fd = c
      BY <2>2, <2>4
    <3>2. s \in 1 .. client_sockets_count
      BY <2>1, <2>2, <3>1, NetworkServerAssumption DEF Slots
    <3>3. {t \in Slots : sockets[t].fd = c} = {s}
      BY <2>1, <2>2, <3>1
    <3> QED BY <2>4, <3>2, <3>3
  <2> QED BY <2>3, <2>4
<1> QED BY <1>1, InvariantHolds, PTL

\* The loop never begins a blocking read on a socket that has nothing to read.
THEOREM NoBlockingRead == Spec => []ReadsOnlyWithInput
<1>1. IInv => ReadsOnlyWithInput
  <2> SUFFICES ASSUME IInv, Handling PROVE HasInput(sockets[i].fd)
    BY DEF ReadsOnlyWithInput
  <2>1. pc = "clients" /\ i <= client_sockets_count /\ sockets[i].fd # NoFd /\ sockets[i].pollin
    BY DEF Handling, AtClient
  <2>2. i \in Slots
    BY <2>1, NetworkServerAssumption DEF IInv, TypeOK, Slots
  <2>3. Ahead(i)
    BY <2>1, <2>2 DEF Ahead, Slots
  <2> QED BY <2>1, <2>2, <2>3 DEF IInv, InputsConsistent
<1> QED BY <1>1, InvariantHolds, PTL

\* The array never loses more than its first place to closed sockets.
THEOREM PlacesNotLost == Spec => []AtMostOnePlaceLost
<1>1. IInv => AtMostOnePlaceLost
  BY DEF IInv, PlacesConsistent, AtMostOnePlaceLost
<1> QED BY <1>1, InvariantHolds, PTL

\* No step changes the order of two connections that stay in the array.
THEOREM OrderKept == Spec => AcceptanceOrderKept
<1> DEFINE Kept ==
      \A s, t \in Slots :
        s < t /\ {sockets[s].fd, sockets[t].fd} \subseteq Connected \cap Connected' =>
          \E m, n \in Slots : /\ m < n
                              /\ sockets'[m].fd = sockets[s].fd
                              /\ sockets'[n].fd = sockets[t].fd
<1>1. IInv /\ [Next]_vars => [Kept]_vars
  <2> SUFFICES ASSUME IInv, Next,
                      NEW s \in Slots, NEW t \in Slots, s < t,
                      sockets[s].fd \in Connected, sockets[t].fd \in Connected,
                      sockets[s].fd \in Connected', sockets[t].fd \in Connected'
               PROVE  \E m, n \in Slots : /\ m < n
                                          /\ sockets'[m].fd = sockets[s].fd
                                          /\ sockets'[n].fd = sockets[t].fd
    BY DEF Kept
  <2>1. /\ sockets[s].fd # NoFd /\ sockets[t].fd # NoFd
        /\ \E m \in Slots : sockets'[m].fd = sockets[s].fd
        /\ \E m \in Slots : sockets'[m].fd = sockets[t].fd
        /\ sockets \in [Slots -> Pollfds] /\ MAX_CLIENT_SOCKETS \in Nat
        /\ client_sockets_count \in Nat
    BY NetworkServerAssumption DEF Connected, IInv, TypeOK
  <2>2. CASE Clients \/ SkipAccept \/ SkipClient \/ HandleRequest \/ Interrupt
    <3>1. UNCHANGED sockets
      BY <2>2 DEF Clients, Connect, StartRequest, CompleteRequest, Disconnect, loopVars,
                  SkipAccept, SkipClient, HandleRequest, Interrupt
    <3> QED BY <3>1
  <2>3. CASE Poll
    <3>1. sockets'[s].fd = sockets[s].fd /\ sockets'[t].fd = sockets[t].fd
      BY <2>1, <2>3 DEF Poll, Pollfds
    <3> QED BY <3>1
  <2>4. CASE Accept \/ AcceptFails
    <3>1. s # client_sockets_count + 1 /\ t # client_sockets_count + 1
      BY <2>1, <2>4, PlacesParts DEF Accept, AcceptFails
    <3>2. sockets'[s] = sockets[s] /\ sockets'[t] = sockets[t]
      BY <2>1, <2>4, <3>1 DEF Accept, AcceptFails
    <3> QED BY <3>2
  <2>5. CASE HandleFails
    <3>1. i \in Slots /\ pc # "returned"
      BY <2>1, <2>5 DEF HandleFails, Handling, AtClient, IInv, TypeOK, Slots
    <3>2. /\ sockets'[i].fd = NoFd
          /\ \A m \in Slots : m # i => sockets'[m] = sockets[m]
      BY <2>1, <2>5, <3>1 DEF HandleFails, Pollfds
    <3>3. \A m, n \in Slots : sockets[m].fd = sockets[n].fd /\ sockets[m].fd # NoFd => m = n
      BY <3>1, PlacesParts DEF Distinct
    <3>4. s # i /\ t # i
      BY <2>1, <3>1, <3>2, <3>3
    <3> QED BY <3>2, <3>4
  <2>6. CASE EndRound
    <3>1. SameOrder(sockets, Compacted.slots)
      BY <2>1, CompactedArray DEF Arrays, Keeps
    <3>2. sockets' = sockets \/ sockets' = Compacted.slots
      BY <2>6 DEF EndRound
    <3>3. \E m, n \in Slots : /\ m < n /\ Compacted.slots[m].fd = sockets[s].fd
                              /\ Compacted.slots[n].fd = sockets[t].fd
      BY <2>1, <3>1 DEF SameOrder
    <3>4. CASE sockets' = Compacted.slots
      BY <3>3, <3>4
    <3>5. CASE sockets' = sockets
      BY <3>5
    <3> QED BY <3>2, <3>4, <3>5
  <2> QED BY <2>2, <2>3, <2>4, <2>5, <2>6 DEF Next, Loop
<1>2. Spec => [][Kept]_vars
  BY <1>1, InvariantHolds, PTL DEF Spec
<1> QED BY <1>2 DEF AcceptanceOrderKept
=============================================================================
