--------------------------- MODULE FramingProofs ---------------------------
(***************************************************************************)
(* Proofs about Framing for every set of messages, every number of values  *)
(* of a byte and every size of an int: the receiver reads the size that    *)
(* the sender wrote, no byte is lost or repeated however write and read    *)
(* cut the stream, and the two functions implement MessageChannel.         *)
(***************************************************************************)
EXTENDS Framing, SequenceTheorems, WellFoundedInduction, TLAPS

-----------------------------------------------------------------------------
(* Recursive functions.                                                    *)

\* A set of naturals that is not empty has a least one.
LEMMA LeastNatural ==
  ASSUME NEW T, T \subseteq Nat, T # {}
  PROVE  \E n \in T : \A k \in T : n <= k
<1>1. \E n \in T : \A k \in T : <<k, n>> \notin OpToRel(<, Nat)
  BY WFMin, NatLessThanWellFounded, Zenon
<1>2. \E n \in T : \A k \in T : ~(k < n)
  BY <1>1, Zenon DEF OpToRel
<1> QED BY <1>2

\* What holds for 0 and is kept by every step up to last holds that far.
LEMMA StepInduction ==
  ASSUME NEW T, NEW last \in Nat, 0 \in T,
         \A n \in 1 .. last : n - 1 \in T => n \in T
  PROVE  \A n \in 0 .. last : n \in T
<1> DEFINE Missed == {n \in 0 .. last : n \notin T}
<1> SUFFICES ASSUME Missed # {} PROVE FALSE
  OBVIOUS
<1>1. PICK n \in Missed : \A k \in Missed : n <= k
  <2>1. Missed \subseteq Nat
    OBVIOUS
  <2> QED BY <2>1, LeastNatural
<1>2. n \in Nat /\ n # 0 /\ n <= last /\ n \notin T
  OBVIOUS
<1>3. n \in 1 .. last /\ n - 1 \in 0 .. last /\ n - 1 < n
  BY <1>2
<1>4. n - 1 \in T
  BY <1>1, <1>2, <1>3
<1> QED BY <1>2, <1>3, <1>4

\* The values of a loop: the first, and what each step makes of the one before.
Steps(f, first, step, last) ==
  f[0] = first /\ \A n \in 1 .. last : f[n] = step[n][f[n - 1]]

\* They exist, whatever the steps are.
LEMMA StepsExist ==
  ASSUME NEW V, NEW last \in Nat, NEW first \in V, NEW step \in [1 .. last -> [V -> V]]
  PROVE  \E f \in [0 .. last -> V] : Steps(f, first, step, last)
<1> DEFINE Upto(m) == \E f \in [0 .. m -> V] : Steps(f, first, step, m)
           T == {m \in Nat : Upto(m)}
<1>1. Upto(0)
  <2>1. Steps([n \in 0 .. 0 |-> first], first, step, 0)
    BY DEF Steps
  <2>2. [n \in 0 .. 0 |-> first] \in [0 .. 0 -> V]
    OBVIOUS
  <2> QED BY <2>1, <2>2
<1>2. ASSUME NEW m \in 1 .. last, Upto(m - 1) PROVE Upto(m)
  <2>1. PICK f \in [0 .. m - 1 -> V] : Steps(f, first, step, m - 1)
    BY <1>2
  <2> DEFINE g == [n \in 0 .. m |-> IF n = m THEN step[m][f[m - 1]] ELSE f[n]]
  <2>2. /\ f[0] \in V /\ f[m - 1] \in V /\ step[m] \in [V -> V]
        /\ step[m][f[m - 1]] \in V
    OBVIOUS
  <2>3. g \in [0 .. m -> V]
    BY <2>2
  <2>4. /\ g[m] = step[m][f[m - 1]]
        /\ \A n \in 0 .. m - 1 : g[n] = f[n]
    OBVIOUS
  <2> HIDE DEF g
  <2>5. g[0] = first
    BY <2>1, <2>4 DEF Steps
  <2>6. ASSUME NEW n \in 1 .. m PROVE g[n] = step[n][g[n - 1]]
    <3>1. n - 1 \in 0 .. m - 1 /\ g[n - 1] = f[n - 1]
      BY <2>4
    <3>2. CASE n = m
      BY <2>4, <3>1, <3>2
    <3>3. CASE n # m
      <4>1. n \in 1 .. m - 1 /\ n \in 0 .. m - 1
        BY <3>3
      <4> QED BY <2>1, <2>4, <3>1, <4>1 DEF Steps
    <3> QED BY <3>2, <3>3
  <2> QED BY <2>3, <2>5, <2>6 DEF Steps
<1> HIDE DEF Upto
<1>3. 0 \in T /\ \A m \in 1 .. last : m - 1 \in T => m \in T
  BY <1>1, <1>2
<1> HIDE DEF T
<1>4. last \in T
  <2>1. \A m \in 0 .. last : m \in T
    BY <1>3, StepInduction
  <2> QED BY <2>1
<1>5. Upto(last)
  BY <1>4 DEF T
<1> QED BY <1>5 DEF Upto

-----------------------------------------------------------------------------
(* The size of a message.                                                  *)

\* Power is the function that its equation says.
LEMMA PowerValues ==
  /\ Power \in [0 .. SizeOfInt -> Nat \ {0}]
  /\ Power[0] = 1
  /\ \A n \in 1 .. SizeOfInt : Power[n] = Radix * Power[n - 1]
<1> DEFINE V == Nat \ {0}
           step == [n \in 1 .. SizeOfInt |-> [v \in V |-> Radix * v]]
           Equation(f) == f = [n \in 0 .. SizeOfInt |-> IF n = 0 THEN 1 ELSE Radix * f[n - 1]]
<1>1. SizeOfInt \in Nat /\ Radix \in Nat /\ Radix > 1
  BY FramingAssumption
<1>2. \A v \in V : Radix * v \in V
  BY <1>1
<1> HIDE DEF V
<1>3. step \in [1 .. SizeOfInt -> [V -> V]] /\ 1 \in V
  BY <1>2 DEF V
<1>4. \A n \in 1 .. SizeOfInt : \A v \in V : step[n][v] = Radix * v
  OBVIOUS
<1> HIDE DEF step
<1>5. PICK f \in [0 .. SizeOfInt -> V] : Steps(f, 1, step, SizeOfInt)
  BY <1>1, <1>3, StepsExist
<1>6. f[0] = 1 /\ \A n \in 1 .. SizeOfInt : f[n] = Radix * f[n - 1]
  <2>1. \A n \in 1 .. SizeOfInt : n - 1 \in 0 .. SizeOfInt /\ f[n - 1] \in V
    BY <1>1
  <2> QED BY <1>4, <1>5, <2>1 DEF Steps
<1>7. Equation(f)
  <2>1. \A n \in 0 .. SizeOfInt : n # 0 => n \in 1 .. SizeOfInt
    BY <1>1
  <2>2. \A n \in 0 .. SizeOfInt : f[n] = IF n = 0 THEN 1 ELSE Radix * f[n - 1]
    BY <1>6, <2>1
  <2> QED BY <2>2
<1> HIDE DEF Equation
<1>8. Power = CHOOSE g : Equation(g)
  BY DEF Power, Equation
<1>9. Equation(Power)
  BY <1>7, <1>8, Zenon
<1>10. \A n \in 0 .. SizeOfInt : Power[n] = IF n = 0 THEN 1 ELSE Radix * Power[n - 1]
  BY <1>9, Zenon DEF Equation
<1> DEFINE T == {n \in 0 .. SizeOfInt : Power[n] \in V}
<1>11. Power[0] = 1 /\ \A n \in 1 .. SizeOfInt : Power[n] = Radix * Power[n - 1]
  BY <1>1, <1>10
<1>12. \A n \in 0 .. SizeOfInt : n \in T
  <2>1. 0 \in T
    BY <1>1, <1>3, <1>11
  <2>2. \A n \in 1 .. SizeOfInt : n - 1 \in T => n \in T
    BY <1>2, <1>11
  <2> HIDE DEF T
  <2> QED BY <1>1, <2>1, <2>2, StepInduction
<1>13. Power \in [0 .. SizeOfInt -> V]
  <2>1. \A n \in 0 .. SizeOfInt : Power[n] \in V
    BY <1>12
  <2>2. Power = [n \in 0 .. SizeOfInt |-> Power[n]]
    BY <1>9 DEF Equation
  <2> QED BY <2>1, <2>2
<1> QED BY <1>11, <1>13 DEF V

\* What is left after a division.
LEMMA Division ==
  ASSUME NEW k \in Nat, NEW a \in Nat \ {0}
  PROVE  /\ k \div a \in Nat /\ k % a \in 0 .. a - 1
         /\ k % a = k - a * (k \div a)
<1> DEFINE q == k \div a
           r == k % a
<1>1. r = k - a * q /\ r \in 0 .. a - 1 /\ q \in Int
  OBVIOUS
<1> HIDE DEF q, r
<1>2. k = a * q + r
  BY <1>1
<1>3. q >= 0
  <2> SUFFICES ASSUME q < 0 PROVE FALSE
    BY <1>1
  <2>1. q + 1 <= 0 /\ r < a
    BY <1>1
  <2>2. a * (q + 1) <= 0
    BY <1>1, <2>1
  <2>3. a * (q + 1) = a * q + a
    BY <1>1
  <2> QED BY <1>1, <1>2, <2>1, <2>2, <2>3
<1> QED BY <1>1, <1>2, <1>3 DEF q, r

\* A quotient is known by the multiples that it lies between.
LEMMA QuotientIs ==
  ASSUME NEW k \in Nat, NEW a \in Nat \ {0}, NEW q \in Nat, a * q <= k, k < a * (q + 1)
  PROVE  k \div a = q
<1> DEFINE p == k \div a
<1>1. p \in Nat /\ a * p <= k /\ k < a * p + a
  BY Division
<1> HIDE DEF p
<1>2. a * (q + 1) = a * q + a
  OBVIOUS
<1>3. CASE p < q
  <2>1. p + 1 <= q
    BY <1>1, <1>3
  <2>2. a * (p + 1) <= a * q
    BY <1>1, <2>1
  <2>3. a * (p + 1) = a * p + a
    BY <1>1
  <2> QED BY <1>1, <2>2, <2>3
<1>4. CASE q < p
  <2>1. q + 1 <= p
    BY <1>1, <1>4
  <2>2. a * (q + 1) <= a * p
    BY <1>1, <2>1
  <2> QED BY <1>1, <2>2
<1>5. p = q
  BY <1>1, <1>3, <1>4
<1> QED BY <1>5 DEF p

\* Dividing twice is dividing by the product.
LEMMA DivideTwice ==
  ASSUME NEW k \in Nat, NEW a \in Nat \ {0}, NEW r \in Nat \ {0}
  PROVE  k \div (r * a) = (k \div a) \div r
<1> DEFINE q == k \div a
           c == q \div r
<1>1. q \in Nat /\ a * q <= k /\ k < a * q + a
  BY Division
<1> HIDE DEF q
<1>2. c \in Nat /\ r * c <= q /\ q < r * c + r
  BY <1>1, Division
<1> HIDE DEF c
<1>3. r * a \in Nat \ {0}
  OBVIOUS
<1>4. (r * a) * c <= k
  <2>1. a * (r * c) <= a * q
    BY <1>1, <1>2
  <2>2. a * (r * c) = (r * a) * c
    BY <1>2
  <2>3. (r * a) * c \in Nat /\ a * q \in Nat
    BY <1>1, <1>2
  <2> QED BY <1>1, <2>1, <2>2, <2>3
<1>5. k < (r * a) * (c + 1)
  <2>1. q + 1 <= r * c + r
    BY <1>1, <1>2
  <2>2. a * (q + 1) <= a * (r * c + r)
    BY <1>1, <1>2, <2>1
  <2>3. a * (r * c + r) = (r * a) * (c + 1)
    BY <1>2
  <2>4. a * (q + 1) = a * q + a
    BY <1>1
  <2>5. (r * a) * (c + 1) \in Nat /\ a * q + a \in Nat
    BY <1>1, <1>2
  <2> QED BY <1>1, <2>2, <2>3, <2>4, <2>5
<1>6. k \div (r * a) = c
  BY <1>2, <1>3, <1>4, <1>5, QuotientIs
<1> QED BY <1>6 DEF c, q

Byte == 0 .. Radix - 1

\* The number that bytes make is computed byte by byte.
LEMMA UnsignedSteps ==
  ASSUME NEW bytes \in Bytes
  PROVE  \E u \in [0 .. Len(bytes) -> Nat] :
           /\ u[0] = 0
           /\ \A n \in 1 .. Len(bytes) : u[n] = u[n - 1] * Radix + bytes[n]
           /\ Unsigned(bytes) = u[Len(bytes)]
<1> DEFINE last == Len(bytes)
           step == [n \in 1 .. last |-> [v \in Nat |-> v * Radix + bytes[n]]]
           Equation(f) == f = [n \in 0 .. last |-> IF n = 0 THEN 0 ELSE f[n - 1] * Radix + bytes[n]]
<1>1. /\ last \in Nat /\ Radix \in Nat /\ \A n \in 1 .. last : bytes[n] \in Nat
  BY FramingAssumption DEF Bytes
<1>2. \A n \in 1 .. last : \A v \in Nat : v * Radix + bytes[n] \in Nat
  BY <1>1
<1>3. step \in [1 .. last -> [Nat -> Nat]]
  BY <1>2
<1>4. \A n \in 1 .. last : \A v \in Nat : step[n][v] = v * Radix + bytes[n]
  OBVIOUS
<1> HIDE DEF step
<1>5. Unsigned(bytes) = (CHOOSE f : Equation(f))[last]
  BY DEF Unsigned
<1> HIDE DEF last
<1>6. \E f \in [0 .. last -> Nat] : Steps(f, 0, step, last)
  BY <1>1, <1>3, StepsExist
<1>7. PICK f \in [0 .. last -> Nat] : Steps(f, 0, step, last)
  BY <1>6
<1>8. \A n \in 0 .. last : f[n] = IF n = 0 THEN 0 ELSE f[n - 1] * Radix + bytes[n]
  <2>1. \A n \in 0 .. last : n # 0 => n \in 1 .. last /\ f[n - 1] \in Nat
    BY <1>1
  <2>2. f[0] = 0 /\ \A n \in 1 .. last : f[n] = step[n][f[n - 1]]
    BY <1>7 DEF Steps
  <2> QED BY <1>4, <2>1, <2>2
<1>9. Equation(f)
  BY <1>8
<1> DEFINE g == CHOOSE h : Equation(h)
<1> HIDE DEF Equation
<1>10. Equation(g)
  BY <1>9, Zenon
<1> HIDE DEF g
<1>11. /\ DOMAIN g = 0 .. last
       /\ \A n \in 0 .. last : g[n] = IF n = 0 THEN 0 ELSE g[n - 1] * Radix + bytes[n]
  BY <1>10, Zenon DEF Equation
<1>12. g[0] = 0 /\ \A n \in 1 .. last : g[n] = g[n - 1] * Radix + bytes[n]
  BY <1>1, <1>11
<1>13. \A n \in 0 .. last : g[n] \in Nat
  <2> DEFINE T == {n \in 0 .. last : g[n] \in Nat}
  <2>1. 0 \in T
    BY <1>1, <1>12
  <2>2. ASSUME NEW n \in 1 .. last, n - 1 \in T PROVE n \in T
    <3>1. g[n - 1] \in Nat /\ bytes[n] \in Nat /\ g[n] = g[n - 1] * Radix + bytes[n]
      BY <1>1, <1>12, <2>2
    <3>2. g[n - 1] * Radix \in Nat
      BY <1>1, <3>1
    <3>3. g[n] \in Nat /\ n \in 0 .. last
      BY <1>1, <3>1, <3>2
    <3> QED BY <3>3
  <2> HIDE DEF T
  <2>3. \A n \in 0 .. last : n \in T
    BY <1>1, <2>1, <2>2, StepInduction
  <2> QED BY <2>3 DEF T
<1>14. g \in [0 .. last -> Nat]
  <2>1. g = [n \in 0 .. last |-> g[n]]
    BY <1>10 DEF Equation
  <2> QED BY <1>13, <2>1
<1> QED BY <1>5, <1>12, <1>14 DEF g, last

\* The bytes of a size are bytes, as many as an int has.
LEMMA SizeBytes ==
  ASSUME NEW k \in Nat
  PROVE  /\ htonl(k) \in Bytes /\ Len(htonl(k)) = SizeOfInt
         /\ \A n \in 1 .. SizeOfInt : htonl(k)[n] = (k \div Power[SizeOfInt - n]) % Radix
<1>1. SizeOfInt \in Nat /\ Radix \in Nat \ {0}
  BY FramingAssumption
<1>2. ASSUME NEW n \in 1 .. SizeOfInt
      PROVE  (k \div Power[SizeOfInt - n]) % Radix \in 0 .. Radix - 1
  <2>1. SizeOfInt - n \in 0 .. SizeOfInt
    BY <1>1
  <2>2. Power[SizeOfInt - n] \in Nat \ {0}
    BY <2>1, PowerValues
  <2>3. k \div Power[SizeOfInt - n] \in Nat
    BY <2>2, Division
  <2> QED BY <1>1, <2>3, Division
<1>3. htonl(k) \in [1 .. SizeOfInt -> 0 .. Radix - 1]
  BY <1>2 DEF htonl
<1> QED BY <1>1, <1>3 DEF htonl, Bytes

\* The receiver reads the size that the sender wrote, when it is not negative as an int.
LEMMA SizeRoundTrip ==
  ASSUME NEW k \in Nat, 2 * k < Power[SizeOfInt]
  PROVE  ntohl(htonl(k)) = k
<1> DEFINE b == htonl(k)
<1>1. /\ SizeOfInt \in Nat /\ Radix \in Nat \ {0}
      /\ b \in Bytes /\ Len(b) = SizeOfInt
      /\ \A n \in 1 .. SizeOfInt : b[n] = (k \div Power[SizeOfInt - n]) % Radix
  BY SizeBytes, FramingAssumption
<1> HIDE DEF b
<1>2. PICK u \in [0 .. SizeOfInt -> Nat] :
        /\ u[0] = 0
        /\ \A n \in 1 .. SizeOfInt : u[n] = u[n - 1] * Radix + b[n]
        /\ Unsigned(b) = u[SizeOfInt]
  BY <1>1, UnsignedSteps
<1> DEFINE T == {n \in 0 .. SizeOfInt : u[n] = k \div Power[SizeOfInt - n]}
<1>3. 0 \in T
  <2>1. Power[SizeOfInt] \in Nat \ {0}
    BY <1>1, PowerValues
  <2>2. k \div Power[SizeOfInt] = 0
    <3> DEFINE a == Power[SizeOfInt]
    <3>1. a \in Nat \ {0} /\ a * 0 <= k /\ k < a * (0 + 1)
      BY <2>1
    <3> HIDE DEF a
    <3>2. k \div a = 0
      BY <3>1, QuotientIs
    <3> QED BY <3>2 DEF a
  <2>3. SizeOfInt - 0 = SizeOfInt /\ 0 \in 0 .. SizeOfInt
    BY <1>1
  <2> QED BY <1>2, <2>2, <2>3
<1>4. ASSUME NEW n \in 1 .. SizeOfInt, n - 1 \in T PROVE n \in T
  <2> DEFINE a == Power[SizeOfInt - n]
             m == k \div a
  <2>1. a \in Nat \ {0} /\ Power[SizeOfInt - (n - 1)] = Radix * a
    <3>1. /\ SizeOfInt - n \in 0 .. SizeOfInt /\ SizeOfInt - (n - 1) \in 1 .. SizeOfInt
          /\ SizeOfInt - (n - 1) - 1 = SizeOfInt - n
      BY <1>1
    <3> QED BY <3>1, PowerValues
  <2> HIDE DEF a
  <2>2. u[n - 1] = k \div (Radix * a)
    BY <1>4, <2>1
  <2>3. k \div (Radix * a) = m \div Radix
    BY <1>1, <2>1, DivideTwice
  <2>4. b[n] = m % Radix
    BY <1>1 DEF a
  <2>5. m \in Nat
    BY <2>1, Division
  <2> HIDE DEF m
  <2> DEFINE d == m \div Radix
             e == m % Radix
  <2>6. d \in Nat /\ e = m - Radix * d
    BY <1>1, <2>5, Division
  <2>7. u[n - 1] = d /\ b[n] = e
    BY <2>2, <2>3, <2>4
  <2> HIDE DEF d, e
  <2>8. u[n] = m
    <3>1. u[n] = d * Radix + e
      BY <1>2, <2>7
    <3> QED BY <1>1, <2>5, <2>6, <3>1
  <2>9. n \in 0 .. SizeOfInt
    BY <1>1
  <2> QED BY <2>8, <2>9 DEF m, a
<1> HIDE DEF T
<1>5. \A n \in 0 .. SizeOfInt : n \in T
  BY <1>1, <1>3, <1>4, StepInduction
<1>6. u[SizeOfInt] = k
  <2>1. SizeOfInt \in T /\ SizeOfInt - SizeOfInt = 0
    BY <1>1, <1>5
  <2>2. u[SizeOfInt] = k \div Power[0]
    BY <2>1 DEF T
  <2>3. k \div 1 = k
    OBVIOUS
  <2> QED BY <2>2, <2>3, PowerValues
<1>7. Unsigned(b) = k
  BY <1>2, <1>6
<1>8. ntohl(b) = k
  BY <1>7 DEF ntohl
<1> QED BY <1>8 DEF b

-----------------------------------------------------------------------------
(* The bytes of messages.                                                  *)

\* Messages are bytes, and their size fits an int.
LEMMA MessageBytes ==
  ASSUME NEW m \in Payloads
  PROVE  /\ m \in Bytes /\ Len(m) \in Nat
         /\ htonl(Len(m)) \in Bytes /\ Len(htonl(Len(m))) = SizeOfInt
         /\ ntohl(htonl(Len(m))) = Len(m)
         /\ Frame(m) \in Bytes
<1>1. m \in Bytes /\ Len(m) \in Nat /\ 2 * Len(m) < Power[SizeOfInt]
  BY FramingAssumption DEF Bytes
<1>2. htonl(Len(m)) \in Bytes /\ Len(htonl(Len(m))) = SizeOfInt
  BY <1>1, SizeBytes
<1>3. Frame(m) \in Bytes
  BY <1>1, <1>2 DEF Frame, Bytes
<1> QED BY <1>1, <1>2, <1>3, SizeRoundTrip

\* The stream of a sequence of messages is made message by message.
LEMMA StreamSteps ==
  ASSUME NEW q \in Seq(Payloads)
  PROVE  \E u \in [0 .. Len(q) -> Bytes] :
           /\ u[0] = <<>>
           /\ \A n \in 1 .. Len(q) : u[n] = u[n - 1] \o Frame(q[n])
           /\ Stream(q) = u[Len(q)]
<1> DEFINE last == Len(q)
           step == [n \in 1 .. last |-> [v \in Bytes |-> v \o Frame(q[n])]]
           Equation(f) == f = [n \in 0 .. last |-> IF n = 0 THEN <<>> ELSE f[n - 1] \o Frame(q[n])]
<1>1. last \in Nat /\ \A n \in 1 .. last : q[n] \in Payloads
  OBVIOUS
<1>2. \A n \in 1 .. last : \A v \in Bytes : v \o Frame(q[n]) \in Bytes
  <2> SUFFICES ASSUME NEW n \in 1 .. last, NEW v \in Bytes PROVE v \o Frame(q[n]) \in Bytes
    OBVIOUS
  <2>1. Frame(q[n]) \in Bytes
    BY <1>1, MessageBytes
  <2> QED BY <2>1 DEF Bytes
<1>3. step \in [1 .. last -> [Bytes -> Bytes]] /\ <<>> \in Bytes
  BY <1>2 DEF Bytes
<1>4. \A n \in 1 .. last : \A v \in Bytes : step[n][v] = v \o Frame(q[n])
  OBVIOUS
<1> HIDE DEF step
<1>5. Stream(q) = (CHOOSE f : Equation(f))[last]
  BY DEF Stream
<1> HIDE DEF last
<1>6. \E f \in [0 .. last -> Bytes] : Steps(f, <<>>, step, last)
  BY <1>1, <1>3, StepsExist
<1>7. PICK f \in [0 .. last -> Bytes] : Steps(f, <<>>, step, last)
  BY <1>6
<1>8. \A n \in 0 .. last : f[n] = IF n = 0 THEN <<>> ELSE f[n - 1] \o Frame(q[n])
  <2>1. \A n \in 0 .. last : n # 0 => n \in 1 .. last /\ f[n - 1] \in Bytes
    BY <1>1
  <2>2. f[0] = <<>> /\ \A n \in 1 .. last : f[n] = step[n][f[n - 1]]
    BY <1>7 DEF Steps
  <2> QED BY <1>4, <2>1, <2>2
<1>9. Equation(f)
  BY <1>8
<1> DEFINE g == CHOOSE h : Equation(h)
<1> HIDE DEF Equation
<1>10. Equation(g)
  BY <1>9, Zenon
<1> HIDE DEF g
<1>11. /\ DOMAIN g = 0 .. last
       /\ \A n \in 0 .. last : g[n] = IF n = 0 THEN <<>> ELSE g[n - 1] \o Frame(q[n])
  BY <1>10, Zenon DEF Equation
<1>12. g[0] = <<>> /\ \A n \in 1 .. last : g[n] = g[n - 1] \o Frame(q[n])
  BY <1>1, <1>11
<1>13. \A n \in 0 .. last : g[n] \in Bytes
  <2> DEFINE T == {n \in 0 .. last : g[n] \in Bytes}
  <2>1. 0 \in T
    BY <1>1, <1>3, <1>12
  <2>2. ASSUME NEW n \in 1 .. last, n - 1 \in T PROVE n \in T
    <3>1. g[n - 1] \in Bytes /\ g[n] = g[n - 1] \o Frame(q[n]) /\ n \in 0 .. last
      BY <1>1, <1>12, <2>2
    <3>2. g[n] \in Bytes
      BY <1>2, <3>1
    <3> QED BY <3>1, <3>2
  <2> HIDE DEF T
  <2>3. \A n \in 0 .. last : n \in T
    BY <1>1, <2>1, <2>2, StepInduction
  <2> QED BY <2>3 DEF T
<1>14. g \in [0 .. last -> Bytes]
  <2>1. g = [n \in 0 .. last |-> g[n]]
    BY <1>10 DEF Equation
  <2> QED BY <1>13, <2>1
<1> QED BY <1>5, <1>12, <1>14 DEF g, last

\* The stream of a prefix is one of the values on the way.
LEMMA StreamOfPrefix ==
  ASSUME NEW p \in Seq(Payloads), NEW q \in Seq(Payloads), IsPrefix(p, q)
  PROVE  \E u \in [0 .. Len(q) -> Bytes] :
           /\ \A n \in 1 .. Len(q) : u[n] = u[n - 1] \o Frame(q[n])
           /\ Stream(p) = u[Len(p)] /\ Stream(q) = u[Len(q)]
<1>1. /\ Len(p) \in Nat /\ Len(q) \in Nat /\ Len(p) <= Len(q)
      /\ \A n \in 1 .. Len(p) : p[n] = q[n]
  BY DEF IsPrefix
<1>2. PICK u \in [0 .. Len(q) -> Bytes] :
        /\ u[0] = <<>>
        /\ \A n \in 1 .. Len(q) : u[n] = u[n - 1] \o Frame(q[n])
        /\ Stream(q) = u[Len(q)]
  BY StreamSteps
<1>3. PICK v \in [0 .. Len(p) -> Bytes] :
        /\ v[0] = <<>>
        /\ \A n \in 1 .. Len(p) : v[n] = v[n - 1] \o Frame(p[n])
        /\ Stream(p) = v[Len(p)]
  BY StreamSteps
<1> DEFINE T == {n \in 0 .. Len(p) : u[n] = v[n]}
<1>4. 0 \in T
  BY <1>1, <1>2, <1>3
<1>5. ASSUME NEW n \in 1 .. Len(p), n - 1 \in T PROVE n \in T
  <2>1. n \in 1 .. Len(q) /\ n \in 0 .. Len(p)
    BY <1>1
  <2>2. u[n] = u[n - 1] \o Frame(q[n]) /\ v[n] = v[n - 1] \o Frame(p[n])
    BY <1>2, <1>3, <2>1
  <2>3. u[n - 1] = v[n - 1] /\ p[n] = q[n]
    BY <1>1, <1>5
  <2> QED BY <2>1, <2>2, <2>3
<1> HIDE DEF T
<1>6. Len(p) \in T
  <2>1. \A n \in 0 .. Len(p) : n \in T
    BY <1>1, <1>4, <1>5, StepInduction
  <2> QED BY <1>1, <2>1
<1>7. Stream(p) = u[Len(p)]
  BY <1>3, <1>6 DEF T
<1> QED BY <1>2, <1>7

\* Streams are bytes; that of no message is empty.
LEMMA StreamBytes ==
  ASSUME NEW q \in Seq(Payloads)
  PROVE  Stream(q) \in Bytes /\ (q = <<>> => Stream(q) = <<>>)
<1>1. PICK u \in [0 .. Len(q) -> Bytes] : u[0] = <<>> /\ Stream(q) = u[Len(q)]
  BY StreamSteps
<1>2. Len(q) \in 0 .. Len(q) /\ (q = <<>> => Len(q) = 0)
  OBVIOUS
<1> QED BY <1>1, <1>2

\* One more message makes its bytes.
LEMMA StreamAppend ==
  ASSUME NEW q \in Seq(Payloads), NEW m \in Payloads
  PROVE  /\ Append(q, m) \in Seq(Payloads)
         /\ Stream(Append(q, m)) = Stream(q) \o Frame(m)
<1> DEFINE r == Append(q, m)
<1>1. /\ r \in Seq(Payloads) /\ Len(r) = Len(q) + 1 /\ r[Len(q) + 1] = m
      /\ Len(q) \in Nat
      /\ IsPrefix(q, r)
  BY DEF IsPrefix
<1> HIDE DEF r
<1>2. PICK u \in [0 .. Len(r) -> Bytes] :
        /\ \A n \in 1 .. Len(r) : u[n] = u[n - 1] \o Frame(r[n])
        /\ Stream(q) = u[Len(q)] /\ Stream(r) = u[Len(r)]
  BY <1>1, StreamOfPrefix
<1>3. Len(r) \in 1 .. Len(r) /\ Len(r) - 1 = Len(q) /\ r[Len(r)] = m
  BY <1>1
<1>4. u[Len(r)] = u[Len(r) - 1] \o Frame(r[Len(r)])
  BY <1>2, <1>3
<1>5. Stream(r) = Stream(q) \o Frame(m)
  BY <1>2, <1>3, <1>4
<1> QED BY <1>1, <1>5 DEF r

\* Bytes joined are bytes; they can be joined in any order.
LEMMA BytesConcat ==
  ASSUME NEW a, NEW b,
         a \in Bytes /\ b \in Bytes
  PROVE  a \o b \in Bytes /\ Len(a \o b) = Len(a) + Len(b)
BY ConcatProperties DEF Bytes

\* No byte joined to some changes nothing.
LEMMA BytesEmpty ==
  ASSUME NEW a,
         a \in Bytes
  PROVE  a \o <<>> = a /\ <<>> \o a = a /\ <<>> \in Bytes /\ Len(a) \in Nat
BY ConcatEmptySeq DEF Bytes

\* Pieces can be joined from the left or from the right.
LEMMA BytesAssociate ==
  ASSUME NEW a, NEW b, NEW c,
         a \in Bytes /\ b \in Bytes /\ c \in Bytes
  PROVE  (a \o b) \o c = a \o (b \o c)
BY ConcatAssociative DEF Bytes

\* What follows the same bytes, or as many bytes, is the same.
LEMMA BytesCancel ==
  ASSUME NEW a, NEW b, NEW x, NEW y,
         a \in Bytes /\ b \in Bytes /\ x \in Bytes /\ y \in Bytes,
         a \o x = b \o y, Len(a) = Len(b)
  PROVE  a = b /\ x = y
<1>1. /\ Len(a) \in Nat /\ Len(x) \in Nat /\ Len(y) \in Nat /\ Len(x) = Len(y)
  BY ConcatProperties DEF Bytes
<1>2. a = b
  <2>1. \A n \in 1 .. Len(a) : (a \o x)[n] = a[n] /\ (b \o y)[n] = b[n]
    BY <1>1 DEF Bytes
  <2> QED BY <2>1, SeqEqual DEF Bytes
<1>3. x = y
  <2>1. \A n \in 1 .. Len(x) : (a \o x)[n + Len(a)] = x[n] /\ (b \o y)[n + Len(a)] = y[n]
    BY <1>1 DEF Bytes
  <2> QED BY <1>1, <2>1, SeqEqual DEF Bytes
<1> QED BY <1>2, <1>3

\* The stream of a prefix begins the stream.
LEMMA StreamPrefix ==
  ASSUME NEW p \in Seq(Payloads), NEW q \in Seq(Payloads), IsPrefix(p, q)
  PROVE  \E tail \in Bytes : Stream(q) = Stream(p) \o tail
<1>1. /\ Len(p) \in Nat /\ Len(q) \in Nat /\ Len(p) <= Len(q)
      /\ \A n \in 1 .. Len(q) : q[n] \in Payloads
  BY DEF IsPrefix
<1>2. PICK u \in [0 .. Len(q) -> Bytes] :
        /\ \A n \in 1 .. Len(q) : u[n] = u[n - 1] \o Frame(q[n])
        /\ Stream(p) = u[Len(p)] /\ Stream(q) = u[Len(q)]
  BY StreamOfPrefix
<1> DEFINE last == Len(q) - Len(p)
           Begins(n) == \E tail \in Bytes : u[Len(p) + n] = u[Len(p)] \o tail
           T == {n \in 0 .. last : Begins(n)}
<1>3. last \in Nat /\ u[Len(p)] \in Bytes
  BY <1>1
<1>4. Begins(0)
  <2>1. u[Len(p) + 0] = u[Len(p)] \o <<>> /\ <<>> \in Bytes
    BY <1>1, <1>3, BytesEmpty
  <2> QED BY <2>1
<1>5. ASSUME NEW n \in 1 .. last, Begins(n - 1) PROVE Begins(n)
  <2>1. PICK tail \in Bytes : u[Len(p) + (n - 1)] = u[Len(p)] \o tail
    BY <1>5
  <2> DEFINE k == Len(p) + n
             more == tail \o Frame(q[k])
  <2>2. k \in 1 .. Len(q) /\ k - 1 = Len(p) + (n - 1)
    BY <1>1
  <2>3. Frame(q[k]) \in Bytes
    BY <1>1, <2>2, MessageBytes
  <2> HIDE DEF k
  <2>4. u[k] = (u[Len(p)] \o tail) \o Frame(q[k])
    BY <1>2, <2>1, <2>2
  <2>5. u[k] = u[Len(p)] \o more /\ more \in Bytes
    <3> DEFINE f == Frame(q[k])
               w == u[Len(p)]
    <3>1. w \in Bytes /\ tail \in Bytes /\ f \in Bytes
      BY <1>3, <2>1, <2>3
    <3> HIDE DEF f, w
    <3>2. (w \o tail) \o f = w \o (tail \o f)
      BY ONLY <3>1, BytesAssociate, SMT
    <3>3. tail \o f \in Bytes
      BY <3>1, BytesConcat
    <3> QED BY <2>4, <3>2, <3>3 DEF f, w
  <2> HIDE DEF more
  <2>6. \E rest \in Bytes : u[k] = u[Len(p)] \o rest
    BY <2>5
  <2> QED BY <2>6 DEF k
<1> HIDE DEF Begins
<1>6. 0 \in T /\ \A n \in 1 .. last : n - 1 \in T => n \in T
  BY <1>3, <1>4, <1>5
<1>7. last \in T
  <2> HIDE DEF T, last
  <2>1. \A n \in 0 .. last : n \in T
    BY <1>3, <1>6, StepInduction
  <2> QED BY <1>3, <2>1
<1>8. Len(p) + last = Len(q)
  BY <1>1
<1> QED BY <1>2, <1>7, <1>8 DEF Begins

\* The next message that the receiver has not had.
LEMMA StreamNext ==
  ASSUME NEW p \in Seq(Payloads), NEW q \in Seq(Payloads), IsPrefix(p, q), Len(p) < Len(q),
         NEW m, m = q[Len(p) + 1]
  PROVE  /\ m \in Payloads
         /\ Append(p, m) \in Seq(Payloads) /\ IsPrefix(Append(p, m), q)
         /\ Stream(Append(p, m)) = Stream(p) \o Frame(m)
         /\ \E tail \in Bytes : Stream(q) = (Stream(p) \o Frame(m)) \o tail
<1>1. m \in Payloads
  OBVIOUS
<1>2. IsPrefix(Append(p, m), q)
  <2> DEFINE r == Append(p, m)
  <2>1. r \in Seq(Payloads) /\ Len(r) = Len(p) + 1 /\ Len(r) <= Len(q)
        /\ \A n \in 1 .. Len(p) : r[n] = p[n] /\ p[n] = q[n]
    BY <1>1 DEF IsPrefix
  <2>2. r[Len(p) + 1] = m
    OBVIOUS
  <2>3. \A n \in 1 .. Len(r) : r[n] = q[n]
    BY <2>1, <2>2
  <2> HIDE DEF r
  <2>4. SubSeq(r, 1, Len(r)) = SubSeq(q, 1, Len(r))
    BY <2>1, <2>3
  <2> QED BY <2>1, <2>4 DEF IsPrefix, r
<1>3. Append(p, m) \in Seq(Payloads) /\ Stream(Append(p, m)) = Stream(p) \o Frame(m)
  BY <1>1, StreamAppend
<1>4. \E tail \in Bytes : Stream(q) = Stream(Append(p, m)) \o tail
  BY <1>2, <1>3, StreamPrefix
<1> QED BY <1>1, <1>2, <1>3, <1>4

\* A part of a buffer.
LEMMA BytesPart ==
  ASSUME NEW b \in Bytes, NEW i \in Nat, NEW j \in Nat, 0 < i, i <= j + 1, j <= Len(b)
  PROVE  /\ SubSeq(b, i, j) \in Bytes /\ Len(SubSeq(b, i, j)) = j - i + 1
         /\ \A n \in 1 .. j - i + 1 : SubSeq(b, i, j)[n] = b[i + n - 1]
<1>1. Len(b) \in Nat /\ \A n \in 1 .. Len(b) : b[n] \in 0 .. Radix - 1
  BY ElementOfSeq, LenProperties DEF Bytes
<1>2. i \in Int /\ j \in Int /\ \A n \in i .. j : b[n] \in 0 .. Radix - 1
  BY <1>1
<1>3. /\ SubSeq(b, i, j) \in Seq(0 .. Radix - 1)
      /\ Len(SubSeq(b, i, j)) = IF i <= j THEN j - i + 1 ELSE 0
      /\ \A n \in 1 .. j - i + 1 : SubSeq(b, i, j)[n] = b[i + n - 1]
  BY <1>2, SubSeqProperties
<1>4. Len(SubSeq(b, i, j)) = j - i + 1
  BY <1>3
<1> QED BY <1>3, <1>4 DEF Bytes

\* A buffer cut in two.
LEMMA BytesCut ==
  ASSUME NEW b \in Bytes, NEW n \in Nat, n <= Len(b)
  PROVE  /\ SubSeq(b, 1, n) \in Bytes /\ Len(SubSeq(b, 1, n)) = n
         /\ SubSeq(b, n + 1, Len(b)) \in Bytes /\ Len(SubSeq(b, n + 1, Len(b))) = Len(b) - n
         /\ SubSeq(b, 1, n) \o SubSeq(b, n + 1, Len(b)) = b
<1>1. Len(b) \in Nat
  BY LenProperties DEF Bytes
<1>2. SubSeq(b, 1, n) \in Bytes /\ Len(SubSeq(b, 1, n)) = n
  BY BytesPart
<1>3. SubSeq(b, n + 1, Len(b)) \in Bytes /\ Len(SubSeq(b, n + 1, Len(b))) = Len(b) - n
  <2>1. n + 1 \in Nat /\ 0 < n + 1 /\ n + 1 <= Len(b) + 1 /\ Len(b) <= Len(b)
    BY <1>1
  <2>2. /\ SubSeq(b, n + 1, Len(b)) \in Bytes
        /\ Len(SubSeq(b, n + 1, Len(b))) = Len(b) - (n + 1) + 1
    BY <1>1, <2>1, BytesPart
  <2>3. Len(b) - (n + 1) + 1 = Len(b) - n
    BY <1>1
  <2> QED BY <2>2, <2>3
<1>4. SubSeq(b, 1, n) \o SubSeq(b, n + 1, Len(b)) = SubSeq(b, 1, Len(b))
  <2>1. 1 \in 1 .. Len(b) + 1 /\ n \in 1 - 1 .. Len(b) /\ Len(b) \in n .. Len(b)
    BY <1>1
  <2> QED BY <2>1, ConcatAdjacentSubSeq DEF Bytes
<1>5. SubSeq(b, 1, Len(b)) = b
  BY SubSeqFull DEF Bytes
<1> QED BY <1>2, <1>3, <1>4, <1>5

\* What bytes are followed by begins with them.
LEMMA BytesBegin ==
  ASSUME NEW a, NEW b,
         a \in Bytes /\ b \in Bytes
  PROVE  IsPrefix(a, a \o b)
<1> DEFINE s == a \o b
<1>1. s \in Bytes /\ Len(s) = Len(a) + Len(b)
  BY BytesConcat
<1>2. Len(a) \in Nat /\ Len(b) \in Nat
  BY LenProperties DEF Bytes
<1>3. s = a \o b
  OBVIOUS
<1> HIDE DEF s
<1> DEFINE x == SubSeq(s, 1, Len(a))
           y == SubSeq(s, Len(a) + 1, Len(s))
<1>4. Len(a) <= Len(s)
  BY <1>1, <1>2
<1>5. x \in Bytes /\ y \in Bytes /\ Len(x) = Len(a) /\ x \o y = s
  BY <1>1, <1>2, <1>4, BytesCut
<1> HIDE DEF x, y
<1>6. x = a
  BY <1>3, <1>5, BytesCancel
<1>7. SubSeq(a, 1, Len(a)) = a
  BY SubSeqFull DEF Bytes
<1> QED BY <1>3, <1>4, <1>6, <1>7 DEF IsPrefix, x

\* What is left of a buffer when more of it is written.
LEMMA BytesLeft ==
  ASSUME NEW b \in Bytes, NEW k \in Nat, NEW n \in Nat, k + n <= Len(b)
  PROVE  SubSeq(SubSeq(b, k + 1, Len(b)), n + 1, Len(b) - k) = SubSeq(b, k + n + 1, Len(b))
<1> DEFINE x == SubSeq(b, k + 1, Len(b))
           y == SubSeq(x, n + 1, Len(b) - k)
           z == SubSeq(b, k + n + 1, Len(b))
<1>1. Len(b) \in Nat
  BY LenProperties DEF Bytes
<1>2. /\ x \in Bytes /\ Len(x) = Len(b) - (k + 1) + 1
      /\ \A m \in 1 .. Len(b) - (k + 1) + 1 : x[m] = b[(k + 1) + m - 1]
  <2>1. k + 1 \in Nat /\ 0 < k + 1 /\ k + 1 <= Len(b) + 1 /\ Len(b) <= Len(b)
    BY <1>1
  <2> QED BY <1>1, <2>1, BytesPart
<1>3. /\ z \in Bytes /\ Len(z) = Len(b) - (k + n + 1) + 1
      /\ \A m \in 1 .. Len(b) - (k + n + 1) + 1 : z[m] = b[(k + n + 1) + m - 1]
  <2>1. k + n + 1 \in Nat /\ 0 < k + n + 1 /\ k + n + 1 <= Len(b) + 1 /\ Len(b) <= Len(b)
    BY <1>1
  <2> QED BY <1>1, <2>1, BytesPart
<1> HIDE DEF x
<1>4. /\ y \in Bytes /\ Len(y) = (Len(b) - k) - (n + 1) + 1
      /\ \A m \in 1 .. (Len(b) - k) - (n + 1) + 1 : y[m] = x[(n + 1) + m - 1]
  <2>1. /\ n + 1 \in Nat /\ Len(b) - k \in Nat /\ 0 < n + 1 /\ n + 1 <= (Len(b) - k) + 1
        /\ Len(b) - k <= Len(x)
    BY <1>1, <1>2
  <2> QED BY <2>1, <1>2, BytesPart
<1> HIDE DEF y, z
<1>5. Len(y) = Len(z) /\ \A m \in 1 .. Len(y) : y[m] = z[m]
  BY <1>1, <1>2, <1>3, <1>4
<1>6. y = z
  BY <1>3, <1>4, <1>5, SeqEqual DEF Bytes
<1> QED BY <1>6 DEF x, y, z

-----------------------------------------------------------------------------
(* The inductive invariant.                                                *)

\* The bytes that have arrived or are under way.
Arrived == Stream(received) \o Consumed \o wire

\* All that the two ends hold are bytes.
LEMMA EndsAreBytes ==
  ASSUME TypeOK, EndsConsistent
  PROVE  /\ message \in Bytes /\ Len(message) \in Nat
         /\ Outgoing \in Bytes /\ Unwritten \in Bytes /\ Unsent \in Bytes
         /\ Stream(sent) \in Bytes /\ Stream(received) \in Bytes /\ wire \in Bytes
         /\ Consumed \in Bytes /\ Stream(received) \o Consumed \in Bytes /\ Arrived \in Bytes
<1>1. message \in Bytes /\ Len(message) \in Nat
  <2>1. <<>> \in Bytes /\ Payloads \subseteq Bytes
    BY EmptySeq, FramingAssumption DEF Bytes
  <2>2. message \in Bytes
    BY <2>1 DEF TypeOK
  <2> QED BY <2>2, LenProperties DEF Bytes
<1>2. Outgoing \in Bytes
  BY <1>1, SizeBytes DEF Outgoing
<1>3. Unwritten \in Bytes
  <2>1. <<>> \in Bytes
    BY EmptySeq DEF Bytes
  <2>2. CASE sending # "idle"
    <3>1. written_size \in Nat /\ written_size <= Len(Outgoing)
      <4>1. Len(Outgoing) \in Nat
        BY <1>2, LenProperties DEF Bytes
      <4> QED BY <2>2, <4>1 DEF TypeOK, EndsConsistent
    <3>2. SubSeq(Outgoing, written_size + 1, Len(Outgoing)) \in Bytes
      BY <1>2, <3>1, BytesCut
    <3> QED BY <2>2, <3>2 DEF Unwritten
  <2> QED BY <2>1, <2>2 DEF Unwritten
<1>4. Unsent \in Bytes
  <2>1. (IF sending = "size" THEN message ELSE <<>>) \in Bytes
    <3>1. <<>> \in Bytes
      BY EmptySeq DEF Bytes
    <3> QED BY <1>1, <3>1
  <2> QED BY <1>3, <2>1, BytesConcat DEF Unsent
<1>5. Stream(sent) \in Bytes /\ Stream(received) \in Bytes /\ wire \in Bytes
  BY StreamBytes DEF TypeOK
<1>6. Consumed \in Bytes
  <2>1. buffer \in Bytes
    BY DEF TypeOK
  <2>2. CASE receiving = "data"
    <3>1. message_size \in Nat
      <4>1. sent[Len(received) + 1] \in Payloads
        BY <2>2 DEF TypeOK, EndsConsistent
      <4> QED BY <2>2, <4>1, MessageBytes DEF EndsConsistent
    <3>2. htonl(message_size) \in Bytes
      BY <3>1, SizeBytes
    <3> QED BY <2>1, <2>2, <3>2, BytesConcat DEF Consumed
  <2> QED BY <2>1, <2>2 DEF Consumed
<1>7. Stream(received) \o Consumed \in Bytes
  BY <1>5, <1>6, BytesConcat
<1>8. Arrived \in Bytes
  BY <1>5, <1>7, BytesConcat DEF Arrived
<1> QED BY <1>1, <1>2, <1>3, <1>4, <1>5, <1>6, <1>7, <1>8

\* The property with the name that the proofs use.
LEMMA StreamExactArrived ==
  StreamExact <=>
    /\ connection = "open" => receiving # "failed" /\ Arrived \o Unsent = Stream(sent)
    /\ connection = "closed" /\ receiving # "failed" => IsPrefix(Arrived, Stream(sent))
BY DEF StreamExact, Arrived

\* Sending a message adds its bytes to those that are to be written.
LEMMA SendMessageNext == IInv /\ SendMessage => IInv'
<1> SUFFICES ASSUME IInv, SendMessage PROVE IInv'
  OBVIOUS
<1>1. PICK m \in Payloads : message' = m /\ sent' = Append(sent, m)
  BY DEF SendMessage
<1>2. /\ sending = "idle" /\ connection = "open" /\ sending' = "size" /\ written_size' = 0
      /\ UNCHANGED <<wire, connection, receiving, message_size, buffer, received>>
  BY DEF SendMessage, receiverVars
<1>3. /\ sent \in Seq(Payloads) /\ received \in Seq(Payloads) /\ IsPrefix(received, sent)
      /\ SizeOfInt \in Nat /\ SizeOfInt > 0
  BY FramingAssumption DEF IInv, TypeOK, EndsConsistent
<1>4. /\ sent' \in Seq(Payloads) /\ Len(sent') = Len(sent) + 1
      /\ \A n \in 1 .. Len(sent) : sent'[n] = sent[n]
      /\ Stream(sent') = Stream(sent) \o Frame(m)
  <2>1. /\ Append(sent, m) \in Seq(Payloads)
        /\ Stream(Append(sent, m)) = Stream(sent) \o Frame(m)
    BY <1>3, StreamAppend
  <2>2. /\ Len(Append(sent, m)) = Len(sent) + 1
        /\ \A n \in 1 .. Len(sent) : Append(sent, m)[n] = sent[n]
    BY <1>3, AppendProperties
  <2> QED BY <1>1, <2>1, <2>2
<1>5. TypeOK'
  BY <1>1, <1>2, <1>4 DEF IInv, TypeOK
<1>6. m \in Bytes /\ Len(m) \in Nat /\ htonl(Len(m)) \in Bytes /\ Len(htonl(Len(m))) = SizeOfInt
      /\ Frame(m) = htonl(Len(m)) \o m /\ Frame(m) \in Bytes
  BY MessageBytes DEF Frame
<1>7. Outgoing' = htonl(Len(m))
  BY <1>1, <1>2 DEF Outgoing
<1>8. EndsConsistent'
  <2>1. IsPrefix(received', sent')
    <3>1. Len(received) <= Len(sent) /\ SubSeq(received, 1, Len(received)) = SubSeq(sent, 1, Len(received))
      BY <1>3 DEF IsPrefix
    <3>2. SubSeq(sent', 1, Len(received)) = SubSeq(sent, 1, Len(received))
      BY <1>3, <1>4, <3>1
    <3> QED BY <1>2, <1>3, <1>4, <3>1, <3>2 DEF IsPrefix
  <2>2. receiving' = "data" => /\ Len(received') < Len(sent')
                               /\ sent'[Len(received') + 1] = sent[Len(received) + 1]
    <3> SUFFICES ASSUME receiving' = "data"
                 PROVE  /\ Len(received') < Len(sent')
                        /\ sent'[Len(received') + 1] = sent[Len(received) + 1]
      OBVIOUS
    <3>1. Len(received) < Len(sent)
      BY <1>2 DEF IInv, EndsConsistent
    <3>2. Len(received) \in Nat /\ Len(sent) \in Nat
      BY <1>3, LenProperties
    <3>3. Len(received) + 1 \in 1 .. Len(sent) /\ Len(received) < Len(sent) + 1
      BY <3>1, <3>2
    <3> QED BY <1>2, <1>4, <3>3
  <2>3. sending' # "idle" => connection' # "closed" /\ written_size' < Len(Outgoing')
    BY <1>2, <1>3, <1>6, <1>7
  <2>4. receiving' = "size" => Len(buffer') < SizeOfInt
    BY <1>2 DEF IInv, EndsConsistent
  <2>5. receiving' = "data" => /\ message_size' = Len(sent'[Len(received') + 1])
                               /\ Len(buffer') < message_size'
    BY <1>2, <2>2 DEF IInv, EndsConsistent
  <2> QED BY <2>1, <2>2, <2>3, <2>4, <2>5 DEF EndsConsistent
<1>9. StreamExact'
  <2>1. Arrived' = Arrived
    BY <1>2 DEF Arrived, Consumed
  <2>2. Unsent = <<>> /\ Unsent' = Frame(m)
    <3>1. Unwritten' = SubSeq(htonl(Len(m)), 1, Len(htonl(Len(m))))
      BY <1>2, <1>7 DEF Unwritten
    <3>2. Unwritten' = htonl(Len(m))
      BY <1>6, <3>1, SubSeqFull DEF Bytes
    <3>3. Unsent' = Frame(m)
      BY <1>1, <1>2, <1>6, <3>2 DEF Unsent
    <3>4. Unsent = <<>>
      BY <1>2 DEF Unsent, Unwritten
    <3> QED BY <3>3, <3>4
  <2>3. receiving # "failed" /\ Arrived \o Unsent = Stream(sent) /\ Arrived \in Bytes
    BY <1>2, StreamExactArrived, EndsAreBytes DEF IInv
  <2>4. Arrived \o <<>> = Arrived
    BY <2>3, BytesEmpty
  <2>5. Arrived' \o Unsent' = Stream(sent')
    BY <1>4, <2>1, <2>2, <2>3, <2>4
  <2> QED BY <1>2, <2>3, <2>5 DEF StreamExact, Arrived
<1> QED BY <1>5, <1>8, <1>9 DEF IInv

\* What write takes has left the buffer and nothing else has.
LEMMA WriteNext == IInv /\ Write => IInv'
<1> SUFFICES ASSUME IInv, Write PROVE IInv'
  OBVIOUS
<1> DEFINE u == Unwritten
<1>1. PICK n \in 1 .. Len(u) :
        /\ wire' = wire \o SubSeq(u, 1, n)
        /\ IF n < Len(u) THEN written_size' = written_size + n /\ UNCHANGED sending
                         ELSE BufferWritten
  BY DEF Write
<1>2. /\ u # <<>> /\ connection = "open"
      /\ UNCHANGED <<message, sent, connection, receiving, message_size, buffer, received>>
  BY DEF Write, receiverVars
<1>3. /\ message \in Bytes /\ Len(message) \in Nat /\ Outgoing \in Bytes /\ u \in Bytes
      /\ Unsent \in Bytes /\ Stream(sent) \in Bytes /\ Stream(received) \in Bytes
      /\ wire \in Bytes /\ Consumed \in Bytes /\ Stream(received) \o Consumed \in Bytes
      /\ Arrived \in Bytes
  BY EndsAreBytes DEF IInv
<1>4. /\ sending \in {"size", "data"} /\ written_size \in Nat /\ written_size < Len(Outgoing)
      /\ Len(Outgoing) \in Nat
      /\ u = SubSeq(Outgoing, written_size + 1, Len(Outgoing))
      /\ Len(u) = Len(Outgoing) - written_size
  <2>1. sending # "idle"
    BY <1>2 DEF Unwritten
  <2>2. written_size \in Nat /\ written_size < Len(Outgoing) /\ Len(Outgoing) \in Nat
    BY <1>3, <2>1, LenProperties DEF IInv, TypeOK, EndsConsistent, Bytes
  <2>3. Len(SubSeq(Outgoing, written_size + 1, Len(Outgoing))) = Len(Outgoing) - written_size
    BY <1>3, <2>2, BytesCut
  <2> QED BY <2>1, <2>2, <2>3 DEF Unwritten, IInv, TypeOK
<1> DEFINE w == SubSeq(u, 1, n)
           rest == SubSeq(u, n + 1, Len(u))
           X == IF sending = "size" THEN message ELSE <<>>
<1>5. w \in Bytes /\ rest \in Bytes /\ w \o rest = u /\ wire \o w \in Bytes
      /\ n \in Nat /\ 1 <= n /\ n <= Len(u)
  <2>1. n \in Nat /\ n <= Len(u) /\ 1 <= n
    BY <1>4
  <2>2. w \in Bytes /\ rest \in Bytes /\ w \o rest = u
    BY <1>3, <2>1, BytesCut
  <2> QED BY <1>3, <2>1, <2>2, BytesConcat
<1>6. X \in Bytes /\ Unsent = u \o X
  BY <1>3, EmptySeq DEF Bytes, Unsent
<1>7. /\ w \o Unsent' = Unsent /\ Unsent' \in Bytes
      /\ sending' \in {"idle", "size", "data"} /\ written_size' \in Nat
      /\ sending' # "idle" => written_size' < Len(Outgoing')
  <2>1. CASE n < Len(u)
    <3>1. written_size' = written_size + n /\ sending' = sending
      BY <1>1, <2>1
    <3>2. Outgoing' = Outgoing
      BY <1>2, <3>1 DEF Outgoing
    <3>3. Unwritten' = SubSeq(Outgoing, written_size + n + 1, Len(Outgoing))
      BY <1>4, <3>1, <3>2 DEF Unwritten
    <3>4. Unwritten' = rest
      <4>1. written_size + n <= Len(Outgoing)
        BY <1>4, <1>5
      <4>2. SubSeq(SubSeq(Outgoing, written_size + 1, Len(Outgoing)), n + 1,
                   Len(Outgoing) - written_size)
              = SubSeq(Outgoing, written_size + n + 1, Len(Outgoing))
        BY <1>3, <1>4, <1>5, <4>1, BytesLeft
      <4> QED BY <1>4, <3>3, <4>2
    <3>5. Unsent' = rest \o X
      BY <1>2, <3>1, <3>4 DEF Unsent
    <3> HIDE DEF w, rest, X, u
    <3>6. w \o (rest \o X) = (w \o rest) \o X /\ rest \o X \in Bytes
      <4>1. w \in Bytes /\ rest \in Bytes /\ X \in Bytes
        BY <1>5, <1>6
      <4>2. (w \o rest) \o X = w \o (rest \o X)
        BY <4>1, BytesAssociate
      <4>3. rest \o X \in Bytes
        BY <4>1, BytesConcat
      <4> QED BY <4>2, <4>3
    <3>7. w \o Unsent' = Unsent /\ Unsent' \in Bytes
      BY <1>5, <1>6, <3>5, <3>6
    <3>8. written_size' \in Nat /\ written_size' < Len(Outgoing')
      BY <1>4, <1>5, <2>1, <3>1, <3>2
    <3> QED BY <1>4, <3>1, <3>7, <3>8
  <2>2. CASE ~(n < Len(u))
    <3>1. BufferWritten /\ n = Len(u)
      BY <1>1, <1>4, <1>5, <2>2
    <3>2. w = u
      BY <1>3, <3>1, SubSeqFull DEF Bytes
    <3>3. CASE sending = "size" /\ message # <<>>
      <4>1. sending' = "data" /\ written_size' = 0
        BY <3>1, <3>3 DEF BufferWritten
      <4>2. Outgoing' = message
        BY <1>2, <4>1 DEF Outgoing
      <4>3. Unwritten' = SubSeq(message, 1, Len(message))
        BY <4>1, <4>2 DEF Unwritten
      <4>4. Unwritten' = message
        BY <1>3, <4>3, SubSeqFull DEF Bytes
      <4>5. Unsent' = message
        BY <1>3, <4>1, <4>4, BytesEmpty DEF Unsent
      <4>6. 0 < Len(message)
        BY <1>3, <3>3, EmptySeq DEF Bytes
      <4> QED BY <1>3, <1>6, <3>2, <3>3, <4>1, <4>2, <4>5, <4>6
    <3>4. CASE ~(sending = "size" /\ message # <<>>)
      <4>1. sending' = "idle" /\ written_size' = 0
        BY <3>1, <3>4 DEF BufferWritten
      <4>2. Unsent' = <<>> /\ X = <<>> /\ <<>> \in Bytes
        <5>1. Unsent' = <<>> \o <<>> /\ <<>> \in Bytes
          BY <4>1, EmptySeq DEF Unsent, Unwritten, Bytes
        <5> QED BY <3>4, <5>1, BytesEmpty
      <4> QED BY <1>6, <3>2, <4>1, <4>2
    <3> QED BY <3>3, <3>4
  <2> QED BY <2>1, <2>2
<1> HIDE DEF X, rest, u
<1>8. TypeOK'
  BY <1>1, <1>2, <1>5, <1>7 DEF IInv, TypeOK
<1>9. EndsConsistent'
  BY <1>2, <1>7 DEF IInv, EndsConsistent
<1>10. StreamExact'
  <2> HIDE DEF w
  <2>1. receiving # "failed" /\ Arrived \o Unsent = Stream(sent)
    BY <1>2, StreamExactArrived DEF IInv
  <2>2. Arrived' = (Stream(received) \o Consumed) \o (wire \o w)
    BY <1>1, <1>2 DEF Arrived, Consumed, w
  <2>3. Arrived' = Arrived \o w
    <3> DEFINE a == Stream(received) \o Consumed
    <3>1. a \in Bytes /\ wire \in Bytes /\ w \in Bytes /\ Arrived = a \o wire
          /\ Arrived' = a \o (wire \o w)
      BY <1>3, <1>5, <2>2 DEF Arrived
    <3> HIDE DEF a
    <3>2. (a \o wire) \o w = a \o (wire \o w)
      BY <3>1, BytesAssociate
    <3> QED BY <3>1, <3>2
  <2>4. Arrived' \o Unsent' = Arrived \o (w \o Unsent')
    <3> DEFINE a == Arrived
               b == Unsent'
    <3>1. a \in Bytes /\ w \in Bytes /\ b \in Bytes
      BY <1>3, <1>5, <1>7
    <3> HIDE DEF a, b
    <3>2. (a \o w) \o b = a \o (w \o b)
      BY <3>1, BytesAssociate
    <3> QED BY <2>3, <3>2 DEF a, b
  <2>5. Arrived' \o Unsent' = Stream(sent')
    BY <1>2, <1>7, <2>1, <2>4
  <2> QED BY <1>2, <2>1, <2>5 DEF StreamExact, Arrived
<1> QED BY <1>8, <1>9, <1>10 DEF IInv

\* The end of the connection, for the sender, the receiver or both.
LEMMA EndNext == IInv /\ (WriteFails \/ Close \/ Reset \/ ReadFails) => IInv'
<1> SUFFICES ASSUME IInv, WriteFails \/ Close \/ Reset \/ ReadFails PROVE IInv'
  OBVIOUS
<1>1. CASE WriteFails
  BY <1>1 DEF WriteFails, receiverVars, IInv, TypeOK, EndsConsistent, StreamExact
<1>2. CASE Close
  <2>1. /\ connection = "open" /\ connection' = "closed" /\ sending' = "idle" /\ written_size' = 0
        /\ UNCHANGED <<message, sent, wire, receiving, message_size, buffer, received>>
    BY <1>2 DEF Close, receiverVars
  <2>2. Arrived \o Unsent = Stream(sent) /\ Arrived \in Bytes /\ Unsent \in Bytes
    BY <2>1, StreamExactArrived, EndsAreBytes DEF IInv
  <2>3. IsPrefix(Arrived, Stream(sent))
    <3>1. IsPrefix(Arrived, Arrived \o Unsent)
      BY <2>2, BytesBegin
    <3> QED BY <2>2, <3>1
  <2>4. Arrived' = Arrived
    BY <2>1 DEF Arrived, Consumed
  <2>5. StreamExact'
    BY <2>1, <2>3, <2>4 DEF StreamExact, Arrived
  <2>6. TypeOK' /\ EndsConsistent'
    BY <2>1 DEF IInv, TypeOK, EndsConsistent
  <2> QED BY <2>5, <2>6 DEF IInv
<1>3. CASE Reset
  <2>1. TypeOK'
    BY <1>3, EmptySeq DEF Reset, senderVars, receiverVars, IInv, TypeOK, Bytes
  <2>2. EndsConsistent'
    BY <1>3 DEF Reset, senderVars, receiverVars, IInv, EndsConsistent, Outgoing
  <2>3. StreamExact'
    BY <1>3 DEF Reset, StreamExact
  <2> QED BY <2>1, <2>2, <2>3 DEF IInv
<1>4. CASE ReadFails
  <2>1. TypeOK'
    BY <1>4 DEF ReadFails, senderVars, IInv, TypeOK
  <2>2. EndsConsistent'
    BY <1>4 DEF ReadFails, senderVars, IInv, EndsConsistent, Outgoing
  <2>3. StreamExact'
    BY <1>4 DEF ReadFails, StreamExact
  <2> QED BY <2>1, <2>2, <2>3 DEF IInv
<1> QED BY <1>1, <1>2, <1>3, <1>4

Associates(a, b, c) == (a \o b) \o c = a \o (b \o c)
AssociatesFour(a, b, c, d) == ((a \o b) \o c) \o d = a \o (b \o (c \o d))

\* Three pieces of bytes, or four, joined from the left or from the right.
LEMMA PiecesAssociate ==
  /\ \A a, b, c \in Bytes : Associates(a, b, c)
  /\ \A a, b, c, d \in Bytes : AssociatesFour(a, b, c, d)
<1>1. \A a, b, c \in Bytes : Associates(a, b, c)
  BY BytesAssociate DEF Associates
<1>2. ASSUME NEW a \in Bytes, NEW b \in Bytes, NEW c \in Bytes, NEW d \in Bytes
      PROVE  AssociatesFour(a, b, c, d)
  <2>1. c \o d \in Bytes /\ a \o b \in Bytes
    BY BytesConcat
  <2>2. Associates(a \o b, c, d) /\ Associates(a, b, c \o d)
    BY <1>1, <2>1, Zenon
  <2> QED BY <2>2, Zenon DEF Associates, AssociatesFour
<1> QED BY <1>1, <1>2

\* As long as the receiver reads, what has arrived begins the stream that was sent.
LEMMA ArrivedBegins ==
  ASSUME IInv, connection # "reset", receiving # "failed"
  PROVE  \E z \in Bytes : Arrived \o z = Stream(sent)
<1>1. Arrived \in Bytes /\ Unsent \in Bytes /\ Stream(sent) \in Bytes
  BY EndsAreBytes DEF IInv
<1>2. CASE connection = "open"
  BY <1>1, <1>2, StreamExactArrived DEF IInv
<1>3. CASE connection = "closed"
  <2> DEFINE a == Arrived
             t == Stream(sent)
  <2>1. IsPrefix(a, t)
    BY <1>3, StreamExactArrived DEF IInv
  <2>2. a \in Bytes /\ t \in Bytes /\ Len(a) \in Nat
    BY <1>1, LenProperties DEF Bytes
  <2> HIDE DEF a, t
  <2>3. Len(a) <= Len(t) /\ SubSeq(a, 1, Len(a)) = SubSeq(t, 1, Len(a))
    BY <2>1 DEF IsPrefix
  <2>4. SubSeq(a, 1, Len(a)) = a
    BY <2>2, SubSeqFull DEF Bytes
  <2>5. /\ SubSeq(t, Len(a) + 1, Len(t)) \in Bytes
        /\ SubSeq(t, 1, Len(a)) \o SubSeq(t, Len(a) + 1, Len(t)) = t
    BY <2>2, <2>3, BytesCut
  <2>6. \E z \in Bytes : a \o z = t
    BY <2>3, <2>4, <2>5
  <2> QED BY <2>6 DEF a, t
<1> QED BY <1>2, <1>3 DEF IInv, TypeOK

\* What precedes the same bytes can be left out.
LEMMA BytesCancelLeft ==
  ASSUME NEW a, NEW x, NEW y,
         a \in Bytes /\ x \in Bytes /\ y \in Bytes, a \o x = a \o y
  PROVE  x = y
BY BytesCancel

SizeHere(r, b, y, z, h, m, tail) ==
  ((r \o b) \o y) \o z = (r \o (h \o m)) \o tail /\ Len(b) = Len(h)

MessageHere(r, b, y, z, h, m, tail) ==
  (((r \o h) \o b) \o y) \o z = (r \o (h \o m)) \o tail /\ Len(b) = Len(m)

\* A piece b of a stream that goes on with the frame of a message is the size of the
\* message, when it is as long as a size ...
LEMMA SizeInStream ==
  ASSUME NEW r \in Bytes, NEW h \in Bytes, NEW m \in Bytes, NEW tail \in Bytes,
         NEW b \in Bytes, NEW y \in Bytes, NEW z \in Bytes, SizeHere(r, b, y, z, h, m, tail)
  PROVE  b = h
<1> DEFINE v == y \o z
           w == m \o tail
<1>1. v \in Bytes /\ w \in Bytes
  BY BytesConcat
<1>2. AssociatesFour(r, b, y, z) /\ Associates(r, h, m) /\ AssociatesFour(r, h, m, tail)
  BY PiecesAssociate, Zenon
<1>3. r \o (b \o v) = r \o (h \o w)
  BY <1>2, Zenon DEF SizeHere, Associates, AssociatesFour
<1> HIDE DEF v, w
<1> DEFINE c == b \o v
           d == h \o w
<1>4. r \o c = r \o d /\ c \in Bytes /\ d \in Bytes
  BY <1>1, <1>3, BytesConcat
<1> HIDE DEF c, d
<1>5. c = d
  BY <1>4, BytesCancelLeft
<1>6. b \o v = h \o w /\ Len(b) = Len(h)
  BY <1>5 DEF c, d, SizeHere
<1> QED BY <1>1, <1>6, BytesCancel

\* ... and the message, when the size came before and it is as long as the message.
LEMMA MessageInStream ==
  ASSUME NEW r \in Bytes, NEW h \in Bytes, NEW m \in Bytes, NEW tail \in Bytes,
         NEW b \in Bytes, NEW y \in Bytes, NEW z \in Bytes, MessageHere(r, b, y, z, h, m, tail)
  PROVE  b = m
<1> DEFINE p == r \o h
           v == y \o z
<1>1. p \in Bytes /\ v \in Bytes
  BY BytesConcat
<1>2. Associates(r, h, m)
  BY PiecesAssociate, Zenon
<1>3. ((p \o b) \o y) \o z = (p \o m) \o tail
  BY <1>2, Zenon DEF MessageHere, Associates
<1> HIDE DEF p
<1>4. AssociatesFour(p, b, y, z) /\ Associates(p, m, tail)
  BY <1>1, PiecesAssociate, Zenon
<1>5. p \o (b \o v) = p \o (m \o tail)
  BY <1>3, <1>4, Zenon DEF Associates, AssociatesFour
<1> HIDE DEF v
<1> DEFINE c == b \o v
           d == m \o tail
<1>6. p \o c = p \o d /\ c \in Bytes /\ d \in Bytes
  BY <1>1, <1>5, BytesConcat
<1> HIDE DEF c, d
<1>7. c = d
  BY <1>1, <1>6, BytesCancelLeft
<1>8. b \o v = m \o tail /\ Len(b) = Len(m)
  BY <1>7 DEF c, d, MessageHere
<1> QED BY <1>1, <1>8, BytesCancel

\* Where the receiver is in the stream: what it has received, the message it is at,
\* and the bytes of it before the buffer.
LEMMA NextInStream ==
  ASSUME IInv, connection # "reset", receiving \in {"size", "data"},
         NEW bytes \in Bytes, NEW y \in Bytes, bytes # <<>>,
         Arrived = ((IF receiving = "size" THEN Stream(received)
                     ELSE Stream(received) \o htonl(message_size)) \o bytes) \o y,
         Len(bytes) = Awaited
  PROVE  LET m == sent[Len(received) + 1] IN
         /\ Len(received) < Len(sent) /\ m \in Payloads
         /\ bytes = IF receiving = "size" THEN htonl(Len(m)) ELSE m
         /\ IsPrefix(Append(received, m), sent)
         /\ Append(received, m) \in Seq(Payloads)
         /\ Stream(Append(received, m)) = Stream(received) \o Frame(m)
<1> DEFINE R == Stream(received)
           m == sent[Len(received) + 1]
           h == htonl(Len(m))
<1>1. /\ R \in Bytes /\ Stream(sent) \in Bytes
      /\ sent \in Seq(Payloads) /\ received \in Seq(Payloads) /\ IsPrefix(received, sent)
      /\ Len(sent) \in Nat /\ Len(received) \in Nat /\ Len(received) <= Len(sent)
      /\ Len(bytes) \in Nat /\ Len(bytes) > 0 /\ Len(y) \in Nat /\ Len(R) \in Nat
  <2>1. TypeOK /\ EndsConsistent
    BY DEF IInv
  <2>2. R \in Bytes /\ Stream(sent) \in Bytes
    BY <2>1, EndsAreBytes
  <2>3. sent \in Seq(Payloads) /\ received \in Seq(Payloads) /\ IsPrefix(received, sent)
    BY <2>1 DEF TypeOK, EndsConsistent
  <2>4. Len(bytes) \in Nat /\ Len(bytes) > 0
    BY EmptySeq, LenProperties DEF Bytes
  <2> QED BY <2>2, <2>3, <2>4, LenProperties DEF Bytes, IsPrefix
<1>2. PICK z \in Bytes : Arrived \o z = Stream(sent)
  BY ArrivedBegins
<1>3. receiving = "size" => ((R \o bytes) \o y) \o z = Stream(sent)
  BY <1>2
<1>4. receiving = "data" => (((R \o htonl(message_size)) \o bytes) \o y) \o z = Stream(sent)
  BY <1>2
<1>5. Len(received) < Len(sent)
  <2>1. CASE receiving = "data"
    BY <2>1 DEF IInv, EndsConsistent
  <2>2. CASE receiving = "size"
    <3> SUFFICES ASSUME Len(received) = Len(sent) PROVE FALSE
      BY <1>1
    <3>1. received = sent
      BY <1>1, SubSeqFull DEF IsPrefix
    <3>2. ((R \o bytes) \o y) \o z = R
      BY <1>3, <2>2, <3>1
    <3>3. Len(((R \o bytes) \o y) \o z) = Len(R) + Len(bytes) + Len(y) + Len(z)
      <4> HIDE DEF R
      <4>1. R \o bytes \in Bytes /\ Len(R \o bytes) = Len(R) + Len(bytes)
        BY <1>1, BytesConcat
      <4>2. /\ (R \o bytes) \o y \in Bytes
            /\ Len((R \o bytes) \o y) = Len(R \o bytes) + Len(y)
        BY <4>1, BytesConcat
      <4>3. Len(((R \o bytes) \o y) \o z) = Len((R \o bytes) \o y) + Len(z)
        BY <4>2, BytesConcat
      <4> QED BY <4>1, <4>2, <4>3
    <3>4. Len(z) \in Nat
      BY BytesEmpty
    <3> QED BY <1>1, <3>2, <3>3, <3>4
  <2> QED BY <2>1, <2>2
<1>6. /\ m \in Payloads
      /\ Append(received, m) \in Seq(Payloads) /\ IsPrefix(Append(received, m), sent)
      /\ Stream(Append(received, m)) = R \o Frame(m)
      /\ \E tail \in Bytes : Stream(sent) = (R \o Frame(m)) \o tail
  BY <1>1, <1>5, StreamNext
<1>7. PICK tail \in Bytes : Stream(sent) = (R \o Frame(m)) \o tail
  BY <1>6
<1> HIDE DEF R, m
<1>8. m \in Bytes /\ h \in Bytes /\ Len(h) = SizeOfInt /\ Frame(m) = h \o m
  BY <1>6, MessageBytes DEF Frame
<1> HIDE DEF h
<1>9. CASE receiving = "size"
  <2>1. ((R \o bytes) \o y) \o z = (R \o (h \o m)) \o tail
    BY <1>3, <1>7, <1>8, <1>9
  <2>2. Len(bytes) = Len(h)
    BY <1>8, <1>9 DEF Awaited
  <2>3. SizeHere(R, bytes, y, z, h, m, tail)
    BY <2>1, <2>2 DEF SizeHere
  <2>4. bytes = h
    BY <1>1, <1>8, <2>3, SizeInStream
  <2> QED BY <1>5, <1>6, <1>9, <2>4 DEF h, m, R
<1>10. CASE receiving = "data"
  <2>1. message_size = Len(m)
    BY <1>10 DEF IInv, EndsConsistent, m
  <2>2. (((R \o h) \o bytes) \o y) \o z = (R \o (h \o m)) \o tail
    BY <1>4, <1>7, <1>8, <1>10, <2>1 DEF h
  <2>3. Len(bytes) = Len(m)
    BY <1>10, <2>1 DEF Awaited
  <2>4. MessageHere(R, bytes, y, z, h, m, tail)
    BY <2>2, <2>3 DEF MessageHere
  <2>5. bytes = m
    BY <1>1, <1>8, <2>4, MessageInStream
  <2> QED BY <1>5, <1>6, <1>10, <2>5 DEF m, R
<1> QED BY <1>9, <1>10

\* Reading moves bytes from the connection to the buffer, and a message that is
\* complete is the next one that was sent.
LEMMA ReadNext ==
  IInv /\ Read =>
    /\ IInv' /\ receiving' # "failed" /\ receiving # "failed" /\ UNCHANGED sent
    /\ \/ UNCHANGED received
       \/ Len(received) < Len(sent) /\ received' = Append(received, sent[Len(received) + 1])
<1> SUFFICES ASSUME IInv, Read
             PROVE  /\ IInv' /\ receiving' # "failed" /\ receiving # "failed" /\ UNCHANGED sent
                    /\ \/ UNCHANGED received
                       \/ /\ Len(received) < Len(sent)
                          /\ received' = Append(received, sent[Len(received) + 1])
  OBVIOUS
<1> DEFINE R == Stream(received)
           m == sent[Len(received) + 1]
           P == IF receiving = "size" THEN R ELSE R \o htonl(message_size)
           y == wire'
<1>1. /\ receiving \in {"size", "data"} /\ connection # "reset"
      /\ UNCHANGED <<sending, message, written_size, sent, connection>>
  BY DEF Read, senderVars, IInv, TypeOK
<1>2. PICK n \in 1 .. Len(wire) :
        LET bytes == buffer \o SubSeq(wire, 1, n) IN
        /\ Len(bytes) <= Awaited
        /\ wire' = SubSeq(wire, n + 1, Len(wire))
        /\ \/ /\ Len(bytes) < Awaited /\ buffer' = bytes
              /\ UNCHANGED <<receiving, message_size, received>>
           \/ /\ Len(bytes) = Awaited /\ buffer' = <<>>
              /\ IF receiving = "size" THEN SizeRead(bytes)
                 ELSE Deliver(bytes) /\ UNCHANGED message_size
  BY DEF Read
<1> DEFINE x == SubSeq(wire, 1, n)
           bytes == buffer \o x
<1>3. /\ wire \in Bytes /\ buffer \in Bytes /\ R \in Bytes /\ Consumed \in Bytes
      /\ sent \in Seq(Payloads) /\ received \in Seq(Payloads) /\ message_size \in Int
      /\ <<>> \in Bytes
  BY EndsAreBytes, EmptySeq DEF IInv, TypeOK, Bytes
<1>4. x \in Bytes /\ y \in Bytes /\ x \o y = wire /\ Len(x) = n /\ n \in Nat /\ n > 0
  <2>1. n \in Nat /\ n <= Len(wire) /\ n > 0
    BY <1>3, LenProperties DEF Bytes
  <2> QED BY <1>2, <1>3, <2>1, BytesCut
<1>5. bytes \in Bytes /\ bytes # <<>>
  <2>1. bytes \in Bytes /\ Len(bytes) = Len(buffer) + n /\ Len(buffer) \in Nat
    BY <1>3, <1>4, BytesConcat, BytesEmpty
  <2> QED BY <1>4, <2>1, EmptySeq
<1>6. /\ P \in Bytes /\ R \o Consumed = P \o buffer
      /\ receiving = "data" => htonl(message_size) \in Bytes
  <2>1. CASE receiving = "size"
    BY <1>3, <2>1 DEF Consumed
  <2>2. CASE receiving = "data"
    <3> DEFINE h == htonl(message_size)
    <3>1. message_size \in Nat
      <4>1. sent[Len(received) + 1] \in Payloads
        BY <2>2 DEF IInv, TypeOK, EndsConsistent
      <4> QED BY <2>2, <4>1, MessageBytes DEF IInv, EndsConsistent
    <3>2. h \in Bytes
      BY <3>1, SizeBytes
    <3>3. R \o Consumed = R \o (h \o buffer) /\ P = R \o h
      BY <2>2 DEF Consumed
    <3> HIDE DEF h, R, P
    <3>4. R \o h \in Bytes
      BY <1>3, <3>2, BytesConcat
    <3>5. Associates(R, h, buffer)
      BY <1>3, <3>2, PiecesAssociate, Zenon
    <3> QED BY <2>2, <3>2, <3>3, <3>4, <3>5 DEF Associates, h
  <2> QED BY <1>1, <2>1, <2>2
<1>7. Arrived = (P \o bytes) \o y
  <2>1. Arrived = (P \o buffer) \o (x \o y)
    BY <1>4, <1>6 DEF Arrived
  <2> HIDE DEF P, x
  <2>2. P \o buffer \in Bytes
    BY <1>3, <1>6, BytesConcat
  <2>3. Associates(P, buffer, x) /\ Associates(P \o buffer, x, y)
    BY <1>3, <1>4, <1>6, <2>2, PiecesAssociate, Zenon
  <2> QED BY <2>1, <2>3, Zenon DEF Associates
<1>8. CASE Len(bytes) < Awaited /\ buffer' = bytes /\ UNCHANGED <<receiving, message_size, received>>
  <2>1. Arrived' = Arrived
    <3>1. Consumed' = IF receiving = "data" THEN htonl(message_size) \o bytes ELSE bytes
      BY <1>8 DEF Consumed
    <3>2. Arrived' = (R \o Consumed') \o y
      BY <1>8 DEF Arrived
    <3>3. R \o Consumed' = P \o bytes
      <4>1. CASE receiving = "size"
        BY <3>1, <4>1
      <4>2. CASE receiving = "data"
        <5> DEFINE h == htonl(message_size)
        <5>1. R \o Consumed' = R \o (h \o bytes) /\ P = R \o h /\ h \in Bytes
          BY <1>6, <3>1, <4>2
        <5> HIDE DEF h, R, P, bytes
        <5>2. Associates(R, h, bytes)
          BY <1>3, <1>5, <5>1, PiecesAssociate, Zenon
        <5> QED BY <5>1, <5>2 DEF Associates
      <4> QED BY <1>1, <4>1, <4>2
    <3> QED BY <1>7, <3>2, <3>3
  <2>2. TypeOK'
    BY <1>1, <1>4, <1>5, <1>8 DEF IInv, TypeOK
  <2>3. EndsConsistent'
    BY <1>1, <1>8 DEF IInv, EndsConsistent, Outgoing, Awaited
  <2>4. StreamExact'
    <3>1. Unsent' = Unsent
      BY <1>1 DEF Unsent, Unwritten, Outgoing
    <3> QED BY <1>1, <1>8, <2>1, <3>1 DEF IInv, StreamExact, Arrived
  <2> QED BY <1>1, <1>8, <2>2, <2>3, <2>4 DEF IInv

<1>9. ASSUME Len(bytes) = Awaited
      PROVE  /\ Len(received) < Len(sent) /\ m \in Payloads
             /\ bytes = IF receiving = "size" THEN htonl(Len(m)) ELSE m
             /\ IsPrefix(Append(received, m), sent) /\ Append(received, m) \in Seq(Payloads)
             /\ Stream(Append(received, m)) = R \o Frame(m)
  <2> HIDE DEF bytes, y
  <2>1. Arrived = ((IF receiving = "size" THEN Stream(received)
                    ELSE Stream(received) \o htonl(message_size)) \o bytes) \o y
    BY <1>7
  <2> HIDE DEF P
  <2> QED BY <1>1, <1>4, <1>5, <1>9, <2>1, NextInStream
\* The whole message is there.
<1>10. ASSUME Len(bytes) = Awaited, received' = Append(received, m), receiving' = "size",
              buffer' = <<>>, message_size' \in Int, P \o bytes = R \o Frame(m)
       PROVE  IInv'
  <2>1. R \o Frame(m) \in Bytes /\ Stream(received') = R \o Frame(m)
    <3>1. Frame(m) \in Bytes
      BY <1>9, <1>10, MessageBytes
    <3> QED BY <1>3, <1>9, <1>10, <3>1, BytesConcat
  <2>2. Arrived' = Arrived
    <3>1. Arrived' = ((R \o Frame(m)) \o <<>>) \o y
      BY <1>10, <2>1 DEF Arrived, Consumed
    <3> DEFINE c == R \o Frame(m)
    <3>2. c \in Bytes /\ Arrived' = (c \o <<>>) \o y /\ Arrived = c \o y
      BY <1>7, <1>10, <2>1, <3>1
    <3> HIDE DEF c
    <3>3. c \o <<>> = c
      BY <3>2, BytesEmpty
    <3> QED BY <3>2, <3>3
  <2>3. TypeOK'
    BY <1>1, <1>3, <1>4, <1>9, <1>10 DEF IInv, TypeOK
  <2>4. EndsConsistent'
    <3>1. Len(<<>>) = 0 /\ SizeOfInt > 0 /\ SizeOfInt \in Nat
      BY FramingAssumption
    <3> QED BY <1>1, <1>9, <1>10, <3>1 DEF IInv, EndsConsistent, Outgoing
  <2>5. StreamExact'
    <3>1. Unsent' = Unsent
      BY <1>1 DEF Unsent, Unwritten, Outgoing
    <3> QED BY <1>1, <1>10, <2>2, <3>1 DEF IInv, StreamExact, Arrived
  <2> QED BY <2>3, <2>4, <2>5 DEF IInv
<1>11. CASE /\ Len(bytes) = Awaited /\ buffer' = <<>> /\ receiving = "size" /\ SizeRead(bytes)
  <2>1. /\ m \in Payloads /\ Len(m) \in Nat /\ bytes = htonl(Len(m)) /\ ntohl(bytes) = Len(m)
        /\ Frame(m) = bytes \o m /\ Len(received) < Len(sent)
    BY <1>9, <1>11, MessageBytes DEF Frame
  <2>2. message_size' = Len(m)
    BY <1>11, <2>1 DEF SizeRead
  <2>3. CASE Len(m) = 0
    <3>1. m = <<>>
      BY <2>1, <2>3, MessageBytes, EmptySeq DEF Bytes
    <3>2. received' = Append(received, m) /\ receiving' = "size"
      BY <1>11, <2>1, <2>2, <2>3, <3>1 DEF SizeRead, Deliver
    <3>3. Frame(m) = bytes
      <4> HIDE DEF bytes
      <4> QED BY <1>5, <2>1, <3>1, BytesEmpty
    <3>4. P = R
      BY <1>11
    <3>5. IInv'
      <4>1. message_size' \in Int
        BY <2>1, <2>2
      <4>2. Len(bytes) = Awaited /\ buffer' = <<>>
        BY <1>11
      <4> HIDE DEF bytes, P, R, m
      <4>3. P \o bytes = R \o Frame(m)
        BY <3>3, <3>4
      <4> QED BY <1>10, <3>2, <4>1, <4>2, <4>3
    <3> QED BY <1>1, <2>1, <3>2, <3>5
  <2>4. CASE Len(m) # 0
    <3>1. receiving' = "data" /\ received' = received
      BY <1>11, <2>1, <2>2, <2>4 DEF SizeRead
    <3>2. Arrived' = Arrived
      <4>1. Arrived' = (R \o (htonl(Len(m)) \o <<>>)) \o y
        BY <1>11, <2>2, <3>1 DEF Arrived, Consumed
      <4>2. Arrived' = (R \o (bytes \o <<>>)) \o y /\ Arrived = (R \o bytes) \o y
        BY <1>7, <1>11, <2>1, <4>1
      <4> HIDE DEF bytes
      <4>3. bytes \o <<>> = bytes
        BY <1>5, BytesEmpty
      <4> QED BY <4>2, <4>3
    <3>3. TypeOK'
      BY <1>1, <1>3, <1>4, <1>11, <2>1, <2>2, <3>1 DEF IInv, TypeOK
    <3>4. EndsConsistent'
      <4>1. Len(<<>>) = 0
        OBVIOUS
      <4> QED BY <1>1, <1>11, <2>1, <2>2, <2>4, <3>1, <4>1 DEF IInv, EndsConsistent, Outgoing
    <3>5. StreamExact'
      <4>1. Unsent' = Unsent
        BY <1>1 DEF Unsent, Unwritten, Outgoing
      <4> QED BY <1>1, <3>1, <3>2, <4>1 DEF IInv, StreamExact, Arrived
    <3> QED BY <1>1, <3>1, <3>3, <3>4, <3>5 DEF IInv
  <2> QED BY <2>3, <2>4
<1>12. CASE /\ Len(bytes) = Awaited /\ buffer' = <<>> /\ receiving = "data"
            /\ Deliver(bytes) /\ UNCHANGED message_size
  <2>1. /\ m \in Payloads /\ bytes = m /\ Len(received) < Len(sent)
    BY <1>9, <1>12
  <2>2. received' = Append(received, m) /\ receiving' = "size"
    BY <1>12, <2>1 DEF Deliver
  <2>3. P \o bytes = R \o Frame(m)
    <3> DEFINE h == htonl(Len(m))
    <3>1. message_size = Len(m)
      BY <1>12 DEF IInv, EndsConsistent
    <3>2. P = R \o h /\ Frame(m) = h \o m /\ h \in Bytes /\ m \in Bytes
      BY <1>12, <2>1, <3>1, MessageBytes DEF Frame
    <3> HIDE DEF h, P, m, R, bytes
    <3>3. Associates(R, h, m)
      BY <1>3, <3>2, PiecesAssociate, Zenon
    <3> QED BY <2>1, <3>2, <3>3 DEF Associates
  <2>4. IInv'
    BY <1>3, <1>10, <1>12, <2>2, <2>3
  <2> QED BY <1>1, <2>1, <2>2, <2>4
<1> QED BY <1>1, <1>2, <1>8, <1>11, <1>12

\* Before the first message both ends are at the beginning of the stream.
LEMMA InvariantInit == Init => IInv
<1> SUFFICES ASSUME Init PROVE IInv
  OBVIOUS
<1>1. <<>> \in Bytes /\ <<>> \in Seq(Payloads) /\ Stream(<<>>) = <<>> /\ SizeOfInt > 0
      /\ SizeOfInt \in Nat
  BY EmptySeq, StreamBytes, FramingAssumption DEF Bytes
<1>2. TypeOK
  BY <1>1 DEF Init, TypeOK
<1>3. EndsConsistent
  BY <1>1 DEF Init, EndsConsistent, IsPrefix
<1>4. StreamExact
  <2>1. Consumed = <<>> /\ Unsent = <<>> \o <<>>
    BY DEF Init, Consumed, Unsent, Unwritten
  <2>2. Stream(received) = <<>> /\ Stream(sent) = <<>> /\ wire = <<>>
    BY <1>1 DEF Init
  <2>3. <<>> \o <<>> = <<>>
    BY <1>1, BytesEmpty
  <2>4. connection = "open" /\ receiving = "size"
    BY DEF Init
  <2>5. Stream(received) \o Consumed \o wire \o Unsent = Stream(sent)
    BY <2>1, <2>2, <2>3
  <2> QED BY <2>4, <2>5 DEF StreamExact
<1> QED BY <1>2, <1>3, <1>4 DEF IInv

\* Every step of the two ends and of the network keeps the invariant.
LEMMA InvariantNext == IInv /\ [Next]_vars => IInv'
<1> SUFFICES ASSUME IInv, [Next]_vars PROVE IInv'
  OBVIOUS
<1>1. CASE Next
  BY <1>1, SendMessageNext, WriteNext, EndNext, ReadNext DEF Next
<1>2. CASE UNCHANGED vars
  BY <1>2 DEF vars, senderVars, receiverVars, IInv, TypeOK, EndsConsistent, StreamExact,
              Consumed, Unsent, Unwritten, Outgoing
<1> QED BY <1>1, <1>2

-----------------------------------------------------------------------------
(* The theorems.                                                           *)

\* The two ends agree on where each is in the stream and in the messages
\* (inet-private.c:90-197).
THEOREM InvariantHolds == Spec => []IInv
<1>1. Init => IInv
  BY InvariantInit
<1>2. IInv /\ [Next]_vars => IInv'
  BY InvariantNext
<1> QED BY <1>1, <1>2, PTL DEF Spec

\* No byte is lost, repeated or moved, however write and read cut the stream.
THEOREM StreamIsExact == Spec => []StreamExact
<1>1. IInv => StreamExact
  BY DEF IInv
<1> QED BY <1>1, InvariantHolds, PTL

\* network_send_message and network_receive_message implement a channel of whole
\* messages that arrive once and in order: every step of theirs is a Put, a Get or an
\* End of MessageChannel, or changes nothing there.
THEOREM Refinement == Spec => ImplementsChannel
<1>1. Init => Channel!Init
  <2> SUFFICES ASSUME Init PROVE Channel!Init
    OBVIOUS
  <2>1. sent = <<>> /\ received = <<>> /\ receiving = "size"
    BY DEF Init
  <2>2. SubSeq(<<>>, Len(<<>>) + 1, Len(<<>>)) = <<>>
    OBVIOUS
  <2> QED BY <2>1, <2>2 DEF Channel!Init
<1>2. IInv /\ [Next]_vars => [Channel!Next]_Channel!vars
  <2> SUFFICES ASSUME IInv, [Next]_vars
               PROVE  Channel!Next \/ UNCHANGED Channel!vars
    OBVIOUS
  <2> DEFINE pipe == SubSeq(sent, Len(received) + 1, Len(sent))
             from == Len(received) + 1
  <2>1. /\ sent \in Seq(Payloads) /\ received \in Seq(Payloads)
        /\ Len(sent) \in Nat /\ Len(received) \in Nat /\ Len(received) <= Len(sent)
    BY LenProperties DEF IInv, TypeOK, EndsConsistent, IsPrefix
  <2>2. CASE SendMessage
    <3>1. PICK m \in Payloads : sent' = Append(sent, m)
      BY <2>2 DEF SendMessage
    <3>2. UNCHANGED <<received, receiving>>
      BY <2>2 DEF SendMessage, receiverVars
    <3>3. SubSeq(sent', from, Len(sent')) = Append(pipe, m)
      <4> DEFINE s == sent'
                 a == SubSeq(s, from, Len(s))
                 b == SubSeq(sent, from, Len(sent))
      <4>1. /\ s \in Seq(Payloads) /\ Len(s) = Len(sent) + 1
            /\ \A n \in 1 .. Len(sent) : s[n] = sent[n]
            /\ s[Len(sent) + 1] = m
        BY <2>1, <3>1, AppendProperties
      <4>2. /\ \A n \in from .. Len(s) : s[n] \in Payloads
            /\ \A n \in from .. Len(sent) : sent[n] \in Payloads
            /\ from \in Int /\ Len(s) \in Int /\ Len(sent) \in Int
        BY <2>1, <4>1, ElementOfSeq
      <4> HIDE DEF s
      <4>3. /\ a \in Seq(Payloads)
            /\ Len(a) = IF from <= Len(s) THEN Len(s) - from + 1 ELSE 0
            /\ \A n \in 1 .. Len(s) - from + 1 : a[n] = s[from + n - 1]
        BY <4>2, SubSeqProperties
      <4>4. /\ b \in Seq(Payloads)
            /\ Len(b) = IF from <= Len(sent) THEN Len(sent) - from + 1 ELSE 0
            /\ \A n \in 1 .. Len(sent) - from + 1 : b[n] = sent[from + n - 1]
        BY <4>2, SubSeqProperties
      <4> HIDE DEF a, b
      <4>5. /\ Append(b, m) \in Seq(Payloads) /\ Len(Append(b, m)) = Len(b) + 1
            /\ \A n \in 1 .. Len(b) : Append(b, m)[n] = b[n]
            /\ Append(b, m)[Len(b) + 1] = m
        BY <4>4, AppendProperties
      <4>6. Len(a) = Len(b) + 1 /\ Len(b) = Len(sent) - Len(received) /\ Len(a) = Len(s) - from + 1
        BY <2>1, <4>1, <4>3, <4>4
      <4>7. \A n \in 1 .. Len(a) : a[n] = Append(b, m)[n]
        <5> SUFFICES ASSUME NEW n \in 1 .. Len(a) PROVE a[n] = Append(b, m)[n]
          OBVIOUS
        <5> HIDE DEF from
        <5>1. n \in Int /\ 1 <= n /\ n <= Len(b) + 1 /\ Len(b) \in Nat
          BY <4>4, <4>6, LenProperties
        <5>2. from = Len(received) + 1
          BY DEF from
        <5>3. n \in 1 .. Len(s) - from + 1
          BY <2>1, <4>1, <4>6, <5>1, <5>2
        <5>4. a[n] = s[from + n - 1]
          BY <4>3, <5>3
        <5>5. CASE n <= Len(b)
          <6>1. n \in 1 .. Len(b) /\ n \in 1 .. Len(sent) - from + 1 /\ from + n - 1 \in 1 .. Len(sent)
            BY <2>1, <4>6, <5>1, <5>2, <5>5
          <6>2. s[from + n - 1] = sent[from + n - 1]
            BY <4>1, <6>1
          <6>3. b[n] = sent[from + n - 1]
            BY <4>4, <6>1
          <6>4. Append(b, m)[n] = b[n]
            BY <4>5, <6>1
          <6> QED BY <5>4, <6>2, <6>3, <6>4
        <5>6. CASE n = Len(b) + 1
          <6>1. from + n - 1 = Len(sent) + 1
            BY <2>1, <4>6, <5>1, <5>2, <5>6
          <6>2. a[n] = m
            BY <4>1, <5>4, <6>1
          <6>3. Append(b, m)[n] = m
            BY <4>5, <5>6
          <6> QED BY <6>2, <6>3
        <5> QED BY <5>1, <5>5, <5>6
      <4>8. a = Append(b, m)
        BY <4>3, <4>5, <4>6, <4>7, SeqEqual
      <4> QED BY <4>8 DEF a, b, s
    <3> HIDE DEF pipe
    <3>4. Channel!Put
      BY <3>1, <3>2, <3>3 DEF Channel!Put, pipe
    <3> QED BY <3>4 DEF Channel!Next
  <2>3. CASE Write \/ WriteFails \/ Close \/ Reset
    <3>1. UNCHANGED <<sent, received, receiving>>
      BY <2>3 DEF Write, WriteFails, Close, Reset, senderVars, receiverVars
    <3> QED BY <3>1 DEF Channel!vars
  <2>4. CASE Read
    <3>1. /\ receiving # "failed" /\ receiving' # "failed" /\ sent' = sent
          /\ \/ UNCHANGED received
             \/ Len(received) < Len(sent) /\ received' = Append(received, sent[Len(received) + 1])
      BY <2>4, ReadNext
    <3>2. CASE UNCHANGED received
      <4>1. (receiving # "failed")' = (receiving # "failed")
        BY <3>1
      <4> QED BY <3>1, <3>2, <4>1 DEF Channel!vars
    <3>3. CASE Len(received) < Len(sent) /\ received' = Append(received, sent[Len(received) + 1])
      <4>1. Len(received') = Len(received) + 1
        BY <2>1, <3>3, AppendProperties
      <4>2. /\ pipe # <<>> /\ Head(pipe) = sent[from]
            /\ Tail(pipe) = SubSeq(sent, from + 1, Len(sent))
        <5>1. from \in 1 .. Len(sent) /\ Len(sent) \in from .. Len(sent)
          BY <2>1, <3>3
        <5>2. Head(pipe) = sent[from] /\ Tail(pipe) = SubSeq(sent, from + 1, Len(sent))
          BY <2>1, <5>1, HeadTailOfSubSeq
        <5>3. Len(pipe) = Len(sent) - from + 1
          <6>1. \A n \in from .. Len(sent) : sent[n] \in Payloads
            BY <2>1, ElementOfSeq
          <6> QED BY <2>1, <5>1, <6>1, SubSeqProperties
        <5>4. pipe # <<>>
          <6>1. Len(<<>>) = 0
            OBVIOUS
          <6> QED BY <2>1, <3>3, <5>3, <6>1
        <5> QED BY <5>2, <5>4
      <4>3. pipe' = Tail(pipe) /\ received' = Append(received, Head(pipe))
        BY <3>1, <3>3, <4>1, <4>2
      <4>4. (receiving # "failed")' = (receiving # "failed") /\ receiving # "failed"
        BY <3>1
      <4>5. Channel!Get
        BY <4>2, <4>3, <4>4 DEF Channel!Get
      <4> QED BY <4>5 DEF Channel!Next
    <3> QED BY <3>1, <3>2, <3>3
  <2>5. CASE ReadFails
    <3>1. receiving # "failed" /\ receiving' = "failed" /\ UNCHANGED <<sent, received>>
      BY <2>5 DEF ReadFails, senderVars
    <3>2. Channel!End
      BY <3>1 DEF Channel!End
    <3> QED BY <3>2 DEF Channel!Next
  <2>6. CASE UNCHANGED vars
    BY <2>6 DEF vars, senderVars, receiverVars, Channel!vars
  <2> QED BY <2>2, <2>3, <2>4, <2>5, <2>6 DEF Next
<1>3. Spec => Channel!Spec
  BY <1>1, <1>2, InvariantHolds, PTL DEF Spec, Channel!Spec
<1> QED BY <1>3 DEF ImplementsChannel
=============================================================================
