--------------------------- MODULE Polling_proofs ---------------------------
(***************************************************************************)
(* Proofs about Polling, for any devices, sensors and kinds of sensors,    *)
(* and any number of endpoint changes, new sensors and GPIO signals.       *)
(***************************************************************************)
EXTENDS Polling, FiniteSetTheorems, SequenceTheorems, TLAPS

Assumptions == SensorsAssumption /\ KindsAssumption /\ ChangesAssumption

(* The types of the queues, and what they hold.                            *)
QueueTypes ==
    /\ queue \in [Devices -> Seq(Sensors)]
    /\ cur \in [Devices -> Sensors \union {NoSensor}]
    /\ due \in [Devices -> Nat]
    /\ \A d \in Devices : Queued(d) \subseteq Ours(d)
    /\ \A d \in Devices : cur[d] \in Ours(d) \union {NoSensor}
    /\ Configured \subseteq created

TypeInv == TypeOK /\ QueueTypes

(* No sensor but those of S is in q twice, or in q and updated as c.       *)
Apart(q, c, S) ==
    /\ \A i, j \in 1 .. Len(q) : i # j /\ q[i] = q[j] => q[i] \in S
    /\ \A i \in 1 .. Len(q) : q[i] = c => c \in S

(* Every sensor has a place, and one that is not static has only one.      *)
KeptAt(d) ==
    /\ \A s \in Ours(d) : s \in Queued(d) \/ s = cur[d] \/ s \in Static \intersect read
    /\ Apart(queue[d], cur[d], Static)

Kept == \A d \in Devices : KeptAt(d)

(* The sensors after a refreshed one, and those behind the first n, were   *)
(* renewed, or added later.  With EarlyStart nothing is said of them.      *)
Excuses(s, past) == ~EarlyStart /\ s \in Configured => s \in past
Sorted(q, fresh, past) ==
    \A i, j \in 1 .. Len(q) : i < j /\ q[i] \in fresh => Excuses(q[j], past)
Behind(q, n, past) == \A i \in 1 .. Len(q) : n < i => Excuses(q[i], past)

(* What makes the first refreshed sensor the end of a round.               *)
RoundAt(d) ==
    /\ Apart(queue[d], cur[d], {})
    /\ Sorted(queue[d], refreshed, renewed)
    /\ AtItsQueue(d) => Behind(queue[d], due[d], renewed)
    /\ d \in ready => Behind(queue[d], 0, renewed)

Round == \A d \in Devices : d \notin disturbed => RoundAt(d)

(* Nothing is skipped that is older than the limit: what makes up for the  *)
(* sensors that a round leaves out.                                        *)
Dated == ~EarlyStart => young \subseteq renewed

IInv == TypeInv /\ Kept /\ Round /\ Dated /\ EnabledMeansReady

-----------------------------------------------------------------------------
(***************************************************************************)
(* Sequences.                                                              *)
(***************************************************************************)

LEMMA TailFacts ==
    ASSUME NEW S, NEW q \in Seq(S), Len(q) > 0
    PROVE  /\ Tail(q) \in Seq(S) /\ Len(Tail(q)) = Len(q) - 1
           /\ Head(q) = q[1] /\ Head(q) \in S
           /\ \A i \in 1 .. Len(q) - 1 : Tail(q)[i] = q[i + 1]
           /\ ToSet(q) = ToSet(Tail(q)) \union {q[1]}
  <1>1. q # <<>>
    BY EmptySeq
  <1>2. /\ Tail(q) \in Seq(S) /\ Len(Tail(q)) = Len(q) - 1 /\ Head(q) = q[1] /\ Head(q) \in S
        /\ \A i \in 1 .. Len(q) - 1 : Tail(q)[i] = q[i + 1]
    BY <1>1, HeadTailProperties, LenProperties
  <1>3. DOMAIN q = 1 .. Len(q) /\ DOMAIN Tail(q) = 1 .. Len(q) - 1 /\ Len(q) \in Nat
    BY <1>2, LenProperties
  <1>4. \A i \in 1 .. Len(q) : i = 1 \/ (i - 1 \in 1 .. Len(q) - 1 /\ q[i] = Tail(q)[i - 1])
    BY <1>2, <1>3
  <1>5. \A i \in 1 .. Len(q) - 1 : i + 1 \in 1 .. Len(q)
    BY <1>3
  <1>6. 1 \in 1 .. Len(q)
    BY <1>3
  <1>7. ToSet(q) \subseteq ToSet(Tail(q)) \union {q[1]}
    <2> SUFFICES ASSUME NEW i \in 1 .. Len(q), q[i] # q[1]
                 PROVE  q[i] \in ToSet(Tail(q))
      BY <1>3 DEF ToSet
    <2>1. i - 1 \in 1 .. Len(q) - 1 /\ q[i] = Tail(q)[i - 1]
      BY <1>4
    <2> QED
      BY <1>3, <2>1 DEF ToSet
  <1>8. ToSet(Tail(q)) \subseteq ToSet(q)
    BY <1>2, <1>3, <1>5 DEF ToSet
  <1>9. q[1] \in ToSet(q)
    BY <1>3, <1>6 DEF ToSet
  <1> QED
    BY <1>2, <1>7, <1>8, <1>9

LEMMA AppendFacts ==
    ASSUME NEW S, NEW q \in Seq(S), NEW e \in S
    PROVE  /\ Append(q, e) \in Seq(S) /\ Len(Append(q, e)) = Len(q) + 1 /\ Len(q) \in Nat
           /\ \A i \in 1 .. Len(q) : Append(q, e)[i] = q[i]
           /\ Append(q, e)[Len(q) + 1] = e
           /\ ToSet(Append(q, e)) = ToSet(q) \union {e}
  <1>1. /\ Append(q, e) \in Seq(S) /\ Len(Append(q, e)) = Len(q) + 1 /\ Len(q) \in Nat
        /\ \A i \in 1 .. Len(q) : Append(q, e)[i] = q[i]
        /\ Append(q, e)[Len(q) + 1] = e
    BY AppendProperties, LenProperties
  <1>2. DOMAIN q = 1 .. Len(q) /\ DOMAIN Append(q, e) = 1 .. Len(q) + 1
    BY <1>1, LenProperties
  <1>3. 1 .. Len(q) + 1 = 1 .. Len(q) \union {Len(q) + 1}
    BY <1>1
  <1> QED
    BY <1>1, <1>2, <1>3 DEF ToSet

(* The queue after its first k sensors were skipped.                       *)
Rotated(q, k) == SubSeq(q, k + 1, Len(q)) \o SubSeq(q, 1, k)

LEMMA RestOfInterval ==
    \A n \in Nat : \A k \in 0 .. n : (IF k + 1 <= n THEN n - (k + 1) + 1 ELSE 0) = n - k
  OBVIOUS

LEMMA RotatedFacts ==
    ASSUME NEW S, NEW q \in Seq(S), NEW k \in 0 .. Len(q)
    PROVE  /\ Rotated(q, k) \in Seq(S) /\ Len(Rotated(q, k)) = Len(q)
           /\ \A i \in 1 .. Len(q) - k : Rotated(q, k)[i] = q[i + k]
           /\ \A i \in Len(q) - k + 1 .. Len(q) : Rotated(q, k)[i] = q[i - (Len(q) - k)]
           /\ ToSet(Rotated(q, k)) = ToSet(q)
  <1> DEFINE a == SubSeq(q, k + 1, Len(q))
             b == SubSeq(q, 1, k)
  <1>1. Len(q) \in Nat /\ DOMAIN q = 1 .. Len(q) /\ k \in Nat /\ k <= Len(q)
    BY LenProperties
  <1>2. /\ a \in Seq(S) /\ Len(a) = Len(q) - k
        /\ \A i \in 1 .. Len(q) - k : a[i] = q[i + k]
    <2>1. \A i \in k + 1 .. Len(q) : q[i] \in S
      BY <1>1, ElementOfSeq
    <2>2. /\ a \in Seq(S) /\ Len(a) = (IF k + 1 <= Len(q) THEN Len(q) - (k + 1) + 1 ELSE 0)
          /\ \A i \in 1 .. Len(q) - (k + 1) + 1 : a[i] = q[(k + 1) + i - 1]
      BY <1>1, <2>1, SubSeqProperties
    <2>3. Len(a) = Len(q) - k
      BY <1>1, <2>2, RestOfInterval
    <2>4. Len(q) - (k + 1) + 1 = Len(q) - k
      BY <1>1
    <2>5. \A i \in 1 .. Len(q) - k : (k + 1) + i - 1 = i + k
      BY <1>1
    <2>6. \A i \in 1 .. Len(q) - k : a[i] = q[i + k]
      BY <2>2, <2>4, <2>5
    <2> QED
      BY <2>2, <2>3, <2>6
  <1>3. /\ b \in Seq(S) /\ Len(b) = k
        /\ \A i \in 1 .. k : b[i] = q[i]
    <2>1. \A i \in 1 .. k : q[i] \in S
      BY <1>1, ElementOfSeq
    <2>2. /\ b \in Seq(S) /\ Len(b) = (IF 1 <= k THEN k - 1 + 1 ELSE 0)
          /\ \A i \in 1 .. k - 1 + 1 : b[i] = q[1 + i - 1]
      BY <1>1, <2>1, SubSeqProperties
    <2>3. Len(b) = k
      BY <1>1, <2>2
    <2>4. k - 1 + 1 = k /\ \A i \in 1 .. k : 1 + i - 1 = i
      BY <1>1
    <2>5. \A i \in 1 .. k : b[i] = q[i]
      BY <2>2, <2>4
    <2> QED
      BY <2>2, <2>3, <2>5
  <1>4. Rotated(q, k) = a \o b
    BY DEF Rotated
  <1> HIDE DEF a, b
  <1>5. /\ a \o b \in Seq(S) /\ Len(a \o b) = Len(q)
        /\ \A i \in 1 .. Len(q) : (a \o b)[i] = IF i <= Len(a) THEN a[i] ELSE b[i - Len(a)]
    <2>1. Len(a) + Len(b) = Len(q)
      BY <1>1, <1>2, <1>3
    <2>2. /\ a \o b \in Seq(S) /\ Len(a \o b) = Len(a) + Len(b)
          /\ \A i \in 1 .. Len(a) + Len(b) :
                (a \o b)[i] = IF i <= Len(a) THEN a[i] ELSE b[i - Len(a)]
      BY <1>2, <1>3, ConcatProperties
    <2> QED
      BY <2>1, <2>2
  <1>6. \A i \in 1 .. Len(q) - k : (a \o b)[i] = q[i + k]
    BY <1>1, <1>2, <1>5
  <1>7. \A i \in Len(q) - k + 1 .. Len(q) : (a \o b)[i] = q[i - (Len(q) - k)]
    <2> TAKE i \in Len(q) - k + 1 .. Len(q)
    <2>1. i \in 1 .. Len(q) /\ ~(i <= Len(a)) /\ i - Len(a) \in 1 .. k
      BY <1>1, <1>2
    <2> QED
      BY <1>2, <1>3, <1>5, <2>1
  <1>8. ToSet(a \o b) = ToSet(q)
    <2>1. DOMAIN (a \o b) = 1 .. Len(q)
      BY <1>5, LenProperties
    <2>2. \A i \in 1 .. Len(q) : \E j \in 1 .. Len(q) : (a \o b)[i] = q[j]
      <3> TAKE i \in 1 .. Len(q)
      <3>1. CASE i \in 1 .. Len(q) - k
        <4>1. i + k \in 1 .. Len(q)
          BY <1>1, <3>1
        <4> QED
          BY <1>6, <3>1, <4>1
      <3>2. CASE i \in Len(q) - k + 1 .. Len(q)
        <4>1. i - (Len(q) - k) \in 1 .. Len(q)
          BY <1>1, <3>2
        <4> QED
          BY <1>7, <3>2, <4>1
      <3>3. i \in 1 .. Len(q) - k \/ i \in Len(q) - k + 1 .. Len(q)
        BY <1>1
      <3> QED
        BY <3>1, <3>2, <3>3
    <2>3. \A j \in 1 .. Len(q) : \E i \in 1 .. Len(q) : (a \o b)[i] = q[j]
      <3> TAKE j \in 1 .. Len(q)
      <3>1. CASE j <= k
        <4>1. j + (Len(q) - k) \in Len(q) - k + 1 .. Len(q)
          BY <1>1, <3>1
        <4>2. (j + (Len(q) - k)) - (Len(q) - k) = j /\ j + (Len(q) - k) \in 1 .. Len(q)
          BY <1>1, <3>1
        <4>3. (a \o b)[j + (Len(q) - k)] = q[(j + (Len(q) - k)) - (Len(q) - k)]
          BY <1>7, <4>1
        <4> QED
          BY <4>2, <4>3
      <3>2. CASE j > k
        <4>1. j - k \in 1 .. Len(q) - k /\ (j - k) + k = j /\ j - k \in 1 .. Len(q)
          BY <1>1, <3>2
        <4> QED
          BY <1>6, <4>1
      <3>3. j <= k \/ j > k
        BY <1>1
      <3> QED
        BY <3>1, <3>2, <3>3
    <2>4. DOMAIN q = 1 .. Len(q)
      BY <1>1
    <2>5. ToSet(a \o b) \subseteq ToSet(q)
      BY <2>1, <2>2, <2>4, Zenon DEF ToSet
    <2>6. ToSet(q) \subseteq ToSet(a \o b)
      BY <2>1, <2>3, <2>4, Zenon DEF ToSet
    <2> QED
      BY <2>5, <2>6
  <1> QED
    BY <1>4, <1>5, <1>6, <1>7, <1>8

(* SetToSeq lists a finite set, each element once.                         *)
LEMMA SetToSeqFacts ==
    ASSUME NEW T, NEW S \in SUBSET T, IsFiniteSet(S)
    PROVE  /\ SetToSeq(S) \in Seq(T)
           /\ ToSet(SetToSeq(S)) = S
           /\ \A i, j \in DOMAIN SetToSeq(S) : SetToSeq(S)[i] = SetToSeq(S)[j] => i = j
  <1> DEFINE n == Cardinality(S)
             f == SetToSeq(S)
  <1>1. n \in Nat /\ ExistsBijection(1 .. n, S)
    BY FS_CardinalityType
  <1>2. \E g \in [1 .. n -> S] : IsInjective(g)
    BY <1>1 DEF ExistsBijection, Bijection, Injection
  <1>3. f \in [1 .. n -> S] /\ IsInjective(f)
    BY <1>2 DEF SetToSeq
  <1> HIDE DEF f
  <1>4. f \in Injection(1 .. n, S)
    BY <1>3 DEF Injection
  <1>5. Cardinality(1 .. n) = n
    BY <1>1, FS_Interval
  <1>6. f \in Surjection(1 .. n, S)
    BY <1>4, <1>5, FS_Injection
  <1>7. \A s \in S : \E i \in 1 .. n : f[i] = s
    BY <1>6 DEF Surjection
  <1>8. DOMAIN f = 1 .. n
    BY <1>3
  <1>9. ToSet(f) = S
    BY <1>3, <1>7, <1>8 DEF ToSet
  <1>10. f \in Seq(T)
    BY <1>1, <1>3
  <1> QED
    BY <1>3, <1>8, <1>9, <1>10 DEF f, IsInjective

-----------------------------------------------------------------------------
(***************************************************************************)
(* What skipping, taking and appending a sensor do to the invariants.      *)
(***************************************************************************)

LEMMA ApartRotated ==
    ASSUME NEW q \in Seq(Sensors), NEW k \in 0 .. Len(q), NEW c, NEW S, Apart(q, c, S)
    PROVE  Apart(Rotated(q, k), c, S)
  <1> DEFINE r == Rotated(q, k)
             m == Len(q) - k
             from(i) == IF i <= m THEN i + k ELSE i - m
  <1>1. Len(q) \in Nat /\ k \in Nat /\ m \in Nat /\ Len(r) = Len(q)
    BY LenProperties, RotatedFacts
  <1>2. /\ \A i \in 1 .. m : r[i] = q[i + k]
        /\ \A i \in m + 1 .. Len(q) : r[i] = q[i - m]
    BY RotatedFacts
  <1> HIDE DEF r
  <1>3. \A i \in 1 .. Len(q) : from(i) \in 1 .. Len(q) /\ r[i] = q[from(i)]
    <2> TAKE i \in 1 .. Len(q)
    <2>1. CASE i <= m
      <3>1. i \in 1 .. m /\ from(i) = i + k /\ i + k \in 1 .. Len(q)
        BY <1>1, <2>1
      <3> QED
        BY <1>2, <3>1
    <2>2. CASE ~(i <= m)
      <3>1. i \in m + 1 .. Len(q) /\ from(i) = i - m /\ i - m \in 1 .. Len(q)
        BY <1>1, <2>2
      <3> QED
        BY <1>2, <3>1
    <2> QED
      BY <2>1, <2>2
  <1>4. \A i, j \in 1 .. Len(q) : i # j => from(i) # from(j)
    BY <1>1
  <1> HIDE DEF from, m
  <1>5. \A i, j \in 1 .. Len(q) : i # j /\ r[i] = r[j] => r[i] \in S
    BY <1>3, <1>4 DEF Apart
  <1>6. \A i \in 1 .. Len(q) : r[i] = c => c \in S
    BY <1>3 DEF Apart
  <1>7. Apart(r, c, S)
    BY <1>1, <1>5, <1>6 DEF Apart
  <1> QED
    BY <1>7 DEF r

LEMMA ApartTail ==
    ASSUME NEW q \in Seq(Sensors), NEW c, NEW S, Len(q) > 0, Apart(q, c, S)
    PROVE  Apart(Tail(q), Head(q), S)
  <1>1. Len(q) \in Nat
    BY LenProperties
  <1>2. /\ Len(Tail(q)) = Len(q) - 1 /\ Head(q) = q[1]
        /\ \A i \in 1 .. Len(q) - 1 : Tail(q)[i] = q[i + 1]
    BY TailFacts
  <1>3. \A i \in 1 .. Len(q) - 1 : i + 1 \in 1 .. Len(q) /\ i + 1 # 1 /\ 1 \in 1 .. Len(q)
    BY <1>1
  <1>4. \A i, j \in 1 .. Len(q) - 1 : i # j => i + 1 # j + 1
    BY <1>1
  <1>5. \A i, j \in 1 .. Len(q) - 1 : i # j /\ q[i + 1] = q[j + 1] => q[i + 1] \in S
    BY <1>3, <1>4 DEF Apart
  <1>6. \A i \in 1 .. Len(q) - 1 : q[i + 1] = q[1] => q[1] \in S
    BY <1>3 DEF Apart
  <1> QED
    BY <1>2, <1>5, <1>6 DEF Apart

LEMMA ApartAppend ==
    ASSUME NEW q \in Seq(Sensors), NEW e \in Sensors, NEW S, Apart(q, e, S), NoSensor \notin Sensors
    PROVE  Apart(Append(q, e), NoSensor, S)
  <1>1. /\ Len(q) \in Nat /\ Len(Append(q, e)) = Len(q) + 1
        /\ \A i \in 1 .. Len(q) : Append(q, e)[i] = q[i]
        /\ Append(q, e)[Len(q) + 1] = e
    BY AppendFacts
  <1>2. \A i \in 1 .. Len(q) + 1 : i \in 1 .. Len(q) \/ i = Len(q) + 1
    BY <1>1
  <1>3. \A i \in 1 .. Len(q) : q[i] # NoSensor
    BY ElementOfSeq
  <1> QED
    BY <1>1, <1>2, <1>3 DEF Apart

LEMMA SortedRotated ==
    ASSUME NEW q \in Seq(Sensors), NEW k \in 0 .. Len(q), NEW fresh, NEW past,
           \A i \in 1 .. k : Excuses(q[i], past), Sorted(q, fresh, past)
    PROVE  Sorted(Rotated(q, k), fresh, past)
  <1> DEFINE r == Rotated(q, k)
             m == Len(q) - k
  <1>1. Len(q) \in Nat /\ k \in Nat /\ m \in Nat /\ Len(r) = Len(q)
    BY LenProperties, RotatedFacts
  <1>2. /\ \A i \in 1 .. m : r[i] = q[i + k]
        /\ \A i \in m + 1 .. Len(q) : r[i] = q[i - m]
    BY RotatedFacts
  <1> HIDE DEF r
  <1>3. SUFFICES ASSUME NEW i \in 1 .. Len(q), NEW j \in 1 .. Len(q), i < j, r[i] \in fresh
                 PROVE  Excuses(r[j], past)
    BY <1>1 DEF Sorted, r
  <1>4. CASE j <= m
    <2>1. i \in 1 .. m /\ j \in 1 .. m
      BY <1>1, <1>3, <1>4
    <2>2. i + k \in 1 .. Len(q) /\ j + k \in 1 .. Len(q) /\ i + k < j + k
      BY <1>1, <1>3, <2>1
    <2>3. r[i] = q[i + k] /\ r[j] = q[j + k]
      BY <1>2, <2>1
    <2> QED
      BY <1>3, <2>2, <2>3 DEF Sorted
  <1>5. CASE ~(j <= m)
    <2>1. j \in m + 1 .. Len(q) /\ j - m \in 1 .. k
      BY <1>1, <1>5
    <2> QED
      BY <1>2, <2>1
  <1> QED
    BY <1>4, <1>5

LEMMA BehindRotated ==
    ASSUME NEW q \in Seq(Sensors), NEW n \in 0 .. Len(q), NEW k \in 0 .. n, NEW fresh, NEW past,
           \A i \in 1 .. k : Excuses(q[i], past), Behind(q, n, past)
    PROVE  Behind(Rotated(q, k), n - k, past)
  <1> DEFINE r == Rotated(q, k)
             m == Len(q) - k
  <1>1. /\ Len(q) \in Nat /\ k \in Nat /\ m \in Nat /\ n \in Nat
        /\ k <= n /\ n <= Len(q) /\ k \in 0 .. Len(q)
    BY LenProperties
  <1>2. /\ Len(r) = Len(q)
        /\ \A i \in 1 .. m : r[i] = q[i + k]
        /\ \A i \in m + 1 .. Len(q) : r[i] = q[i - m]
    BY <1>1, RotatedFacts
  <1> HIDE DEF r
  <1>3. SUFFICES ASSUME NEW i \in 1 .. Len(q), n - k < i
                 PROVE  Excuses(r[i], past)
    BY <1>2 DEF Behind, r
  <1>4. CASE i <= m
    <2>1. i \in 1 .. m /\ i + k \in 1 .. Len(q) /\ n < i + k
      BY <1>1, <1>3, <1>4
    <2>2. r[i] = q[i + k]
      BY <1>2, <2>1
    <2> QED
      BY <2>1, <2>2 DEF Behind
  <1>5. CASE ~(i <= m)
    <2>1. i \in m + 1 .. Len(q) /\ i - m \in 1 .. k
      BY <1>1, <1>5
    <2> QED
      BY <1>2, <2>1
  <1> QED
    BY <1>4, <1>5

LEMMA TailInOrder ==
    ASSUME NEW q \in Seq(Sensors), NEW n \in Nat, NEW fresh, NEW past, Len(q) > 0
    PROVE  /\ Sorted(q, fresh, past) => Sorted(Tail(q), fresh, past)
           /\ Sorted(q, fresh, past) /\ Head(q) \in fresh => Behind(Tail(q), 0, past)
           /\ n > 0 /\ Behind(q, n, past) => Behind(Tail(q), n - 1, past)
           /\ Behind(q, 0, past) => Behind(Tail(q), 0, past)
  <1>1. Len(q) \in Nat
    BY LenProperties
  <1>2. /\ Len(Tail(q)) = Len(q) - 1 /\ Head(q) = q[1]
        /\ \A i \in 1 .. Len(q) - 1 : Tail(q)[i] = q[i + 1]
    BY TailFacts
  <1>3. \A i \in 1 .. Len(q) - 1 :
           i + 1 \in 1 .. Len(q) /\ 1 < i + 1 /\ 0 < i + 1 /\ 1 \in 1 .. Len(q)
    BY <1>1
  <1>4. \A i, j \in 1 .. Len(q) - 1 : i < j => i + 1 < j + 1
    BY <1>1
  <1>5. n > 0 => \A i \in 1 .. Len(q) - 1 : n - 1 < i => n < i + 1
    BY <1>1
  <1>6. Sorted(q, fresh, past) => Sorted(Tail(q), fresh, past)
    BY <1>2, <1>3, <1>4 DEF Sorted
  <1>7. Sorted(q, fresh, past) /\ Head(q) \in fresh => Behind(Tail(q), 0, past)
    BY <1>2, <1>3 DEF Sorted, Behind
  <1>8. n > 0 /\ Behind(q, n, past) => Behind(Tail(q), n - 1, past)
    BY <1>2, <1>3, <1>5 DEF Behind
  <1>9. Behind(q, 0, past) => Behind(Tail(q), 0, past)
    BY <1>2, <1>3 DEF Behind
  <1> QED
    BY <1>6, <1>7, <1>8, <1>9

(* A sensor that joins the queue was renewed, or was not there from the    *)
(* beginning.                                                              *)
LEMMA AppendInOrder ==
    ASSUME NEW q \in Seq(Sensors), NEW e \in Sensors, NEW n \in 0 .. Len(q), NEW fresh, NEW past,
           Excuses(e, past)
    PROVE  /\ Sorted(q, fresh, past) => Sorted(Append(q, e), fresh, past)
           /\ Behind(q, n, past) => Behind(Append(q, e), n, past)
  <1>1. /\ Len(q) \in Nat /\ Len(Append(q, e)) = Len(q) + 1
        /\ \A i \in 1 .. Len(q) : Append(q, e)[i] = q[i]
        /\ Append(q, e)[Len(q) + 1] = e
    BY AppendFacts
  <1>2. \A i \in 1 .. Len(q) + 1 : i \in 1 .. Len(q) \/ i = Len(q) + 1
    BY <1>1
  <1>3. \A i, j \in 1 .. Len(q) + 1 : i < j => i \in 1 .. Len(q)
    BY <1>1
  <1>4. Sorted(q, fresh, past) => Sorted(Append(q, e), fresh, past)
    BY <1>1, <1>2, <1>3 DEF Sorted
  <1>5. Behind(q, n, past) => Behind(Append(q, e), n, past)
    BY <1>1, <1>2 DEF Behind
  <1> QED
    BY <1>4, <1>5

-----------------------------------------------------------------------------
(***************************************************************************)
(* The round-robin loop.                                                   *)
(***************************************************************************)

LEMMA QueueTypesAt ==
    ASSUME Assumptions, TypeInv, NEW d \in Devices
    PROVE  /\ queue[d] \in Seq(Sensors) /\ Len(queue[d]) \in Nat
           /\ DOMAIN queue[d] = 1 .. Len(queue[d])
           /\ \A i \in 1 .. Len(queue[d]) : queue[d][i] \in Queued(d)
           /\ \A s \in Queued(d) : \E i \in 1 .. Len(queue[d]) : s = queue[d][i]
           /\ Queued(d) \subseteq Ours(d) /\ Ours(d) \subseteq Sensors
           /\ cur[d] \in Ours(d) \union {NoSensor}
           /\ due[d] \in Nat /\ due[d] \in 0 .. Len(queue[d])
  <1>1. queue[d] \in Seq(Sensors) /\ due[d] \in Nat
    BY DEF TypeInv, QueueTypes
  <1>2. Len(queue[d]) \in Nat /\ DOMAIN queue[d] = 1 .. Len(queue[d])
    BY <1>1, LenProperties
  <1>3. Queued(d) = {queue[d][i] : i \in 1 .. Len(queue[d])}
    BY <1>2 DEF Queued, ToSet
  <1>4. Queued(d) \subseteq Ours(d) /\ cur[d] \in Ours(d) \union {NoSensor}
    BY DEF TypeInv, QueueTypes
  <1>5. due[d] \in 0 .. Len(queue[d])
    BY DEF TypeInv, TypeOK
  <1>6. Ours(d) \subseteq Sensors
    BY DEF Ours, TypeInv, TypeOK
  <1> QED
    BY <1>1, <1>2, <1>3, <1>4, <1>5, <1>6

(* The outcome of the loop, given what it was to do.                       *)
Rests(d, q, n, k) ==
    /\ queue' = [queue EXCEPT ![d] = Rotated(q, k)]
    /\ cur' = [cur EXCEPT ![d] = NoSensor]
    /\ \/ /\ pc' = [pc EXCEPT ![d] = "asleep"]
          /\ due' = [due EXCEPT ![d] = 0]
          /\ UNCHANGED readyVars \/ (k = n /\ MarkReady(d))
       \/ /\ k = 0
          /\ pc' = [pc EXCEPT ![d] = "throttled"]
          /\ due' = [due EXCEPT ![d] = n]
          /\ UNCHANGED readyVars

Takes(d, q, n, k, fresh) ==
    /\ k < n
    /\ queue' = [queue EXCEPT ![d] = Tail(Rotated(q, k))]
    /\ cur' = [cur EXCEPT ![d] = Head(Rotated(q, k))]
    /\ pc' = [pc EXCEPT ![d] = "updating"]
    /\ due' = [due EXCEPT ![d] = n - k - 1]
    /\ UNCHANGED readyVars \/ (Head(Rotated(q, k)) \in fresh /\ MarkReady(d))

LEMMA RoundRobinCases ==
    ASSUME NEW d, NEW q, NEW n, NEW others, NEW fresh, NEW stamps, NEW timeLeft,
           RoundRobin(d, q, n, others, fresh, stamps, timeLeft)
    PROVE  \E k \in 0 .. n : /\ \A i \in 1 .. k : q[i] \in stamps
                             /\ Rests(d, q, n, k) \/ Takes(d, q, n, k, fresh)
  <1> DEFINE r(k) == Rotated(q, k)
  <1>1. PICK k \in 0 .. n :
            /\ \A i \in 1 .. k : MaySkip(q[i], stamps)
            /\ Throttled(d, others) => k = 0
            /\ \/ /\ ~timeLeft
                  /\ queue' = [queue EXCEPT ![d] = r(k)]
                  /\ EndInterval(d)
                  /\ UNCHANGED readyVars
               \/ /\ timeLeft /\ k = n
                  /\ queue' = [queue EXCEPT ![d] = r(k)]
                  /\ EndInterval(d)
                  /\ MayMarkReady(d)
               \/ /\ timeLeft /\ k < n /\ Throttled(d, others)
                  /\ queue' = [queue EXCEPT ![d] = r(k)]
                  /\ pc' = [pc EXCEPT ![d] = "throttled"]
                  /\ cur' = [cur EXCEPT ![d] = NoSensor]
                  /\ due' = [due EXCEPT ![d] = n]
                  /\ UNCHANGED readyVars
               \/ /\ timeLeft /\ k < n /\ ~Throttled(d, others)
                  /\ queue' = [queue EXCEPT ![d] = Tail(r(k))]
                  /\ pc' = [pc EXCEPT ![d] = "updating"]
                  /\ cur' = [cur EXCEPT ![d] = Head(r(k))]
                  /\ due' = [due EXCEPT ![d] = n - k - 1]
                  /\ IF Head(r(k)) \in fresh THEN MayMarkReady(d) ELSE UNCHANGED readyVars
    BY Zenon DEF RoundRobin, Rotated
  <1> HIDE DEF r
  <1>2. \A i \in 1 .. k : q[i] \in stamps
    BY <1>1 DEF MaySkip
  <1>3. MayMarkReady(d) => UNCHANGED readyVars \/ MarkReady(d)
    BY DEF MayMarkReady
  <1>4. Rests(d, q, n, k) \/ Takes(d, q, n, k, fresh)
    BY <1>1, <1>3, Zenon DEF Rests, Takes, EndInterval, r
  <1> QED
    BY <1>2, <1>4

(* What the loop does to the queue of its device, and to nothing else.     *)
LEMMA RoundRobinEffect ==
    ASSUME Assumptions, TypeInv, NEW d \in Devices, NEW q \in Seq(Sensors), NEW n \in 0 .. Len(q),
           NEW others, NEW fresh, NEW past, NEW stamps, NEW timeLeft,
           RoundRobin(d, q, n, others, fresh, stamps, timeLeft),
           \A s \in stamps : Excuses(s, past)
    PROVE  /\ queue' = [queue EXCEPT ![d] = queue'[d]] /\ queue'[d] \in Seq(Sensors)
           /\ cur' = [cur EXCEPT ![d] = cur'[d]] /\ cur'[d] \in Sensors \union {NoSensor}
           /\ due' = [due EXCEPT ![d] = due'[d]] /\ due'[d] \in 0 .. Len(queue'[d])
           /\ pc' = [pc EXCEPT ![d] = pc'[d]] /\ pc'[d] \in {"asleep", "throttled", "updating"}
           /\ (cur'[d] # NoSensor) = (pc'[d] = "updating")
           /\ UNCHANGED readyVars \/ MarkReady(d)
           /\ ToSet(q) \ {cur'[d]} \subseteq ToSet(queue'[d])
           /\ ToSet(queue'[d]) \subseteq ToSet(q) /\ cur'[d] \in ToSet(q) \union {NoSensor}
           /\ \A S : Apart(q, NoSensor, S) => Apart(queue'[d], cur'[d], S)
           /\ Sorted(q, fresh, past) => Sorted(queue'[d], fresh, past)
           /\ Behind(q, n, past) /\ pc'[d] # "asleep" => Behind(queue'[d], due'[d], past)
           /\ Behind(q, 0, past) => Behind(queue'[d], 0, past)
           /\ Sorted(q, fresh, past) /\ Behind(q, n, past) /\ MarkReady(d) =>
                 Behind(queue'[d], 0, past)
  <1>1. PICK k \in 0 .. n : /\ \A i \in 1 .. k : Excuses(q[i], past)
                            /\ Rests(d, q, n, k) \/ Takes(d, q, n, k, fresh)
    BY RoundRobinCases
  <1> DEFINE r == Rotated(q, k)
  <1>2. /\ Len(q) \in Nat /\ n \in Nat /\ k \in Nat /\ n <= Len(q) /\ k <= n /\ k \in 0 .. Len(q)
    BY LenProperties
  <1>3. r \in Seq(Sensors) /\ Len(r) = Len(q) /\ ToSet(r) = ToSet(q)
    BY <1>2, RotatedFacts
  <1>4. \A S : Apart(q, NoSensor, S) => Apart(r, NoSensor, S)
    BY <1>2, ApartRotated
  <1>5. Sorted(q, fresh, past) => Sorted(r, fresh, past)
    BY <1>1, <1>2, SortedRotated
  <1>6. Behind(q, n, past) => Behind(r, n - k, past)
    BY <1>1, <1>2, BehindRotated
  <1>7. Behind(q, 0, past) => Behind(r, 0, past)
    <2>1. Behind(q, 0, past) => \A i \in 1 .. Len(q) : Excuses(q[i], past)
      BY <1>2 DEF Behind
    <2>2. (\A s \in ToSet(q) : Excuses(s, past)) => Behind(r, 0, past)
      <3>1. DOMAIN r = 1 .. Len(r)
        BY <1>3, LenProperties
      <3> QED
        BY <1>3, <3>1 DEF ToSet, Behind
    <2>3. DOMAIN q = 1 .. Len(q)
      BY LenProperties
    <2> QED
      BY <2>1, <2>2, <2>3 DEF ToSet
  <1>8. NoSensor \notin Sensors
    BY DEF Assumptions, SensorsAssumption
  <1>9. /\ queue \in [Devices -> Seq(Sensors)] /\ cur \in [Devices -> Sensors \union {NoSensor}]
        /\ due \in [Devices -> Nat] /\ DOMAIN pc = Devices
    BY DEF TypeInv, QueueTypes, TypeOK
  <1> HIDE DEF r
  <1>10. CASE Rests(d, q, n, k)
    <2>1. /\ queue' = [queue EXCEPT ![d] = r] /\ cur' = [cur EXCEPT ![d] = NoSensor]
          /\ queue'[d] = r /\ cur'[d] = NoSensor
      BY <1>9, <1>10 DEF Rests, r
    <2>2. \/ /\ pc' = [pc EXCEPT ![d] = "asleep"] /\ pc'[d] = "asleep"
             /\ due' = [due EXCEPT ![d] = 0] /\ due'[d] = 0
             /\ UNCHANGED readyVars \/ (k = n /\ MarkReady(d))
          \/ /\ k = 0
             /\ pc' = [pc EXCEPT ![d] = "throttled"] /\ pc'[d] = "throttled"
             /\ due' = [due EXCEPT ![d] = n] /\ due'[d] = n
             /\ UNCHANGED readyVars
      BY <1>9, <1>10 DEF Rests
    <2>3. due'[d] \in 0 .. Len(r) /\ pc'[d] \in {"asleep", "throttled"}
      BY <1>2, <1>3, <2>2
    <2>4. Behind(q, n, past) /\ pc'[d] # "asleep" => Behind(r, due'[d], past)
      <3>1. pc'[d] # "asleep" => k = 0 /\ due'[d] = n /\ n - k = n
        BY <1>2, <2>2
      <3> QED
        BY <1>6, <3>1
    <2>5. Behind(q, n, past) /\ MarkReady(d) => Behind(r, 0, past)
      <3>1. MarkReady(d) => k = n /\ n - k = 0
        <4>1. MarkReady(d) => ~UNCHANGED readyVars
          BY DEF MarkReady, readyVars
        <4> QED
          BY <1>2, <2>2, <4>1
      <3> QED
        BY <1>6, <3>1
    <2> QED
      BY <1>3, <1>4, <1>5, <1>7, <1>8, <2>1, <2>2, <2>3, <2>4, <2>5
  <1>11. CASE Takes(d, q, n, k, fresh)
    <2>1. /\ queue' = [queue EXCEPT ![d] = Tail(r)] /\ queue'[d] = Tail(r)
          /\ cur' = [cur EXCEPT ![d] = Head(r)] /\ cur'[d] = Head(r)
          /\ pc' = [pc EXCEPT ![d] = "updating"] /\ pc'[d] = "updating"
          /\ due' = [due EXCEPT ![d] = n - k - 1] /\ due'[d] = n - k - 1
          /\ k < n
          /\ UNCHANGED readyVars \/ (Head(r) \in fresh /\ MarkReady(d))
      BY <1>9, <1>11 DEF Takes, r
    <2>2. Len(r) > 0 /\ n - k \in Nat /\ n - k > 0
      BY <1>2, <1>3, <2>1
    <2>3. /\ Tail(r) \in Seq(Sensors) /\ Len(Tail(r)) = Len(r) - 1
          /\ Head(r) = r[1] /\ Head(r) \in Sensors
          /\ ToSet(r) = ToSet(Tail(r)) \union {r[1]}
      BY <1>3, <2>2, TailFacts
    <2>4. n - k - 1 \in 0 .. Len(Tail(r))
      BY <1>2, <1>3, <2>2, <2>3
    <2>5. \A S : Apart(q, NoSensor, S) => Apart(Tail(r), Head(r), S)
      BY <1>3, <1>4, <2>2, ApartTail
    <2>6. /\ Sorted(r, fresh, past) => Sorted(Tail(r), fresh, past)
          /\ Sorted(r, fresh, past) /\ Head(r) \in fresh => Behind(Tail(r), 0, past)
          /\ Behind(r, n - k, past) => Behind(Tail(r), n - k - 1, past)
          /\ Behind(r, 0, past) => Behind(Tail(r), 0, past)
      BY <1>3, <2>2, TailInOrder
    <2>7. Sorted(q, fresh, past) /\ MarkReady(d) => Behind(Tail(r), 0, past)
      <3>1. MarkReady(d) => ~UNCHANGED readyVars
        BY DEF MarkReady, readyVars
      <3> QED
        BY <1>5, <2>1, <2>6, <3>1
    <2>8. Head(r) # NoSensor
      BY <1>8, <2>3
    <2> QED
      BY <1>3, <1>5, <1>6, <1>7, <2>1, <2>3, <2>4, <2>5, <2>6, <2>7, <2>8
  <1> QED
    BY <1>1, <1>10, <1>11

(* A device whose queue is left alone.                                     *)
LEMMA SameOrder ==
    ASSUME NEW q, NEW f, NEW f2, NEW g, NEW g2,
           \A i \in 1 .. Len(q) : /\ q[i] \in f <=> q[i] \in g
                                  /\ q[i] \in f2 => q[i] \in g2
    PROVE  /\ Sorted(q, f, f2) => Sorted(q, g, g2)
           /\ \A n : Behind(q, n, f2) => Behind(q, n, g2)
  BY DEF Sorted, Behind, Excuses

LEMMA DeviceLeftAlone ==
    ASSUME Assumptions, IInv, NEW c \in Devices,
           queue'[c] = queue[c], cur'[c] = cur[c],
           \A s \in SensorsOf[c] : /\ s \in refreshed <=> s \in refreshed'
                                   /\ s \in renewed => s \in renewed'
                                   /\ s \in created' => s \in created
                                   /\ s \in read => s \in read',
           c \notin disturbed' => c \notin disturbed,
           c \in ready' => c \in ready,
           AtItsQueue(c)' => AtItsQueue(c) /\ due'[c] = due[c]
    PROVE  KeptAt(c)' /\ (c \notin disturbed' => RoundAt(c)')
  <1>1. /\ \A i \in 1 .. Len(queue[c]) : queue[c][i] \in Queued(c)
        /\ Queued(c) \subseteq SensorsOf[c]
    BY QueueTypesAt DEF IInv, Ours
  <1>2. KeptAt(c)'
    <2>1. \A s \in Ours(c)' : s \in Ours(c)
      BY DEF Ours
    <2>2. KeptAt(c) /\ Queued(c)' = Queued(c)
      BY DEF IInv, Kept, Queued
    <2>3. \A s \in Ours(c) : s \in read => s \in read'
      BY DEF Ours
    <2>4. \A s \in Ours(c)' : s \in Queued(c)' \/ s = cur'[c] \/ s \in Static \intersect read'
      BY <2>1, <2>2, <2>3 DEF KeptAt
    <2>5. Apart(queue'[c], cur'[c], Static)
      BY <2>2 DEF KeptAt
    <2> QED
      BY <2>4, <2>5 DEF KeptAt
  <1>3. c \notin disturbed' => RoundAt(c)'
    <2> SUFFICES ASSUME c \notin disturbed'
                 PROVE  RoundAt(c)'
      OBVIOUS
    <2>1. RoundAt(c)
      BY DEF IInv, Round
    <2>2. \A i \in 1 .. Len(queue[c]) : queue[c][i] \in SensorsOf[c]
      BY <1>1
    <2>3. \A i \in 1 .. Len(queue[c]) :
             /\ queue[c][i] \in refreshed <=> queue[c][i] \in refreshed'
             /\ queue[c][i] \in renewed => queue[c][i] \in renewed'
      BY <2>2
    <2>4. /\ Sorted(queue[c], refreshed, renewed) => Sorted(queue[c], refreshed', renewed')
          /\ \A n : Behind(queue[c], n, renewed) => Behind(queue[c], n, renewed')
      BY <2>3, SameOrder
    <2>5. Sorted(queue'[c], refreshed', renewed') /\ Apart(queue'[c], cur'[c], {})
      BY <2>1, <2>4 DEF RoundAt
    <2>6. AtItsQueue(c)' => Behind(queue'[c], due'[c], renewed')
      BY <2>1, <2>4 DEF RoundAt
    <2>7. c \in ready' => Behind(queue'[c], 0, renewed')
      BY <2>1, <2>4 DEF RoundAt
    <2> QED
      BY <2>5, <2>6, <2>7 DEF RoundAt
  <1> QED
    BY <1>2, <1>3

LEMMA RoundRobinKeeps ==
    ASSUME Assumptions, IInv, NEW d \in Devices, NEW q \in Seq(Sensors), NEW n \in 0 .. Len(q),
           NEW others, NEW timeLeft,
           RoundRobin(d, q, n, others, refreshed', young', timeLeft),
           ToSet(q) \subseteq Ours(d),
           \A s \in Ours(d) : s \in ToSet(q) \/ s \in Static \intersect read',
           Apart(q, NoSensor, Static),
           d \notin disturbed => /\ Apart(q, NoSensor, {})
                                 /\ Sorted(q, refreshed', renewed') /\ Behind(q, n, renewed')
                                 /\ d \in ready => Behind(q, 0, renewed'),
           \A s \in Sensors \ SensorsOf[d] : /\ s \in refreshed <=> s \in refreshed'
                                             /\ s \in renewed => s \in renewed'
                                             /\ s \in read => s \in read',
           refreshed' \subseteq created, renewed' \subseteq created, read' \subseteq created,
           young' \subseteq Sensors, Dated',
           atPriority' \subseteq Devices,
           UNCHANGED <<long, created, active, reachable, checkable, disturbed, changes>>
    PROVE  IInv'
  <1>0. \A s \in young' : Excuses(s, renewed')
    BY DEF Dated, Excuses
  <1>1. /\ queue' = [queue EXCEPT ![d] = queue'[d]] /\ queue'[d] \in Seq(Sensors)
        /\ cur' = [cur EXCEPT ![d] = cur'[d]] /\ cur'[d] \in Sensors \union {NoSensor}
        /\ due' = [due EXCEPT ![d] = due'[d]] /\ due'[d] \in 0 .. Len(queue'[d])
        /\ pc' = [pc EXCEPT ![d] = pc'[d]] /\ pc'[d] \in {"asleep", "throttled", "updating"}
        /\ (cur'[d] # NoSensor) = (pc'[d] = "updating")
    BY <1>0, RoundRobinEffect DEF IInv
  <1>2. UNCHANGED readyVars \/ MarkReady(d)
    BY <1>0, RoundRobinEffect DEF IInv
  <1>3. /\ ToSet(q) \ {cur'[d]} \subseteq ToSet(queue'[d])
        /\ ToSet(queue'[d]) \subseteq ToSet(q) /\ cur'[d] \in ToSet(q) \union {NoSensor}
    BY <1>0, RoundRobinEffect DEF IInv
  <1>4. \A S : Apart(q, NoSensor, S) => Apart(queue'[d], cur'[d], S)
    BY <1>0, RoundRobinEffect DEF IInv
  <1>5. /\ Sorted(q, refreshed', renewed') => Sorted(queue'[d], refreshed', renewed')
        /\ Behind(q, n, renewed') /\ pc'[d] # "asleep" => Behind(queue'[d], due'[d], renewed')
        /\ Behind(q, 0, renewed') => Behind(queue'[d], 0, renewed')
        /\ Sorted(q, refreshed', renewed') /\ Behind(q, n, renewed') /\ MarkReady(d) =>
              Behind(queue'[d], 0, renewed')
    BY <1>0, RoundRobinEffect DEF IInv
  <1>6. /\ TypeOK /\ queue \in [Devices -> Seq(Sensors)]
        /\ cur \in [Devices -> Sensors \union {NoSensor}] /\ due \in [Devices -> Nat]
        /\ DOMAIN pc = Devices
    BY DEF IInv, TypeInv, QueueTypes, TypeOK
  <1>7. \A c \in Devices \ {d} :
           queue'[c] = queue[c] /\ cur'[c] = cur[c] /\ due'[c] = due[c] /\ pc'[c] = pc[c]
    BY <1>1, <1>6
  <1>8. \A c \in Devices : Ours(c)' = Ours(c) /\ Queued(c)' = ToSet(queue'[c])
    BY DEF Ours, Queued
  <1>9. ready' \subseteq ready \union {d} /\ service' \in {"Starting", "Enabled"}
    BY <1>2, <1>6 DEF MarkReady, readyVars, TypeOK
  <1>10. TypeInv'
    <2>1. \A c \in Devices : /\ Queued(c)' \subseteq Ours(c)' /\ cur'[c] \in Ours(c)' \union {NoSensor}
                             /\ (cur'[c] # NoSensor) = (pc'[c] = "updating")
                             /\ due'[c] \in 0 .. Len(queue'[c])
      <3> TAKE c \in Devices
      <3>1. CASE c = d
        BY <1>1, <1>3, <1>8, <3>1
      <3>2. CASE c # d
        <4>1. /\ Queued(c) \subseteq Ours(c) /\ cur[c] \in Ours(c) \union {NoSensor}
              /\ due[c] \in 0 .. Len(queue[c])
          BY QueueTypesAt DEF IInv
        <4>2. (cur[c] # NoSensor) = (pc[c] = "updating")
          BY <1>6 DEF TypeOK
        <4>3. Queued(c)' = Queued(c)
          BY <1>7, <1>8, <3>2 DEF Queued
        <4> QED
          BY <1>7, <1>8, <3>2, <4>1, <4>2, <4>3
      <3> QED
        BY <3>1, <3>2
    <2>2. \A c \in Devices : due'[c] \in Nat
      BY <1>1, <1>6, <1>7
    <2>3. /\ queue' \in [Devices -> Seq(Sensors)]
          /\ cur' \in [Devices -> Sensors \union {NoSensor}]
          /\ due' \in [Devices -> Nat]
      BY <1>1, <1>6, <2>2
    <2>4. QueueTypes'
      BY <2>1, <2>3 DEF QueueTypes, IInv, TypeInv
    <2>5. pc' \in [Devices -> {"none", "top", "inactive", "activating", "priority", "updating",
                              "throttled", "asleep"}]
      BY <1>1, <1>6 DEF TypeOK
    <2>6. \A c \in Devices : /\ Queued(c)' \subseteq SensorsOf[c]
                             /\ cur'[c] \in SensorsOf[c] \union {NoSensor}
      BY <2>1 DEF Ours
    <2>7. TypeOK'
      BY <1>6, <1>9, <2>1, <2>5, <2>6 DEF TypeOK
    <2> QED
      BY <2>4, <2>7 DEF TypeInv
  <1>11. KeptAt(d)'
    BY <1>3, <1>4, <1>8 DEF KeptAt
  <1>12. d \notin disturbed' => RoundAt(d)'
    <2>1. AtItsQueue(d)' => pc'[d] # "asleep"
      BY DEF AtItsQueue
    <2>2. d \in ready' => d \in ready \/ MarkReady(d)
      BY <1>2 DEF readyVars
    <2> QED
      BY <1>4, <1>5, <2>1, <2>2 DEF RoundAt
  <1>13. \A c \in Devices \ {d} : KeptAt(c)' /\ (c \notin disturbed' => RoundAt(c)')
    <2> TAKE c \in Devices \ {d}
    <2>1. SensorsOf[c] \subseteq Sensors \ SensorsOf[d]
      BY DEF Assumptions, SensorsAssumption
    <2>2. c \in ready' => c \in ready
      BY <1>9
    <2>3. AtItsQueue(c)' => AtItsQueue(c) /\ due'[c] = due[c]
      BY <1>7 DEF AtItsQueue
    <2> QED
      BY <1>7, <2>1, <2>2, <2>3, DeviceLeftAlone
  <1>14. EnabledMeansReady'
    BY <1>2 DEF IInv, EnabledMeansReady, MarkReady, readyVars
  <1> QED
    BY <1>10, <1>11, <1>12, <1>13, <1>14 DEF IInv, Kept, Round

-----------------------------------------------------------------------------
(***************************************************************************)
(* The steps.                                                              *)
(***************************************************************************)
Places5 == {"none", "top", "inactive", "activating", "priority"}
PcTypes == Places5 \union {"updating", "throttled", "asleep"}
LongTypes == {"none", "top", "waiting", "updating", "asleep"}

LEMMA InitIInv ==
    ASSUME Assumptions, Init
    PROVE  IInv
  <1> DEFINE C(d) == Configured \intersect SensorsOf[d]
  <1>1. \A d \in Devices : /\ SetToSeq(C(d)) \in Seq(Sensors) /\ ToSet(SetToSeq(C(d))) = C(d)
                           /\ \A i, j \in DOMAIN SetToSeq(C(d)) :
                                 SetToSeq(C(d))[i] = SetToSeq(C(d))[j] => i = j
    <2> TAKE d \in Devices
    <2>1. C(d) \in SUBSET Sensors /\ IsFiniteSet(C(d))
      BY FS_Subset DEF Assumptions, SensorsAssumption, KindsAssumption
    <2> HIDE DEF C
    <2> QED
      BY <2>1, SetToSeqFacts
  <1> HIDE DEF C
  <1>2. \A d \in Devices : queue[d] = SetToSeq(C(d)) /\ cur[d] = NoSensor /\ due[d] = 0
    BY DEF Init, C
  <1>3. \A d \in Devices : Ours(d) = C(d) /\ Queued(d) = C(d)
    BY <1>1, <1>2 DEF Init, Ours, C, Queued
  <1>4. \A d \in Devices : Len(queue[d]) \in Nat /\ DOMAIN queue[d] = 1 .. Len(queue[d])
    BY <1>1, <1>2, LenProperties
  <1>5. /\ queue \in [Devices -> Seq(Sensors)] /\ cur \in [Devices -> Sensors \union {NoSensor}]
        /\ due \in [Devices -> Nat]
    BY <1>1 DEF Init, C
  <1>6. \A d \in Devices : due[d] \in 0 .. Len(queue[d])
    BY <1>2, <1>4
  <1>7. QueueTypes
    BY <1>2, <1>3, <1>5 DEF QueueTypes, Init
  <1>8. \A d \in Devices : /\ Queued(d) \subseteq SensorsOf[d]
                           /\ (cur[d] # NoSensor) = (pc[d] = "updating")
    BY <1>2, <1>3 DEF Init, C
  <1>9. TypeOK
    <2>1. /\ pc \in [Devices -> {"none", "top", "inactive", "activating", "priority", "updating",
                                 "throttled", "asleep"}]
          /\ long \in [Devices -> {"none", "top", "waiting", "updating", "asleep"}]
      BY DEF Init
    <2>2. \A d \in Devices : cur[d] \in SensorsOf[d] \union {NoSensor}
      BY <1>2
    <2>3. changes \in 0 .. MaxChanges
      BY DEF Init, Assumptions, ChangesAssumption
    <2>6. checkable \in BOOLEAN /\ service \in {"Starting", "Enabled"}
      BY Zenon DEF Init
    <2>4. created \subseteq Sensors
      BY DEF Init, Assumptions, KindsAssumption
    <2>5. /\ refreshed = {} /\ renewed = {} /\ read = {} /\ active = {} /\ ready = {}
          /\ atPriority = {} /\ reachable = {} /\ disturbed = {}
      BY DEF Init
    <2>7. young \subseteq Sensors
      BY DEF Init
    <2> QED
      BY <1>6, <1>8, <2>1, <2>2, <2>3, <2>4, <2>5, <2>6, <2>7 DEF TypeOK
  <1>10. NoSensor \notin Sensors
    BY DEF Assumptions, SensorsAssumption
  <1>11. \A d \in Devices : \A S : Apart(queue[d], cur[d], S)
    <2> TAKE d \in Devices
    <2> TAKE S
    <2>1. \A i, j \in 1 .. Len(queue[d]) : queue[d][i] = queue[d][j] => i = j
      BY <1>1, <1>2, <1>4
    <2>2. \A i \in 1 .. Len(queue[d]) : queue[d][i] # NoSensor
      BY <1>1, <1>2, <1>10, ElementOfSeq
    <2> QED
      BY <1>2, <2>1, <2>2 DEF Apart
  <1>12. Kept
    BY <1>3, <1>11 DEF Kept, KeptAt
  <1>13. \A d \in Devices : Sorted(queue[d], refreshed, renewed) /\ ~AtItsQueue(d) /\ d \notin ready
    BY DEF Init, Sorted, AtItsQueue
  <1>14. Round
    BY <1>11, <1>13 DEF Round, RoundAt
  <1>15. EnabledMeansReady
    BY DEF Init, EnabledMeansReady
  <1>16. Dated
    BY DEF Init, Dated
  <1> QED
    BY <1>7, <1>9, <1>12, <1>14, <1>15, <1>16 DEF IInv, TypeInv

(* A step that leaves the queues alone, and no device begins a round.      *)
LEMMA QueuesLeftAlone ==
    ASSUME Assumptions, IInv,
           UNCHANGED <<queueVars, created, readyVars, disturbed>>,
           pc' \in [Devices -> PcTypes], long' \in [Devices -> LongTypes],
           \A c \in Devices : pc'[c] = pc[c] \/ (pc[c] # "updating" /\ pc'[c] \in Places5),
           active' \subseteq Devices, active' \subseteq active \/ service # "Enabled",
           atPriority' \subseteq Devices, reachable' \subseteq Devices, checkable' \in BOOLEAN,
           changes' \in 0 .. MaxChanges
    PROVE  IInv'
  <1>1. UNCHANGED <<queue, cur, due, refreshed, young, renewed, read, created, ready, service,
                    disturbed>>
    BY DEF queueVars, readyVars
  <1>2. \A c \in Devices : Queued(c)' = Queued(c) /\ Ours(c)' = Ours(c)
    BY <1>1 DEF Queued, Ours
  <1>3. QueueTypes'
    BY <1>1, <1>2 DEF IInv, TypeInv, QueueTypes
  <1>4. \A c \in Devices : (cur'[c] # NoSensor) = (pc'[c] = "updating")
    BY <1>1 DEF IInv, TypeInv, TypeOK, Places5
  <1>5. TypeOK'
    BY <1>1, <1>2, <1>4 DEF IInv, TypeInv, TypeOK, PcTypes, LongTypes, Places5
  <1>6. \A c \in Devices : AtItsQueue(c)' => AtItsQueue(c)
    BY DEF AtItsQueue, Places5
  <1>7. \A c \in Devices : KeptAt(c)' /\ (c \notin disturbed' => RoundAt(c)')
    BY <1>1, <1>6, DeviceLeftAlone
  <1>8. EnabledMeansReady'
    BY <1>1 DEF IInv, EnabledMeansReady
  <1>9. Dated'
    BY <1>1 DEF IInv, Dated
  <1> QED
    BY <1>3, <1>5, <1>7, <1>8, <1>9 DEF IInv, TypeInv, Kept, Round

LEMMA TypesAt ==
    ASSUME IInv
    PROVE  /\ pc \in [Devices -> PcTypes] /\ long \in [Devices -> LongTypes]
           /\ active \subseteq Devices /\ atPriority \subseteq Devices /\ ready \subseteq Devices
           /\ reachable \subseteq Devices /\ checkable \in BOOLEAN /\ changes \in 0 .. MaxChanges
  BY DEF IInv, TypeInv, TypeOK, PcTypes, LongTypes, Places5

LEMMA QuietSteps ==
    ASSUME Assumptions, IInv, NEW d \in Devices,
           \/ StartPolling(d) \/ LookForEndpoint(d) \/ LongStep(d)
           \/ EndpointUp(d) \/ EndpointDown(d) \/ PollReady
    PROVE  IInv'
  <1>1. CASE StartPolling(d)
    BY <1>1, TypesAt, QueuesLeftAlone DEF StartPolling, PcTypes, LongTypes, Places5
  <1>2. CASE LookForEndpoint(d)
    BY <1>2, TypesAt, QueuesLeftAlone DEF LookForEndpoint, PcTypes, Places5
  <1>3. CASE LongStep(d)
    <2>1. /\ long' \in [Devices -> LongTypes]
          /\ UNCHANGED <<pc, queueVars, created, active, readyVars, atPriority, reachable,
                         checkable, disturbed, changes>>
      BY <1>3, TypesAt DEF LongStep, LongBegins, LongUpdates, LongDone, LongTypes
    <2> QED
      BY <2>1, TypesAt, QueuesLeftAlone
  <1>4. CASE EndpointUp(d)
    BY <1>4, TypesAt, QueuesLeftAlone DEF EndpointUp, Assumptions, ChangesAssumption
  <1>5. CASE EndpointDown(d)
    BY <1>5, TypesAt, QueuesLeftAlone DEF EndpointDown, Assumptions, ChangesAssumption
  <1>6. CASE PollReady
    BY <1>6, TypesAt, QueuesLeftAlone DEF PollReady
  <1> QED
    BY <1>1, <1>2, <1>3, <1>4, <1>5, <1>6

LEMMA ApartFromNone ==
    ASSUME Assumptions, NEW q \in Seq(Sensors), NEW c, NEW S, Apart(q, c, S)
    PROVE  Apart(q, NoSensor, S)
  <1>1. \A i \in 1 .. Len(q) : q[i] # NoSensor
    BY ElementOfSeq DEF Assumptions, SensorsAssumption
  <1> QED
    BY <1>1 DEF Apart

LEMMA ApartFromNew ==
    ASSUME NEW q \in Seq(Sensors), NEW e \in Sensors, NEW c, NEW S,
           Apart(q, c, S), e \notin ToSet(q), e # c
    PROVE  Apart(Append(q, e), c, S)
  <1>1. /\ Len(q) \in Nat /\ Len(Append(q, e)) = Len(q) + 1
        /\ \A i \in 1 .. Len(q) : Append(q, e)[i] = q[i]
        /\ Append(q, e)[Len(q) + 1] = e
    BY AppendFacts
  <1>2. \A i \in 1 .. Len(q) + 1 : i \in 1 .. Len(q) \/ i = Len(q) + 1
    BY <1>1
  <1>3. \A i \in 1 .. Len(q) : q[i] # e
    BY LenProperties DEF ToSet
  <1> QED
    BY <1>1, <1>2, <1>3 DEF Apart

LEMMA ConcatFacts ==
    ASSUME NEW S, NEW q \in Seq(S), NEW t \in Seq(S)
    PROVE  /\ q \o t \in Seq(S) /\ Len(q \o t) = Len(q) + Len(t)
           /\ Len(q) \in Nat /\ Len(t) \in Nat
           /\ \A i \in 1 .. Len(q) + Len(t) :
                 \/ i \in 1 .. Len(q) /\ (q \o t)[i] = q[i]
                 \/ i \notin 1 .. Len(q) /\ (q \o t)[i] \in ToSet(t)
           /\ ToSet(q \o t) = ToSet(q) \union ToSet(t)
  <1>1. /\ q \o t \in Seq(S) /\ Len(q \o t) = Len(q) + Len(t)
        /\ \A i \in 1 .. Len(q) + Len(t) :
              (q \o t)[i] = IF i <= Len(q) THEN q[i] ELSE t[i - Len(q)]
    BY ConcatProperties
  <1>2. /\ Len(q) \in Nat /\ DOMAIN q = 1 .. Len(q) /\ Len(t) \in Nat /\ DOMAIN t = 1 .. Len(t)
        /\ DOMAIN (q \o t) = 1 .. Len(q) + Len(t)
    BY <1>1, LenProperties
  <1>3. ASSUME NEW i \in 1 .. Len(q) + Len(t)
        PROVE  \/ i \in 1 .. Len(q) /\ (q \o t)[i] = q[i]
               \/ i \notin 1 .. Len(q) /\ (q \o t)[i] \in ToSet(t)
    <2>1. CASE i <= Len(q)
      BY <1>1, <1>2, <2>1
    <2>2. CASE ~(i <= Len(q))
      <3>1. i - Len(q) \in 1 .. Len(t) /\ i \notin 1 .. Len(q)
        BY <1>2, <2>2
      <3>2. (q \o t)[i] = t[i - Len(q)]
        BY <1>1, <2>2
      <3> QED
        BY <1>2, <3>1, <3>2 DEF ToSet
    <2> QED
      BY <2>1, <2>2
  <1>4. ToSet(q \o t) \subseteq ToSet(q) \union ToSet(t)
    BY <1>2, <1>3 DEF ToSet
  <1>5. ToSet(q) \subseteq ToSet(q \o t)
    <2>1. \A i \in 1 .. Len(q) : i \in 1 .. Len(q) + Len(t) /\ (q \o t)[i] = q[i]
      BY <1>1, <1>2
    <2> QED
      BY <1>2, <2>1 DEF ToSet
  <1>6. ToSet(t) \subseteq ToSet(q \o t)
    <2>1. \A i \in 1 .. Len(t) : i + Len(q) \in 1 .. Len(q) + Len(t) /\ (q \o t)[i + Len(q)] = t[i]
      <3> TAKE i \in 1 .. Len(t)
      <3>1. i + Len(q) \in 1 .. Len(q) + Len(t) /\ ~(i + Len(q) <= Len(q)) /\ (i + Len(q)) - Len(q) = i
        BY <1>2
      <3>2. (q \o t)[i + Len(q)] = t[(i + Len(q)) - Len(q)]
        BY <1>1, <3>1
      <3> QED
        BY <3>1, <3>2
    <2> QED
      BY <1>2, <2>1 DEF ToSet
  <1> QED
    BY <1>1, <1>2, <1>3, <1>4, <1>5, <1>6

LEMMA AddSensorStep ==
    ASSUME Assumptions, IInv, NEW d \in Devices, NEW s \in Sensors, AddSensor(d, s)
    PROVE  IInv'
  <1> DEFINE q == queue[d]
  <1>1. /\ s \in SensorsOf[d] /\ s \notin created /\ created' = created \union {s}
        /\ queue' = [queue EXCEPT ![d] = Append(q, s)] /\ changes' \in 0 .. MaxChanges
        /\ UNCHANGED <<pc, long, cur, due, refreshed, young, renewed, read, active, ready, service,
                       atPriority, reachable, checkable, disturbed>>
    BY TypesAt DEF AddSensor, readyVars, Assumptions, ChangesAssumption
  <1>2. /\ TypeOK /\ queue \in [Devices -> Seq(Sensors)]
        /\ cur \in [Devices -> Sensors \union {NoSensor}] /\ due \in [Devices -> Nat]
        /\ Configured \subseteq created
    BY DEF IInv, TypeInv, QueueTypes
  <1>3. /\ q \in Seq(Sensors) /\ Len(q) \in Nat /\ due[d] \in 0 .. Len(q)
        /\ ToSet(q) = Queued(d) /\ Queued(d) \subseteq Ours(d) /\ cur[d] \in Ours(d) \union {NoSensor}
    BY QueueTypesAt DEF IInv, Queued
  <1>4. /\ Append(q, s) \in Seq(Sensors) /\ Len(Append(q, s)) = Len(q) + 1
        /\ ToSet(Append(q, s)) = Queued(d) \union {s}
    BY <1>3, AppendFacts
  <1>5. queue'[d] = Append(q, s) /\ \A c \in Devices \ {d} : queue'[c] = queue[c]
    BY <1>1, <1>2
  <1>6. s \notin Queued(d) /\ s # cur[d]
    BY <1>1, <1>3 DEF Ours, Assumptions, SensorsAssumption
  <1>7. Ours(d)' = Ours(d) \union {s} /\ Queued(d)' = Queued(d) \union {s}
    BY <1>1, <1>4, <1>5 DEF Ours, Queued
  <1>8. \A c \in Devices \ {d} : Ours(c)' = Ours(c) /\ Queued(c)' = Queued(c)
    BY <1>1, <1>5 DEF Ours, Queued, Assumptions, SensorsAssumption
  <1> HIDE DEF q
  <1>9. TypeInv'
    <2>1. \A c \in Devices : /\ Queued(c)' \subseteq Ours(c)' /\ cur'[c] \in Ours(c)' \union {NoSensor}
                             /\ due'[c] \in 0 .. Len(queue'[c])
      <3> TAKE c \in Devices
      <3>1. CASE c = d
        <4>1. due[d] \in 0 .. Len(q) + 1
          BY <1>3
        <4> QED
          BY <1>1, <1>3, <1>4, <1>5, <1>7, <3>1, <4>1
      <3>2. CASE c # d
        <4>1. /\ Queued(c) \subseteq Ours(c) /\ cur[c] \in Ours(c) \union {NoSensor}
              /\ due[c] \in 0 .. Len(queue[c])
          BY QueueTypesAt DEF IInv
        <4> QED
          BY <1>1, <1>5, <1>8, <3>2, <4>1
      <3> QED
        BY <3>1, <3>2
    <2>2. QueueTypes'
      BY <1>1, <1>2, <1>4, <2>1 DEF QueueTypes
    <2>3. \A c \in Devices : /\ Queued(c)' \subseteq SensorsOf[c]
                             /\ cur'[c] \in SensorsOf[c] \union {NoSensor}
      BY <2>1 DEF Ours
    <2>4. TypeOK'
      BY <1>1, <1>2, <2>1, <2>3 DEF TypeOK
    <2> QED
      BY <2>2, <2>4 DEF TypeInv
  <1>10. KeptAt(d) /\ (d \notin disturbed => RoundAt(d))
    BY DEF IInv, Kept, Round
  <1>11. \A S : Apart(q, cur[d], S) => Apart(Append(q, s), cur[d], S)
    BY <1>3, <1>6, ApartFromNew
  <1>12. KeptAt(d)'
    <2>1. \A x \in Ours(d)' : x \in Queued(d)' \/ x = cur'[d] \/ x \in Static \intersect read'
      BY <1>1, <1>7, <1>10 DEF KeptAt
    <2>2. Apart(queue'[d], cur'[d], Static)
      BY <1>1, <1>5, <1>10, <1>11 DEF KeptAt, q
    <2> QED
      BY <2>1, <2>2 DEF KeptAt
  <1>13. d \notin disturbed' => RoundAt(d)'
    <2>1. Excuses(s, renewed)
      BY <1>1, <1>2 DEF Excuses
    <2>2. /\ Sorted(q, refreshed, renewed) => Sorted(Append(q, s), refreshed, renewed)
          /\ Behind(q, due[d], renewed) => Behind(Append(q, s), due[d], renewed)
      BY <1>3, <2>1, AppendInOrder
    <2>3. Behind(q, 0, renewed) => Behind(Append(q, s), 0, renewed)
      <3>1. 0 \in 0 .. Len(q)
        BY <1>3
      <3> QED
        BY <1>3, <2>1, <3>1, AppendInOrder
    <2> QED
      BY <1>1, <1>5, <1>10, <1>11, <2>2, <2>3 DEF RoundAt, AtItsQueue, q
  <1>14. \A c \in Devices \ {d} : KeptAt(c)' /\ (c \notin disturbed' => RoundAt(c)')
    <2> TAKE c \in Devices \ {d}
    <2>1. s \notin SensorsOf[c]
      BY <1>1 DEF Assumptions, SensorsAssumption
    <2>2. AtItsQueue(c)' => AtItsQueue(c)
      BY <1>1 DEF AtItsQueue
    <2> QED
      BY <1>1, <1>5, <2>1, <2>2, DeviceLeftAlone
  <1>15. EnabledMeansReady'
    BY <1>1 DEF IInv, EnabledMeansReady
  <1>16. Dated'
    BY <1>1 DEF IInv, Dated
  <1> QED
    BY <1>9, <1>12, <1>13, <1>14, <1>15, <1>16 DEF IInv, Kept, Round

LEMMA ActivatedStep ==
    ASSUME Assumptions, IInv, NEW d \in Devices, Activated(d)
    PROVE  IInv'
  <1>1. /\ pc[d] = "activating" /\ pc' = [pc EXCEPT ![d] = "top"]
        /\ active' = active \union {d} /\ ready' = ready \ {d} /\ service' = "Starting"
        /\ refreshed' = refreshed \ Queued(d)
        /\ young' \subseteq young /\ renewed' = renewed \ (Queued(d) \ young')
        /\ disturbed' = IF HoldsTwice(queue[d]) THEN disturbed ELSE disturbed \ {d}
        /\ UNCHANGED <<long, queue, cur, due, read, created, atPriority, reachable, checkable,
                       changes>>
    BY DEF Activated, SetOnline, NewRound
  <1>2. TypeOK /\ QueueTypes /\ DOMAIN pc = Devices
    BY DEF IInv, TypeInv, TypeOK
  <1>3. cur[d] = NoSensor
    BY <1>1, <1>2 DEF TypeOK
  <1>4. \A c \in Devices : Queued(c)' = Queued(c) /\ Ours(c)' = Ours(c)
    BY <1>1 DEF Queued, Ours
  <1>5. pc'[d] = "top" /\ \A c \in Devices \ {d} : pc'[c] = pc[c]
    BY <1>1, <1>2
  <1>6. TypeInv'
    <2>1. QueueTypes'
      BY <1>1, <1>2, <1>4 DEF QueueTypes
    <2>2. pc' \in [Devices -> {"none", "top", "inactive", "activating", "priority", "updating",
                              "throttled", "asleep"}]
      BY <1>1, <1>2 DEF TypeOK
    <2>3. \A c \in Devices : (cur'[c] # NoSensor) = (pc'[c] = "updating")
      BY <1>1, <1>2, <1>3, <1>5 DEF TypeOK
    <2>4. /\ disturbed' \subseteq Devices /\ refreshed' \subseteq created
          /\ young' \subseteq Sensors /\ renewed' \subseteq created
      BY <1>1, <1>2 DEF TypeOK
    <2>5. TypeOK'
      BY <1>1, <1>2, <1>4, <2>2, <2>3, <2>4 DEF TypeOK
    <2> QED
      BY <2>1, <2>5 DEF TypeInv
  <1>7. KeptAt(d)'
    BY <1>1, <1>4 DEF IInv, Kept, KeptAt
  <1>8. d \notin disturbed' => RoundAt(d)'
    <2> SUFFICES ASSUME d \notin disturbed'
                 PROVE  RoundAt(d)'
      OBVIOUS
    <2>1. /\ queue[d] \in Seq(Sensors) /\ DOMAIN queue[d] = 1 .. Len(queue[d])
          /\ \A i \in 1 .. Len(queue[d]) : queue[d][i] \in Queued(d)
      BY QueueTypesAt DEF IInv
    <2>2. Apart(queue[d], NoSensor, {})
      <3>1. CASE HoldsTwice(queue[d])
        BY <1>1, <1>3, <3>1 DEF IInv, Round, RoundAt
      <3>2. CASE ~HoldsTwice(queue[d])
        <4>1. \A i \in 1 .. Len(queue[d]) : queue[d][i] # NoSensor
          BY <2>1, ElementOfSeq DEF Assumptions, SensorsAssumption
        <4> QED
          BY <2>1, <3>2, <4>1 DEF HoldsTwice, Apart
      <3> QED
        BY <3>1, <3>2
    <2>3. Sorted(queue[d], refreshed', renewed')
      BY <1>1, <2>1 DEF Sorted
    <2>4. ~AtItsQueue(d)' /\ d \notin ready'
      BY <1>1, <1>5 DEF AtItsQueue
    <2> QED
      BY <1>1, <1>3, <2>2, <2>3, <2>4 DEF RoundAt
  <1>9. \A c \in Devices \ {d} : KeptAt(c)' /\ (c \notin disturbed' => RoundAt(c)')
    <2> TAKE c \in Devices \ {d}
    <2>1. Queued(d) \subseteq SensorsOf[d]
      BY <1>2 DEF TypeOK
    <2>2. \A s \in SensorsOf[c] : /\ s \in refreshed <=> s \in refreshed'
                                  /\ s \in renewed => s \in renewed'
      BY <1>1, <2>1 DEF Assumptions, SensorsAssumption
    <2>3. AtItsQueue(c)' => AtItsQueue(c)
      BY <1>5 DEF AtItsQueue
    <2> QED
      BY <1>1, <2>2, <2>3, DeviceLeftAlone
  <1>10. EnabledMeansReady'
    BY <1>1 DEF EnabledMeansReady
  <1>11. Dated'
    BY <1>1 DEF IInv, Dated
  <1> QED
    BY <1>6, <1>7, <1>8, <1>9, <1>10, <1>11 DEF IInv, Kept, Round

LEMMA PowerGoodStep ==
    ASSUME Assumptions, IInv, PowerGood
    PROVE  IInv'
  <1> DEFINE t(c) == SetToSeq(Ours(c) \intersect StandbyToDc)
  <1>1. /\ changes' \in 0 .. MaxChanges /\ service' = "Starting" /\ ready' = {}
        /\ refreshed' = refreshed \ ((UNION {Queued(c) : c \in Devices})
                                       \union (created \intersect StandbyToDc))
        /\ young' \subseteq young
        /\ renewed' = renewed \ (((UNION {Queued(c) : c \in Devices})
                                     \union (created \intersect StandbyToDc)) \ young')
        /\ queue' = [c \in Devices |-> queue[c] \o t(c)]
        /\ disturbed' = {c \in Devices : AtItsQueue(c) \/ HoldsTwice(queue'[c])}
        /\ UNCHANGED <<pc, long, cur, due, read, created, active, atPriority, reachable, checkable>>
    BY TypesAt DEF PowerGood, NewRound, Assumptions, ChangesAssumption
  <1>2. TypeOK /\ QueueTypes
    BY DEF IInv, TypeInv
  <1>3. \A c \in Devices : t(c) \in Seq(Sensors) /\ ToSet(t(c)) = Ours(c) \intersect StandbyToDc
    <2> TAKE c \in Devices
    <2>1. (Ours(c) \intersect StandbyToDc) \in SUBSET Sensors
      BY QueueTypesAt DEF IInv
    <2>2. IsFiniteSet(Ours(c) \intersect StandbyToDc)
      BY <2>1, FS_Subset DEF Assumptions, SensorsAssumption
    <2> QED
      BY <2>1, <2>2, SetToSeqFacts
  <1> HIDE DEF t
  <1>4. \A c \in Devices : queue'[c] = queue[c] \o t(c)
    BY <1>1
  <1>5. \A c \in Devices :
           /\ queue[c] \in Seq(Sensors) /\ queue'[c] \in Seq(Sensors)
           /\ Len(queue[c]) \in Nat /\ Len(queue'[c]) \in Nat /\ Len(queue[c]) <= Len(queue'[c])
           /\ \A i \in 1 .. Len(queue'[c]) :
                 \/ i \in 1 .. Len(queue[c]) /\ queue'[c][i] = queue[c][i]
                 \/ i \notin 1 .. Len(queue[c]) /\ queue'[c][i] \in Ours(c) \intersect StandbyToDc
           /\ ToSet(queue'[c]) = Queued(c) \union (Ours(c) \intersect StandbyToDc)
    <2> TAKE c \in Devices
    <2>1. queue[c] \in Seq(Sensors)
      BY <1>2 DEF QueueTypes
    <2>2. /\ queue[c] \o t(c) \in Seq(Sensors)
          /\ Len(queue[c] \o t(c)) = Len(queue[c]) + Len(t(c))
          /\ Len(queue[c]) \in Nat /\ Len(t(c)) \in Nat
          /\ \A i \in 1 .. Len(queue[c]) + Len(t(c)) :
                \/ i \in 1 .. Len(queue[c]) /\ (queue[c] \o t(c))[i] = queue[c][i]
                \/ i \notin 1 .. Len(queue[c]) /\ (queue[c] \o t(c))[i] \in ToSet(t(c))
          /\ ToSet(queue[c] \o t(c)) = ToSet(queue[c]) \union ToSet(t(c))
      BY <1>3, <2>1, ConcatFacts
    <2>3. /\ Len(queue[c]) + Len(t(c)) \in Nat
          /\ Len(queue[c]) <= Len(queue[c]) + Len(t(c))
      BY <2>2
    <2> QED
      BY <1>3, <1>4, <2>1, <2>2, <2>3 DEF Queued
  <1>6. \A c \in Devices : Ours(c)' = Ours(c) /\ Queued(c)' = ToSet(queue'[c])
    BY <1>1 DEF Ours, Queued
  <1>7. TypeInv'
    <2>1. \A c \in Devices : /\ Queued(c)' \subseteq Ours(c)'
                             /\ cur'[c] \in Ours(c)' \union {NoSensor}
                             /\ due'[c] \in 0 .. Len(queue'[c])
      <3> TAKE c \in Devices
      <3>1. /\ Queued(c) \subseteq Ours(c) /\ cur[c] \in Ours(c) \union {NoSensor}
            /\ due[c] \in 0 .. Len(queue[c])
        BY QueueTypesAt DEF IInv
      <3>2. due[c] \in 0 .. Len(queue'[c])
        BY <1>5, <3>1
      <3> QED
        BY <1>1, <1>5, <1>6, <3>1, <3>2
    <2>2. queue' \in [Devices -> Seq(Sensors)]
      BY <1>1, <1>4, <1>5
    <2>3. QueueTypes'
      BY <1>1, <1>2, <2>1, <2>2 DEF QueueTypes
    <2>4. \A c \in Devices : /\ Queued(c)' \subseteq SensorsOf[c]
                             /\ cur'[c] \in SensorsOf[c] \union {NoSensor}
      BY <2>1 DEF Ours
    <2>5. /\ disturbed' \subseteq Devices /\ refreshed' \subseteq created
          /\ young' \subseteq Sensors /\ renewed' \subseteq created
      BY <1>1, <1>2 DEF TypeOK
    <2>6. TypeOK'
      BY <1>1, <1>2, <2>1, <2>4, <2>5 DEF TypeOK
    <2> QED
      BY <2>3, <2>6 DEF TypeInv
  <1>8. \A c \in Devices : KeptAt(c)'
    <2> TAKE c \in Devices
    <2>1. KeptAt(c)
      BY DEF IInv, Kept
    <2>2. StandbyToDc \subseteq Static
      BY DEF Assumptions, KindsAssumption
    <2>3. \A s \in Ours(c)' : s \in Queued(c)' \/ s = cur'[c] \/ s \in Static \intersect read'
      BY <1>1, <1>5, <1>6, <2>1 DEF KeptAt
    <2>4. \A i, j \in 1 .. Len(queue'[c]) :
             i # j /\ queue'[c][i] = queue'[c][j] => queue'[c][i] \in Static
      BY <1>5, <2>1, <2>2 DEF KeptAt, Apart
    <2>5. \A i \in 1 .. Len(queue'[c]) : queue'[c][i] = cur[c] => cur[c] \in Static
      BY <1>5, <2>1, <2>2 DEF KeptAt, Apart
    <2>6. Apart(queue'[c], cur'[c], Static)
      BY <1>1, <2>4, <2>5 DEF Apart
    <2> QED
      BY <2>3, <2>6 DEF KeptAt
  <1>9. \A c \in Devices : c \notin disturbed' => RoundAt(c)'
    <2> SUFFICES ASSUME NEW c \in Devices, c \notin disturbed'
                 PROVE  RoundAt(c)'
      OBVIOUS
    <2>1. ~AtItsQueue(c) /\ ~HoldsTwice(queue'[c])
      BY <1>1
    <2>2. cur[c] = NoSensor
      BY <1>2, <2>1 DEF TypeOK, AtItsQueue
    <2>3. /\ DOMAIN queue'[c] = 1 .. Len(queue'[c])
          /\ \A i \in 1 .. Len(queue'[c]) : queue'[c][i] # NoSensor
      BY <1>5, LenProperties, ElementOfSeq DEF Assumptions, SensorsAssumption
    <2>4. Apart(queue'[c], NoSensor, {})
      BY <2>1, <2>3 DEF HoldsTwice, Apart
    <2>5. \A s \in ToSet(queue'[c]) : s \notin refreshed'
      <3>1. \A s \in Queued(c) : s \in UNION {Queued(x) : x \in Devices}
        OBVIOUS
      <3>2. \A s \in Queued(c) : s \notin refreshed'
        BY <1>1, <3>1
      <3>3. Ours(c) \intersect StandbyToDc \subseteq created \intersect StandbyToDc
        BY DEF Ours
      <3>4. \A s \in created \intersect StandbyToDc : s \notin refreshed'
        BY <1>1
      <3> QED
        BY <1>5, <3>2, <3>3, <3>4
    <2>6. \A i \in 1 .. Len(queue'[c]) : queue'[c][i] \in ToSet(queue'[c])
      BY <2>3 DEF ToSet
    <2>7. Sorted(queue'[c], refreshed', renewed')
      BY <2>5, <2>6 DEF Sorted
    <2>8. ~AtItsQueue(c)' /\ c \notin ready'
      BY <1>1, <2>1 DEF AtItsQueue
    <2> QED
      BY <1>1, <2>2, <2>4, <2>7, <2>8 DEF RoundAt
  <1>10. EnabledMeansReady'
    BY <1>1 DEF EnabledMeansReady
  <1>11. Dated'
    BY <1>1 DEF IInv, Dated
  <1> QED
    BY <1>7, <1>8, <1>9, <1>10, <1>11 DEF IInv, Kept, Round

(* A device that is not updating a sensor, at the beginning of its round.  *)
LEMMA BeforeTheRound ==
    ASSUME Assumptions, IInv, NEW d \in Devices, pc[d] # "updating"
    PROVE  /\ queue[d] \in Seq(Sensors) /\ Len(queue[d]) \in Nat
           /\ Len(queue[d]) \in 0 .. Len(queue[d]) /\ due[d] \in 0 .. Len(queue[d])
           /\ ToSet(queue[d]) \subseteq Ours(d)
           /\ \A s \in Ours(d) : s \in ToSet(queue[d]) \/ s \in Static \intersect read
           /\ Apart(queue[d], NoSensor, Static)
           /\ d \notin disturbed =>
                 /\ Apart(queue[d], NoSensor, {})
                 /\ Sorted(queue[d], refreshed, renewed)
                 /\ Behind(queue[d], Len(queue[d]), renewed)
                 /\ pc[d] = "throttled" => Behind(queue[d], due[d], renewed)
                 /\ d \in ready => Behind(queue[d], 0, renewed)
  <1>1. cur[d] = NoSensor
    BY DEF IInv, TypeInv, TypeOK
  <1>2. /\ queue[d] \in Seq(Sensors) /\ Len(queue[d]) \in Nat /\ due[d] \in 0 .. Len(queue[d])
        /\ ToSet(queue[d]) \subseteq Ours(d) /\ Ours(d) \subseteq Sensors
    BY QueueTypesAt DEF IInv, Queued
  <1>3. NoSensor \notin Ours(d)
    BY <1>2 DEF Assumptions, SensorsAssumption
  <1>4. KeptAt(d) /\ (d \notin disturbed => RoundAt(d))
    BY DEF IInv, Kept, Round
  <1>5. Behind(queue[d], Len(queue[d]), renewed)
    BY <1>2 DEF Behind
  <1>6. /\ \A s \in Ours(d) : s \in ToSet(queue[d]) \/ s \in Static \intersect read
        /\ Apart(queue[d], NoSensor, Static)
    BY <1>1, <1>3, <1>4 DEF KeptAt, Queued
  <1>7. Len(queue[d]) \in 0 .. Len(queue[d])
    BY <1>2
  <1> QED
    BY <1>1, <1>2, <1>4, <1>5, <1>6, <1>7 DEF RoundAt, AtItsQueue

LEMMA SetsAt ==
    ASSUME IInv
    PROVE  /\ refreshed \subseteq created /\ renewed \subseteq created /\ read \subseteq created
           /\ young \subseteq Sensors /\ Dated
  BY DEF IInv, TypeInv, TypeOK

LEMMA BeginIntervalStep ==
    ASSUME Assumptions, IInv, NEW d \in Devices, NEW timeLeft, BeginInterval(d, timeLeft)
    PROVE  IInv'
  <1>1. pc[d] \in {"top", "inactive", "asleep"}
    BY DEF BeginInterval
  <1>2. UNCHANGED <<long, refreshed, young, renewed, read, created, active, reachable, checkable,
                    disturbed, changes>>
    BY DEF BeginInterval
  <1>3. CASE /\ atPriority' = atPriority \union {d} /\ pc' = [pc EXCEPT ![d] = "priority"]
             /\ UNCHANGED <<queue, cur, due, readyVars>>
    <2>1. UNCHANGED <<queueVars, created, readyVars, disturbed>>
      BY <1>2, <1>3 DEF queueVars
    <2>2. /\ pc' \in [Devices -> PcTypes]
          /\ \A c \in Devices : pc'[c] = pc[c] \/ (pc[c] # "updating" /\ pc'[c] \in Places5)
      BY <1>1, <1>3, TypesAt DEF PcTypes, Places5
    <2> QED
      BY <1>2, <1>3, <2>1, <2>2, TypesAt, QueuesLeftAlone
  <1>4. CASE /\ RoundRobin(d, queue[d], Len(queue[d]), atPriority, refreshed, young, timeLeft)
             /\ UNCHANGED atPriority
    <2>1. RoundRobin(d, queue[d], Len(queue[d]), atPriority, refreshed', young', timeLeft)
      BY <1>2, <1>4
    <2>2. Dated'
      BY <1>2, SetsAt DEF Dated
    <2> QED
      BY <1>1, <1>2, <1>4, <2>1, <2>2, BeforeTheRound, TypesAt, SetsAt, RoundRobinKeeps
  <1> QED
    BY <1>3, <1>4 DEF BeginInterval

LEMMA PriorityDoneStep ==
    ASSUME Assumptions, IInv, NEW d \in Devices, NEW timeLeft, PriorityDone(d, timeLeft)
    PROVE  IInv'
  <1>1. /\ pc[d] = "priority" /\ atPriority' = atPriority \ {d}
        /\ RoundRobin(d, queue[d], Len(queue[d]), atPriority', refreshed, young, timeLeft)
        /\ UNCHANGED <<long, refreshed, young, renewed, read, created, active, reachable, checkable,
                       disturbed, changes>>
    BY DEF PriorityDone
  <1>2. RoundRobin(d, queue[d], Len(queue[d]), atPriority', refreshed', young', timeLeft)
    BY <1>1
  <1>3. atPriority' \subseteq Devices
    BY <1>1, TypesAt
  <1>4. Dated'
    BY <1>1, SetsAt DEF Dated
  <1> QED
    BY <1>1, <1>2, <1>3, <1>4, BeforeTheRound, SetsAt, RoundRobinKeeps

LEMMA UnthrottleStep ==
    ASSUME Assumptions, IInv, NEW d \in Devices, NEW timeLeft, Unthrottle(d, timeLeft)
    PROVE  IInv'
  <1>1. /\ pc[d] = "throttled"
        /\ RoundRobin(d, queue[d], due[d], atPriority, refreshed, young, timeLeft)
        /\ UNCHANGED <<long, refreshed, young, renewed, read, created, active, atPriority, reachable,
                       checkable, disturbed, changes>>
    BY DEF Unthrottle
  <1>2. RoundRobin(d, queue[d], due[d], atPriority, refreshed', young', timeLeft)
    BY <1>1
  <1>3. Dated'
    BY <1>1, SetsAt DEF Dated
  <1> QED
    BY <1>1, <1>2, <1>3, BeforeTheRound, TypesAt, SetsAt, RoundRobinKeeps

LEMMA UpdateDoneStep ==
    ASSUME Assumptions, IInv, NEW d \in Devices, NEW success \in BOOLEAN, NEW timeLeft,
           UpdateDone(d, success, timeLeft)
    PROVE  IInv'
  <1> DEFINE s == cur[d]
             q == Requeue(s, success, queue[d])
  <1>1. /\ pc[d] = "updating"
        /\ refreshed' = refreshed \union {s}
        /\ young' = young \union {s} /\ renewed' = renewed \union {s}
        /\ read' = IF success THEN read \union ({s} \intersect Static) ELSE read \ {s}
        /\ RoundRobin(d, q, due[d], atPriority, refreshed', young', timeLeft)
        /\ UNCHANGED <<long, created, active, atPriority, reachable, checkable, disturbed, changes>>
    BY DEF UpdateDone
  <1>2. /\ queue[d] \in Seq(Sensors) /\ Len(queue[d]) \in Nat /\ due[d] \in 0 .. Len(queue[d])
        /\ ToSet(queue[d]) \subseteq Ours(d) /\ Ours(d) \subseteq Sensors
        /\ \A i \in 1 .. Len(queue[d]) : queue[d][i] \in ToSet(queue[d])
        /\ s \in Ours(d) \union {NoSensor}
    BY QueueTypesAt DEF IInv, Queued
  <1>3. s \in Ours(d) /\ s \in Sensors /\ s \in SensorsOf[d] /\ s \in created
    BY <1>1, <1>2 DEF IInv, TypeInv, TypeOK, Ours
  <1>4. KeptAt(d) /\ (d \notin disturbed => RoundAt(d))
    BY DEF IInv, Kept, Round
  <1>5. NoSensor \notin Sensors
    BY DEF Assumptions, SensorsAssumption
  <1>6. \/ s \in Static /\ success /\ q = queue[d]
        \/ ~(s \in Static /\ success) /\ q = Append(queue[d], s)
    BY DEF Requeue
  <1>7. /\ Append(queue[d], s) \in Seq(Sensors) /\ Len(Append(queue[d], s)) = Len(queue[d]) + 1
        /\ ToSet(Append(queue[d], s)) = ToSet(queue[d]) \union {s}
    BY <1>2, <1>3, AppendFacts
  <1> HIDE DEF q
  <1>8. q \in Seq(Sensors) /\ due[d] \in 0 .. Len(q) /\ ToSet(q) \subseteq Ours(d)
    <2>1. due[d] \in 0 .. Len(queue[d]) + 1
      BY <1>2
    <2>2. CASE q = queue[d]
      BY <1>2, <2>2
    <2>3. CASE q = Append(queue[d], s)
      BY <1>2, <1>3, <1>7, <2>1, <2>3
    <2> QED
      BY <1>6, <2>2, <2>3
  <1>9. \A x \in Ours(d) : x \in ToSet(q) \/ x \in Static \intersect read'
    <2> TAKE x \in Ours(d)
    <2>1. x \in ToSet(queue[d]) \/ x = s \/ x \in Static \intersect read
      BY <1>4 DEF KeptAt, Queued
    <2> QED
      BY <1>1, <1>6, <1>7, <2>1
  <1>10. \A S : Apart(queue[d], s, S) => Apart(q, NoSensor, S)
    <2> TAKE S
    <2>1. Apart(queue[d], s, S) => Apart(queue[d], NoSensor, S)
      BY <1>2, ApartFromNone
    <2>2. Apart(queue[d], s, S) => Apart(Append(queue[d], s), NoSensor, S)
      BY <1>2, <1>3, <1>5, ApartAppend
    <2> QED
      BY <1>6, <2>1, <2>2
  <1>11. Apart(q, NoSensor, Static)
    BY <1>4, <1>10 DEF KeptAt
  <1>12. d \notin disturbed => /\ Apart(q, NoSensor, {})
                               /\ Sorted(q, refreshed', renewed') /\ Behind(q, due[d], renewed')
                               /\ d \in ready => Behind(q, 0, renewed')
    <2> SUFFICES ASSUME d \notin disturbed
                 PROVE  /\ Apart(q, NoSensor, {})
                        /\ Sorted(q, refreshed', renewed') /\ Behind(q, due[d], renewed')
                        /\ d \in ready => Behind(q, 0, renewed')
      OBVIOUS
    <2>1. /\ Apart(queue[d], s, {}) /\ Sorted(queue[d], refreshed, renewed)
          /\ Behind(queue[d], due[d], renewed)
          /\ d \in ready => Behind(queue[d], 0, renewed)
      BY <1>1, <1>4 DEF RoundAt, AtItsQueue
    <2>2. \A i \in 1 .. Len(queue[d]) : queue[d][i] # s
      BY <2>1 DEF Apart
    <2>3. \A i \in 1 .. Len(queue[d]) : /\ queue[d][i] \in refreshed <=> queue[d][i] \in refreshed'
                                        /\ queue[d][i] \in renewed => queue[d][i] \in renewed'
      BY <1>1, <2>2
    <2>4. /\ Sorted(queue[d], refreshed', renewed')
          /\ Behind(queue[d], due[d], renewed')
          /\ d \in ready => Behind(queue[d], 0, renewed')
      BY <2>1, <2>3, SameOrder
    <2>5. Excuses(s, renewed')
      BY <1>1 DEF Excuses
    <2>6. 0 \in 0 .. Len(queue[d])
      BY <1>2
    <2>7. /\ Sorted(Append(queue[d], s), refreshed', renewed')
          /\ Behind(Append(queue[d], s), due[d], renewed')
          /\ d \in ready => Behind(Append(queue[d], s), 0, renewed')
      BY <1>2, <1>3, <2>4, <2>5, <2>6, AppendInOrder
    <2> QED
      BY <1>6, <1>10, <2>1, <2>4, <2>7
  <1>13. \A x \in Sensors \ SensorsOf[d] : /\ x \in refreshed <=> x \in refreshed'
                                           /\ x \in renewed => x \in renewed'
                                           /\ x \in read => x \in read'
    BY <1>1, <1>3
  <1>14. /\ refreshed' \subseteq created /\ renewed' \subseteq created /\ read' \subseteq created
         /\ young' \subseteq Sensors /\ Dated'
    BY <1>1, <1>3, SetsAt DEF Dated
  <1>15. atPriority' \subseteq Devices
    BY <1>1, TypesAt
  <1> QED
    BY <1>1, <1>8, <1>9, <1>11, <1>12, <1>13, <1>14, <1>15, RoundRobinKeeps

LEMMA IInvStep ==
    ASSUME Assumptions, IInv, [Next]_vars
    PROVE  IInv'
  <1>1. ASSUME NEW d \in Devices, Coroutine(d)
        PROVE  IInv'
    <2>1. CASE StartPolling(d) \/ LookForEndpoint(d)
      BY <2>1, QuietSteps
    <2>2. CASE Activated(d)
      BY <2>2, ActivatedStep
    <2>3. ASSUME NEW timeLeft \in BOOLEAN, PollingStep(d, timeLeft)
          PROVE  IInv'
      BY <2>3, BeginIntervalStep, PriorityDoneStep, UnthrottleStep, UpdateDoneStep DEF PollingStep
    <2> QED
      BY <1>1, <2>1, <2>2, <2>3 DEF Coroutine
  <1>2. ASSUME NEW d \in Devices, LongStep(d) \/ EndpointUp(d) \/ EndpointDown(d)
        PROVE  IInv'
    BY <1>2, QuietSteps
  <1>3. ASSUME NEW d \in Devices, NEW s \in Sensors, AddSensor(d, s)
        PROVE  IInv'
    BY <1>3, AddSensorStep
  <1>4. CASE PowerGood
    BY <1>4, PowerGoodStep
  <1>5. CASE PollReady
    BY <1>5, TypesAt, QueuesLeftAlone DEF PollReady
  <1>6. CASE UNCHANGED vars
    BY <1>6, TypesAt, QueuesLeftAlone DEF vars
  <1> QED
    BY <1>1, <1>2, <1>3, <1>4, <1>5, <1>6 DEF Next

(* The queues, the readiness and the service keep their types, and the     *)
(* queue of a device holds sensors of that device only.                    *)
THEOREM TypeCorrect ==
    ASSUME Assumptions
    PROVE  Spec => []TypeOK
  <1>1. Init => IInv
    BY InitIInv
  <1>2. IInv /\ [Next]_vars => IInv'
    BY IInvStep
  <1>3. IInv => TypeOK
    BY DEF IInv, TypeInv
  <1> QED
    BY <1>1, <1>2, <1>3, PTL DEF Spec

LEMMA Invariance ==
    ASSUME Assumptions
    PROVE  Spec => []IInv
  <1>1. Init => IInv
    BY InitIInv
  <1>2. IInv /\ [Next]_vars => IInv'
    BY IInvStep
  <1> QED
    BY <1>1, <1>2, PTL DEF Spec

(* The service is enabled only while every device that is online is ready, *)
(* and a device that is ready has had every sensor of its queue updated    *)
(* since it came online and since power returned, or no longer than the    *)
(* refresh limit before (doPollingTask skips such a sensor).  Not so for   *)
(* the devices that disturbed names, and not so when nsmd starts within    *)
(* the limit after the boot.                                               *)
THEOREM Readiness ==
    ASSUME Assumptions, ~EarlyStart
    PROVE  Spec => []ReadinessIsTrue
  <1>1. ASSUME IInv
        PROVE  ReadinessIsTrue
    <2>1. EnabledMeansReady
      BY <1>1 DEF IInv
    <2>2. ASSUME NEW d \in ready \ disturbed, NEW s \in Queued(d)
          PROVE  IsRenewed(s)
      <3>1. d \in Devices
        BY <1>1, TypesAt
      <3>2. PICK i \in 1 .. Len(queue[d]) : s = queue[d][i]
        BY <1>1, <3>1, QueueTypesAt DEF IInv
      <3>3. Behind(queue[d], 0, renewed) /\ Len(queue[d]) \in Nat
        BY <1>1, <3>1, QueueTypesAt DEF IInv, Round, RoundAt
      <3> QED
        BY <3>2, <3>3 DEF Behind, Excuses, IsRenewed
    <2> QED
      BY <2>1, <2>2 DEF ReadinessIsTrue, ReadyMeansRenewed
  <1> QED
    BY <1>1, Invariance, PTL

(* No sensor drops out of its queue before it was read, and a sensor that  *)
(* is not static is in one place at a time: in the queue or updated.       *)
THEOREM SensorsKept ==
    ASSUME Assumptions
    PROVE  Spec => []NoSensorForgotten
  <1>1. ASSUME IInv, NEW d \in Devices, NEW s \in Ours(d)
        PROVE  /\ Places(d, s) = 0 => s \in Static \intersect read
               /\ s \notin Static => Places(d, s) = 1
    <2> DEFINE P == {i \in DOMAIN queue[d] : queue[d][i] = s}
    <2>1. /\ Len(queue[d]) \in Nat /\ DOMAIN queue[d] = 1 .. Len(queue[d])
          /\ \A x \in Queued(d) : \E i \in 1 .. Len(queue[d]) : x = queue[d][i]
      BY <1>1, QueueTypesAt DEF IInv
    <2>2. IsFiniteSet(P) /\ Cardinality(P) \in Nat
      <3>1. P \in SUBSET (1 .. Len(queue[d])) /\ IsFiniteSet(1 .. Len(queue[d]))
        BY <2>1, FS_Interval
      <3> HIDE DEF P
      <3> QED
        BY <3>1, FS_Subset, FS_CardinalityType
    <2>3. Cardinality(P) = 0 <=> P = {}
      <3> HIDE DEF P
      <3> QED
        BY <2>2, FS_EmptySet
    <2>4. Places(d, s) = Cardinality(P) + (IF cur[d] = s THEN 1 ELSE 0)
      BY DEF Places
    <2>5. KeptAt(d)
      BY <1>1 DEF IInv, Kept
    <2>6. P = {} <=> s \notin Queued(d)
      BY <2>1 DEF Queued, ToSet
    <2>7. Places(d, s) = 0 => s \in Static \intersect read
      <3>1. Places(d, s) = 0 => cur[d] # s /\ Cardinality(P) = 0
        <4> HIDE DEF P
        <4> QED
          BY <2>2, <2>4
      <3> QED
        BY <1>1, <2>3, <2>5, <2>6, <3>1 DEF KeptAt
    <2>8. ASSUME s \notin Static
          PROVE  Places(d, s) = 1
      <3>1. CASE cur[d] = s
        <4>1. P = {}
          BY <2>1, <2>5, <2>8, <3>1 DEF KeptAt, Apart
        <4> QED
          BY <2>3, <2>4, <3>1, <4>1
      <3>2. CASE cur[d] # s
        <4>1. PICK i \in 1 .. Len(queue[d]) : queue[d][i] = s
          BY <1>1, <2>1, <2>5, <2>8, <3>2 DEF KeptAt
        <4>2. \A j \in 1 .. Len(queue[d]) : queue[d][j] = s => j = i
          BY <2>5, <2>8, <4>1 DEF KeptAt, Apart
        <4>3. P = {i}
          BY <2>1, <4>1, <4>2
        <4>4. Cardinality(P) = 1
          BY <4>3, FS_Singleton
        <4> QED
          BY <2>4, <3>2, <4>4
      <3> QED
        BY <3>1, <3>2
    <2> QED
      BY <2>7, <2>8
  <1>2. IInv => NoSensorForgotten
    BY <1>1 DEF NoSensorForgotten
  <1> QED
    BY <1>2, Invariance, PTL
=============================================================================
