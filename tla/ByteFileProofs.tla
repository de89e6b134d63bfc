---------------------------- MODULE ByteFileProofs ----------------------------
(***************************************************************************)
(* What Write writes, Load reads back, for every width of bytes, integers  *)
(* and checksums, and for every bytecode; and which .mky files are run:    *)
(* those of which no byte is missing or changed.                           *)
(*                                                                         *)
(* The invariant says how far damage can go: what is left of a file is no  *)
(* longer than it was, and no byte becomes one that the checksum, without  *)
(* collisions, is the checksum of.                                         *)
(***************************************************************************)
EXTENDS ByteFile, Numbers, SequenceTheorems, TLAPS

-----------------------------------------------------------------------------
(* Numbers and their bytes.                                                *)

(* Each byte weighs Radix times the one to its right.                      *)
LEMMA WeightLaws ==
  /\ Weight[0] = 1
  /\ \A k \in 1..(IntBytes + 4) : Weight[k] = Radix * Weight[k - 1]
  /\ \A k \in 0..(IntBytes + 4) : Weight[k] \in Nat \ {0}
<1> DEFINE n == IntBytes + 4
           step == [p \in Nat \X (1..n) |-> Radix * p[1]]
<1>1. n \in Nat /\ Radix \in Nat \ {0}
  BY IntBytesAssumption, RadixAssumption
<1> HIDE DEF n
<1>2. step \in Steps(Nat, n)
  BY <1>1 DEF Steps
<1>3. \E f : Iterates(f, Nat, 1, n, step)
  <2>1. 1 \in Nat
    OBVIOUS
  <2> HIDE DEF step
  <2> QED BY <1>1, <1>2, <2>1, Iterated
<1>4. PICK f : f \in [0..n -> Nat] /\ f[0] = 1 /\ \A k \in 1..n : f[k] = step[<< f[k - 1], k >>]
  BY <1>3 DEF Iterates
<1>5. ASSUME NEW k \in 0..n PROVE f[k] = IF k = 0 THEN 1 ELSE Radix * f[k - 1]
  <2>1. CASE k = 0
    BY <1>4, <2>1
  <2>2. CASE k # 0
    <3>1. k \in 1..n /\ f[k - 1] \in Nat
      <4>1. k \in 1..n /\ k - 1 \in 0..n
        BY <1>1, <2>2
      <4> HIDE DEF step
      <4> QED BY <1>4, <4>1
    <3>2. f[k] = step[<< f[k - 1], k >>]
      BY <1>4, <3>1
    <3> QED BY <2>2, <3>1, <3>2
  <2> QED BY <2>1, <2>2
<1>6. f = [k \in 0..n |-> IF k = 0 THEN 1 ELSE Radix * f[k - 1]]
  BY <1>4, <1>5
<1>7. Weight = CHOOSE w : w = [k \in 0..n |-> IF k = 0 THEN 1 ELSE Radix * w[k - 1]]
  BY DEF Weight, n
<1>8. Weight = [k \in 0..n |-> IF k = 0 THEN 1 ELSE Radix * Weight[k - 1]]
  BY <1>6, <1>7
<1>9. Weight[0] = 1 /\ \A k \in 1..n : Weight[k] = Radix * Weight[k - 1]
  <2>1. 0 \in 0..n /\ \A k \in 1..n : k \in 0..n /\ k # 0
    BY <1>1
  <2> QED BY <1>8, <2>1
<1>10. \A k \in 0..n : Weight[k] \in Nat \ {0}
  <2> DEFINE T == {k \in 0..n : Weight[k] \in Nat \ {0}}
  <2>1. 0 \in T
    BY <1>1, <1>9
  <2>2. ASSUME NEW k \in 1..n, k - 1 \in T PROVE k \in T
    <3>1. \A r, w \in Nat \ {0} : r * w \in Nat \ {0}
      OBVIOUS
    <3> QED BY <1>1, <1>9, <2>2, <3>1
  <2> HIDE DEF T
  <2>3. 0..n \subseteq T
    BY <1>1, <2>1, <2>2, Counting
  <2> QED BY <2>3 DEF T
<1> QED BY <1>9, <1>10 DEF n

(* The loop of FromBigEndian.                                              *)
Values(bytes, value) ==
  value = [k \in 0..Len(bytes) |-> IF k = 0 THEN 0 ELSE value[k - 1] * Radix + bytes[k]]

(* The loop has a result, which is what FromBigEndian gives.               *)
LEMMA ValueLaws ==
  ASSUME NEW bytes \in Seq(Int)
  PROVE  \E value : Values(bytes, value) /\ FromBigEndian(bytes) = value[Len(bytes)]
<1> DEFINE n == Len(bytes)
           step == [p \in Int \X (1..n) |-> p[1] * Radix + bytes[p[2]]]
<1>1. n \in Nat /\ Radix \in Nat /\ \A k \in 1..n : bytes[k] \in Int
  BY RadixAssumption, ElementOfSeq
<1> HIDE DEF n
<1>2. step \in Steps(Int, n)
  BY <1>1 DEF Steps
<1>3. \E f : Iterates(f, Int, 0, n, step)
  <2>1. 0 \in Int
    OBVIOUS
  <2> HIDE DEF step
  <2> QED BY <1>1, <1>2, <2>1, Iterated
<1>4. PICK f : f \in [0..n -> Int] /\ f[0] = 0 /\ \A k \in 1..n : f[k] = step[<< f[k - 1], k >>]
  BY <1>3 DEF Iterates
<1>5. ASSUME NEW k \in 0..n PROVE f[k] = IF k = 0 THEN 0 ELSE f[k - 1] * Radix + bytes[k]
  <2>1. CASE k = 0
    BY <1>4, <2>1
  <2>2. CASE k # 0
    <3>1. k \in 1..n /\ f[k - 1] \in Int
      <4>1. k \in 1..n /\ k - 1 \in 0..n
        BY <1>1, <2>2
      <4> HIDE DEF step
      <4> QED BY <1>4, <4>1
    <3>2. f[k] = step[<< f[k - 1], k >>]
      BY <1>4, <3>1
    <3> QED BY <2>2, <3>1, <3>2
  <2> QED BY <2>1, <2>2
<1>6. Values(bytes, f)
  <2>1. f = [k \in 0..n |-> IF k = 0 THEN 0 ELSE f[k - 1] * Radix + bytes[k]]
    BY <1>4, <1>5
  <2> QED BY <2>1 DEF Values, n
<1> DEFINE v == CHOOSE value : Values(bytes, value)
<1>7. Values(bytes, v)
  BY <1>6
<1>8. FromBigEndian(bytes) = v[Len(bytes)]
  BY DEF FromBigEndian, Values
<1> HIDE DEF v
<1> QED BY <1>7, <1>8

(* A number is written as bytes.                                           *)
LEMMA BigEndianBytes ==
  ASSUME NEW n \in Int, NEW w \in 0..(IntBytes + 4)
  PROVE  BigEndian(n, w) \in Seq(ByteValues) /\ Len(BigEndian(n, w)) = w
<1>1. w \in Nat /\ Radix \in Nat \ {0}
  BY IntBytesAssumption, RadixAssumption
<1>2. ASSUME NEW i \in 1..w PROVE (n \div Weight[w - i]) % Radix \in ByteValues
  <2>1. Weight[w - i] \in Nat \ {0}
    <3>1. w - i \in 0..(IntBytes + 4)
      BY <1>1, IntBytesAssumption
    <3> QED BY <3>1, WeightLaws
  <2>2. n \div Weight[w - i] \in Int
    BY <2>1, Quotients
  <2> QED BY <1>1, <2>2, Quotients DEF ByteValues
<1>3. BigEndian(n, w) \in [1..w -> ByteValues]
  BY <1>2 DEF BigEndian
<1> QED BY <1>1, <1>3, SeqDef, LenProperties

(* Reading the bytes gives the number, but for multiples of what they      *)
(* count.                                                                  *)
LEMMA BigEndianReadsBack ==
  ASSUME NEW n \in Int, NEW w \in 0..(IntBytes + 4)
  PROVE  FromBigEndian(BigEndian(n, w)) = n - ((n \div Weight[w]) * Weight[w])
<1> DEFINE bytes == BigEndian(n, w)
           q == n \div Weight[w]
<1>1. bytes \in Seq(ByteValues) /\ Len(bytes) = w /\ w \in Nat /\ Radix \in Nat \ {0}
  BY BigEndianBytes, IntBytesAssumption, RadixAssumption
<1>2. \A k \in 0..w : /\ Weight[k] \in Nat \ {0} /\ Weight[w - k] \in Nat \ {0}
                      /\ n \div Weight[w - k] \in Int
  <2>1. \A k \in 0..w : k \in 0..(IntBytes + 4) /\ w - k \in 0..(IntBytes + 4)
    BY <1>1, IntBytesAssumption
  <2> QED BY <2>1, WeightLaws, Quotients
<1>3. \A k \in 1..w : bytes[k] = (n \div Weight[w - k]) % Radix /\ bytes[k] \in Int
  <2>1. \A k \in 1..w : bytes[k] = (n \div Weight[w - k]) % Radix
    BY DEF BigEndian
  <2>2. \A k \in 1..w : n \div Weight[w - k] \in Int
    BY <1>1, <1>2
  <2>3. \A m \in Int : m % Radix \in Int
    BY <1>1
  <2> HIDE DEF bytes
  <2>4. \A k \in 1..w : (n \div Weight[w - k]) % Radix \in Int
    BY <2>2, <2>3, Zenon
  <2> QED BY <2>1, <2>4, Zenon
<1> HIDE DEF bytes
<1>4. bytes \in Seq(Int)
  <2>1. bytes \in [1..w -> Int]
    <3>1. bytes \in [1..w -> ByteValues]
      BY <1>1, LenProperties
    <3> QED BY <1>3, <3>1
  <2> QED BY <1>1, <2>1, SeqDef
<1>5. PICK value : Values(bytes, value) /\ FromBigEndian(bytes) = value[Len(bytes)]
  BY <1>4, ValueLaws
<1>6. \A k \in 0..w : value[k] = IF k = 0 THEN 0 ELSE value[k - 1] * Radix + bytes[k]
  BY <1>1, <1>5 DEF Values
<1>7. q \in Int
  <2>1. w \in 0..w /\ w - 0 = w
    BY <1>1
  <2>2. Weight[w] \in Nat \ {0}
    BY <1>2, <2>1
  <2> QED BY <2>2, Quotients
<1> DEFINE T == {k \in 0..w : value[k] = (n \div Weight[w - k]) - (q * Weight[k])}
<1>8. 0 \in T
  <2>1. value[0] = 0 /\ w - 0 = w /\ 0 \in 0..w
    BY <1>1, <1>6
  <2>2. (n \div Weight[w - 0]) - (q * Weight[0]) = q - (q * 1)
    BY <2>1, WeightLaws
  <2>3. q - (q * 1) = 0
    <3> HIDE DEF q
    <3> QED BY <1>7
  <2> HIDE DEF q
  <2> QED BY <2>1, <2>2, <2>3
<1>9. ASSUME NEW k \in 1..w, k - 1 \in T
      PROVE  k \in T
  <2> DEFINE m == n \div Weight[w - k]
  <2>1. /\ k \in 0..w /\ k # 0 /\ k - 1 \in 0..w /\ k \in 1..(IntBytes + 4)
        /\ w - k \in 0..(IntBytes + 4) /\ w - (k - 1) \in 1..(IntBytes + 4)
        /\ (w - (k - 1)) - 1 = w - k
    BY <1>1, IntBytesAssumption
  <2>2. /\ Weight[w - (k - 1)] = Radix * Weight[w - k] /\ Weight[k] = Radix * Weight[k - 1]
        /\ Weight[k - 1] \in Nat /\ Weight[w - k] \in Nat \ {0}
    BY <1>2, <2>1, WeightLaws
  <2>3. n \div Weight[w - (k - 1)] = m \div Radix
    <3>1. (n \div Weight[w - k]) \div Radix = n \div (Radix * Weight[w - k])
      BY <1>1, <2>2, Quotients, Zenon
    <3> QED BY <2>2, <3>1, Zenon
  <2>4. m \in Int /\ ((m \div Radix) * Radix) + (m % Radix) = m /\ m \div Radix \in Int
        /\ m % Radix \in Int
    <3>1. m \in Int
      BY <1>2, <2>1
    <3> HIDE DEF m
    <3>2. ((m \div Radix) * Radix) + (m % Radix) = m
      BY <1>1, <3>1, Quotients, Zenon
    <3>3. m \div Radix \in Int /\ m % Radix \in Int
      BY <1>1, <3>1
    <3> QED BY <3>1, <3>2, <3>3
  <2>5. value[k] = value[k - 1] * Radix + (m % Radix)
    BY <1>3, <1>6, <2>1
  <2>6. value[k - 1] = (m \div Radix) - (q * Weight[k - 1])
    BY <1>9, <2>3
  <2> HIDE DEF m, q
  <2>7. \A d, r, u, v \in Int : (d - (q * u)) * r + v = ((d * r) + v) - (q * (r * u))
    BY <1>7
  <2>8. value[k] = m - (q * Weight[k])
    <3>1. value[k] = ((m \div Radix) - (q * Weight[k - 1])) * Radix + (m % Radix)
      BY <2>5, <2>6, Zenon
    <3>2. m \div Radix \in Int /\ Radix \in Int /\ Weight[k - 1] \in Int /\ m % Radix \in Int
      BY <1>1, <2>2, <2>4
    <3>3. ((m \div Radix) - (q * Weight[k - 1])) * Radix + (m % Radix)
            = (((m \div Radix) * Radix) + (m % Radix)) - (q * (Radix * Weight[k - 1]))
      <4> DEFINE d == m \div Radix
                 v == m % Radix
                 u == Weight[k - 1]
      <4>1. d \in Int /\ Radix \in Int /\ u \in Int /\ v \in Int
        BY <3>2
      <4> HIDE DEF d, v, u
      <4>2. (d - (q * u)) * Radix + v = ((d * Radix) + v) - (q * (Radix * u))
        BY <2>7, <4>1
      <4> QED BY <4>2 DEF d, v, u
    <3> QED BY <2>2, <2>4, <3>1, <3>3, Zenon
  <2> QED BY <2>1, <2>8 DEF m
<1>10. w \in T
  <2> HIDE DEF T
  <2>1. 0..w \subseteq T
    BY <1>1, <1>8, <1>9, Counting
  <2> QED BY <1>1, <2>1
<1>11. value[w] = (n \div Weight[0]) - (q * Weight[w])
  <2>1. w - w = 0
    BY <1>1
  <2> HIDE DEF q
  <2> QED BY <1>10, <2>1
<1>12. n \div Weight[0] = n
  <2>1. \A m \in Int : m \div 1 = m
    OBVIOUS
  <2> QED BY <2>1, WeightLaws
<1> QED BY <1>1, <1>5, <1>11, <1>12 DEF bytes

(* Numbers of as many bytes come back.                                     *)
LEMMA SizesComeBack ==
  ASSUME NEW n \in Nat, n < Weight[4]
  PROVE  FromBigEndian(BigEndian(n, 4)) = n
<1>1. 4 \in 0..(IntBytes + 4)
  BY IntBytesAssumption
<1>2. Weight[4] \in Nat \ {0}
  BY <1>1, WeightLaws
<1>3. n \div Weight[4] = 0
  BY <1>2
<1>4. FromBigEndian(BigEndian(n, 4)) = n - (0 * Weight[4])
  BY <1>1, <1>3, BigEndianReadsBack
<1> QED BY <1>2, <1>4

(* Negative integers, too, by the wrap-around of int64.                    *)
LEMMA IntegersComeBack ==
  ASSUME NEW n \in Int64
  PROVE  Wrap(FromBigEndian(BigEndian(n, IntBytes))) = n
<1>1. IntBytes \in 0..(IntBytes + 4) /\ IntHalf \in Nat \ {0} /\ Weight[IntBytes] = 2 * IntHalf
      /\ n \in Int /\ -IntHalf <= n /\ n <= IntHalf - 1
  BY IntBytesAssumption, IntHalfAssumption DEF Int64
<1>2. FromBigEndian(BigEndian(n, IntBytes)) = n - ((n \div (2 * IntHalf)) * (2 * IntHalf))
  BY <1>1, BigEndianReadsBack
<1>3. CASE n >= 0
  <2>1. n \div (2 * IntHalf) = 0
    BY <1>1, <1>3
  <2>2. FromBigEndian(BigEndian(n, IntBytes)) = n
    BY <1>1, <1>2, <2>1
  <2>3. (n + IntHalf) % (2 * IntHalf) = n + IntHalf
    BY <1>1, <1>3
  <2> QED BY <1>1, <2>2, <2>3 DEF Wrap
<1>4. CASE n < 0
  <2>1. n \div (2 * IntHalf) = -1
    BY <1>1, <1>4
  <2>2. FromBigEndian(BigEndian(n, IntBytes)) = n + (2 * IntHalf)
    BY <1>1, <1>2, <2>1
  <2>3. ((n + (2 * IntHalf)) + IntHalf) % (2 * IntHalf) = n + IntHalf
    BY <1>1, <1>4
  <2> QED BY <1>1, <2>2, <2>3 DEF Wrap
<1> QED BY <1>1, <1>3, <1>4

-----------------------------------------------------------------------------
(* Bytes in a payload.                                                     *)

(* The payload has these bytes behind the first pos ones.                  *)
Holds(payload, pos, bytes) ==
  /\ pos + Len(bytes) <= Len(payload)
  /\ \A i \in 1..Len(bytes) : payload[pos + i] = bytes[i]

(* They are what a slice takes.                                            *)
LEMMA SliceOfHeld ==
  ASSUME NEW S, NEW payload \in Seq(S), NEW bytes \in Seq(S), NEW pos \in Nat,
         Holds(payload, pos, bytes)
  PROVE  SubSeq(payload, pos + 1, pos + Len(bytes)) = bytes
<1> DEFINE n == pos + Len(bytes)
           slice == SubSeq(payload, pos + 1, n)
<1>1. Len(bytes) \in Nat /\ Len(payload) \in Nat /\ n \in Int /\ n <= Len(payload)
  BY LenProperties DEF Holds
<1>2. \A i \in (pos + 1)..n : payload[i] \in S
  <2>1. \A i \in (pos + 1)..n : i \in 1..Len(payload)
    BY <1>1
  <2> QED BY <2>1, ElementOfSeq
<1>3. pos + 1 \in Int /\ (n - (pos + 1)) + 1 = Len(bytes)
  BY <1>1
<1> HIDE DEF n
<1>4. /\ slice \in Seq(S) /\ Len(slice) = IF pos + 1 <= n THEN (n - (pos + 1)) + 1 ELSE 0
      /\ \A i \in 1..((n - (pos + 1)) + 1) : slice[i] = payload[((pos + 1) + i) - 1]
  BY <1>1, <1>2, <1>3, SubSeqProperties
<1>5. Len(slice) = Len(bytes)
  <2> HIDE DEF slice
  <2> QED BY <1>1, <1>3, <1>4 DEF n
<1>6. \A i \in 1..Len(bytes) : ((pos + 1) + i) - 1 = pos + i
  BY <1>1
<1> HIDE DEF slice
<1>7. \A i \in 1..Len(slice) : slice[i] = bytes[i]
  BY <1>3, <1>4, <1>5, <1>6 DEF Holds
<1>8. slice = bytes
  BY <1>4, <1>5, <1>7, SeqEqual
<1> QED BY <1>8 DEF slice, n

(* Two pieces are held where the one and then the other is.                *)
LEMMA HeldInTwo ==
  ASSUME NEW S, NEW a \in Seq(S), NEW b \in Seq(S), NEW payload, NEW pos \in Nat,
         Len(payload) \in Nat, Holds(payload, pos, a \o b)
  PROVE  /\ Holds(payload, pos, a) /\ pos + Len(a) \in Nat
         /\ Holds(payload, pos + Len(a), b)
         /\ pos + Len(a \o b) = (pos + Len(a)) + Len(b)
<1> DEFINE ab == a \o b
<1>1. /\ Len(a) \in Nat /\ Len(b) \in Nat /\ Len(ab) = Len(a) + Len(b)
      /\ \A i \in 1..(Len(a) + Len(b)) : ab[i] = IF i <= Len(a) THEN a[i] ELSE b[i - Len(a)]
  BY ConcatProperties, LenProperties
<1> HIDE DEF ab
<1>2. /\ pos + Len(ab) <= Len(payload)
      /\ \A i \in 1..Len(ab) : payload[pos + i] = ab[i]
  BY DEF Holds, ab
<1>3. \A i \in 1..Len(a) : payload[pos + i] = a[i]
  <2> SUFFICES ASSUME NEW i \in 1..Len(a) PROVE payload[pos + i] = a[i]
    OBVIOUS
  <2>1. i \in 1..(Len(a) + Len(b)) /\ i <= Len(a)
    BY <1>1
  <2> QED BY <1>1, <1>2, <2>1
<1>4. \A i \in 1..Len(b) : payload[(pos + Len(a)) + i] = b[i]
  <2> SUFFICES ASSUME NEW i \in 1..Len(b) PROVE payload[(pos + Len(a)) + i] = b[i]
    OBVIOUS
  <2>1. /\ Len(a) + i \in 1..(Len(a) + Len(b)) /\ ~ (Len(a) + i <= Len(a))
        /\ (Len(a) + i) - Len(a) = i /\ pos + (Len(a) + i) = (pos + Len(a)) + i
    BY <1>1
  <2> QED BY <1>1, <1>2, <2>1
<1>5. pos + Len(a) <= Len(payload) /\ (pos + Len(a)) + Len(b) <= Len(payload)
      /\ pos + Len(a) \in Nat /\ pos + Len(ab) = (pos + Len(a)) + Len(b)
  BY <1>1, <1>2
<1> QED BY <1>3, <1>4, <1>5 DEF Holds, ab

-----------------------------------------------------------------------------
(* The loader reads what writeObj writes.                                  *)

(* A size and the bytes that it counts.                                    *)
LEMMA WithSizeBytes ==
  ASSUME NEW ins \in Code
  PROVE  /\ ins \in Seq(ByteValues) /\ Len(ins) \in Nat /\ Len(ins) < Weight[4]
         /\ BigEndian(Len(ins), 4) \in Seq(ByteValues) /\ Len(BigEndian(Len(ins), 4)) = 4
         /\ WithSize(ins) \in Seq(ByteValues) /\ Len(WithSize(ins)) = 4 + Len(ins)
<1>1. ins \in Seq(ByteValues) /\ Len(ins) \in Nat /\ Len(ins) < Weight[4]
  BY LenProperties DEF Code
<1>2. BigEndian(Len(ins), 4) \in Seq(ByteValues) /\ Len(BigEndian(Len(ins), 4)) = 4
  <2>1. 4 \in 0..(IntBytes + 4) /\ Len(ins) \in Int
    BY <1>1, IntBytesAssumption
  <2> QED BY <2>1, BigEndianBytes
<1>3. WithSize(ins) \in Seq(ByteValues) /\ Len(WithSize(ins)) = 4 + Len(ins)
  <2> DEFINE size == BigEndian(Len(ins), 4)
  <2> HIDE DEF size
  <2>1. size \in Seq(ByteValues) /\ Len(size) = 4
    BY <1>2 DEF size
  <2>2. size \o ins \in Seq(ByteValues) /\ Len(size \o ins) = Len(size) + Len(ins)
    <3>1. size \in Seq(ByteValues) /\ ins \in Seq(ByteValues)
      BY <1>1, <2>1
    <3> QED BY <3>1, ConcatProperties
  <2> QED BY <2>1, <2>2 DEF WithSize, size
<1> QED BY <1>1, <1>2, <1>3

(* What the loader finds of a constant: a function's numbers are cut to    *)
(* bytes.                                                                  *)
AsRead(obj) ==
  IF obj.t = "COMPILED_FUNCTION"
  THEN CompiledFunction(obj.ins, obj.numLocals % Radix, obj.numParameters % Radix)
  ELSE obj

(* The bytes of an object behind its type.                                 *)
Content(obj) ==
  CASE obj.t = "INTEGER" -> BigEndian(obj.n, IntBytes)
    [] obj.t = "STRING"  -> obj.s \o << 0 >>
    [] obj.t = "COMPILED_FUNCTION" ->
         << obj.numLocals % Radix, obj.numParameters % Radix >> \o WithSize(obj.ins)

(* An object is written as its type, then its content.                     *)
LEMMA WrittenBytes ==
  ASSUME NEW obj \in Constants
  PROVE  /\ WriteObj(obj) = << TypeByte(obj.t) >> \o Content(obj)
         /\ << TypeByte(obj.t) >> \in Seq(ByteValues) /\ Content(obj) \in Seq(ByteValues)
         /\ WriteObj(obj) \in Seq(ByteValues)
<1>1. WriteObj(obj) = << TypeByte(obj.t) >> \o Content(obj)
  BY DEF WriteObj, Content
<1>2. obj.t \in {"INTEGER", "STRING", "COMPILED_FUNCTION"}
  BY DEF Constants
<1>3. TypeByte(obj.t) \in ByteValues
  BY <1>2, RadixAssumption DEF TypeByte, ByteValues
<1>4. CASE obj.t = "INTEGER"
  <2>1. obj.n \in Int
    BY <1>4 DEF Constants, Int64
  <2>2. IntBytes \in 0..(IntBytes + 4)
    BY IntBytesAssumption
  <2>3. BigEndian(obj.n, IntBytes) \in Seq(ByteValues)
    BY <2>1, <2>2, BigEndianBytes
  <2>4. Content(obj) \in Seq(ByteValues)
    BY <1>4, <2>3 DEF Content
  <2> QED BY <1>1, <1>3, <2>4, ConcatProperties
<1>5. CASE obj.t = "STRING"
  <2>1. obj.s \in Seq(1..(Radix - 1))
    BY <1>5 DEF Constants
  <2>2. 1..(Radix - 1) \subseteq ByteValues /\ 0 \in ByteValues
    BY RadixAssumption DEF ByteValues
  <2>3. obj.s \in Seq(ByteValues)
    BY <2>1, <2>2, SeqMonotonic
  <2>4. Content(obj) \in Seq(ByteValues)
    BY <1>5, <2>2, <2>3, ConcatProperties DEF Content
  <2> QED BY <1>1, <1>3, <2>4, ConcatProperties
<1>6. CASE obj.t = "COMPILED_FUNCTION"
  <2>1. obj.ins \in Code /\ obj.numLocals \in Nat /\ obj.numParameters \in Nat
    BY <1>6 DEF Constants
  <2>2. obj.numLocals % Radix \in ByteValues /\ obj.numParameters % Radix \in ByteValues
    BY <2>1, RadixAssumption DEF ByteValues
  <2>3. WithSize(obj.ins) \in Seq(ByteValues)
    BY <2>1, WithSizeBytes
  <2>4. Content(obj) \in Seq(ByteValues)
    BY <1>6, <2>2, <2>3, ConcatProperties DEF Content
  <2> QED BY <1>1, <1>3, <2>4, ConcatProperties
<1> QED BY <1>2, <1>4, <1>5, <1>6

(* A loader for which all has gone well.                                   *)
Stands(payload, pos, cs) ==
  [is |-> "ok", payload |-> payload, pos |-> pos, constants |-> cs]

(* It stands behind what it reads, with one constant more.                 *)
LEMMA ReadingOn ==
  ASSUME NEW payload, NEW pos, NEW cs, NEW n, NEW obj
  PROVE  Reads_(Stands(payload, pos, cs), n, obj) = Stands(payload, pos + n, Append(cs, obj))
<1> DEFINE l == Stands(payload, pos, cs)
           x == Append(cs, obj)
           m == pos + n
<1>1. l.pos + n = m /\ Append(l.constants, obj) = x
  BY DEF Stands
<1>2. Reads_(l, n, obj) = [l EXCEPT !.pos = m, !.constants = x]
  <2> HIDE DEF m, x, l
  <2> QED BY <1>1 DEF Reads_
<1> HIDE DEF m, x
<1>3. [l EXCEPT !.pos = m, !.constants = x] = Stands(payload, m, x)
  <2>1. [l EXCEPT !.pos = m] = Stands(payload, m, cs)
    BY DEF Stands
  <2>2. [Stands(payload, m, cs) EXCEPT !.constants = x] = Stands(payload, m, x)
    BY DEF Stands
  <2>3. [l EXCEPT !.pos = m, !.constants = x] = [[l EXCEPT !.pos = m] EXCEPT !.constants = x]
    <3> HIDE DEF l
    <3> QED OBVIOUS
  <2> HIDE DEF l
  <2> QED BY <2>1, <2>2, <2>3
<1> QED BY <1>2, <1>3 DEF m, x

(* Big-endian bytes of all widths.                                         *)
LEMMA ReadsInteger ==
  ASSUME NEW payload \in Seq(ByteValues), NEW pos \in Nat, NEW cs, NEW n \in Int64,
         Holds(payload, pos, BigEndian(n, IntBytes))
  PROVE  ReadInteger(Stands(payload, pos, cs)) =
           Stands(payload, pos + Len(BigEndian(n, IntBytes)), Append(cs, Integer(n)))
<1> DEFINE l == Stands(payload, pos, cs)
           bytes == BigEndian(n, IntBytes)
<1>1. bytes \in Seq(ByteValues) /\ Len(bytes) = IntBytes
  <2>1. IntBytes \in 0..(IntBytes + 4) /\ n \in Int
    BY IntBytesAssumption DEF Int64
  <2> QED BY <2>1, BigEndianBytes
<1>2. SubSeq(payload, pos + 1, pos + IntBytes) = bytes
  <2> HIDE DEF bytes
  <2>1. Holds(payload, pos, bytes)
    BY DEF bytes
  <2> QED BY <1>1, <2>1, SliceOfHeld
<1>3. Wrap(FromBigEndian(bytes)) = n
  BY IntegersComeBack
<1>4. ~ (Rest(l) < IntBytes)
  <2>1. pos + IntBytes <= Len(payload)
    BY <1>1 DEF Holds
  <2>2. Len(payload) \in Nat /\ IntBytes \in Nat
    BY LenProperties, IntBytesAssumption
  <2> QED BY <2>1, <2>2 DEF Rest, Stands
<1>5. Bytes(l, IntBytes) = bytes
  <2> HIDE DEF bytes
  <2> QED BY <1>2 DEF Bytes, Stands
<1>6. ReadInteger(l) = Reads_(l, IntBytes, Integer(n))
  <2> HIDE DEF l, bytes
  <2> QED BY <1>3, <1>4, <1>5 DEF ReadInteger
<1>7. Reads_(l, IntBytes, Integer(n)) = Stands(payload, pos + IntBytes, Append(cs, Integer(n)))
  BY ReadingOn
<1> QED BY <1>1, <1>6, <1>7

(* A string ends at its first zero, which is the one behind it.            *)
LEMMA ReadsString ==
  ASSUME NEW payload \in Seq(ByteValues), NEW pos \in Nat, NEW cs,
         NEW s \in Seq(1..(Radix - 1)), Holds(payload, pos, s \o << 0 >>)
  PROVE  ReadString(Stands(payload, pos, cs)) =
           Stands(payload, pos + Len(s \o << 0 >>), Append(cs, String(s)))
<1> DEFINE l == Stands(payload, pos, cs)
           zeros == { n \in 0..(Rest(l) - 1) : l.payload[l.pos + n + 1] = 0 }
           len == CHOOSE n \in zeros : \A m \in zeros : n <= m
<1>1. /\ s \in Seq(ByteValues) /\ << 0 >> \in Seq(ByteValues) /\ Len(<< 0 >>) = 1
      /\ Len(s) \in Nat /\ Len(payload) \in Nat
  <2>1. 1..(Radix - 1) \subseteq ByteValues /\ 0 \in ByteValues
    BY RadixAssumption DEF ByteValues
  <2>2. s \in Seq(ByteValues)
    BY <2>1, SeqMonotonic
  <2>3. Len(s) \in Nat
    BY LenProperties
  <2>4. Len(payload) \in Nat
    BY LenProperties
  <2>5. << 0 >> \in Seq(ByteValues) /\ Len(<< 0 >>) = 1
    BY <2>1
  <2> QED BY <2>2, <2>3, <2>4, <2>5
<1>2. /\ Holds(payload, pos, s) /\ Holds(payload, pos + Len(s), << 0 >>)
      /\ pos + Len(s \o << 0 >>) = (pos + Len(s)) + 1
  <2> DEFINE zero == << 0 >>
  <2>1. zero \in Seq(ByteValues) /\ Len(zero) = 1 /\ Holds(payload, pos, s \o zero)
    BY <1>1
  <2> HIDE DEF zero
  <2>2. s \in Seq(ByteValues) /\ Len(payload) \in Nat
    BY <1>1
  <2>3. /\ Holds(payload, pos, s) /\ Holds(payload, pos + Len(s), zero)
        /\ pos + Len(s \o zero) = (pos + Len(s)) + Len(zero)
    BY <2>1, <2>2, HeldInTwo
  <2> QED BY <2>1, <2>3 DEF zero
<1>3. /\ payload[(pos + Len(s)) + 1] = 0 /\ (pos + Len(s)) + 1 <= Len(payload)
      /\ \A i \in 1..Len(s) : payload[pos + i] = s[i] /\ s[i] # 0
  <2>1. \A i \in 1..Len(s) : s[i] # 0
    <3>1. \A i \in 1..Len(s) : s[i] \in 1..(Radix - 1)
      BY ElementOfSeq
    <3> QED BY <3>1, RadixAssumption
  <2>2. 1 \in 1..Len(<< 0 >>) /\ << 0 >>[1] = 0
    BY <1>1
  <2>3. payload[(pos + Len(s)) + 1] = 0
    BY <1>2, <2>2 DEF Holds
  <2>4. (pos + Len(s)) + 1 <= Len(payload)
    BY <1>1, <1>2 DEF Holds
  <2>5. \A i \in 1..Len(s) : payload[pos + i] = s[i]
    BY <1>2 DEF Holds
  <2> QED BY <2>1, <2>3, <2>4, <2>5
<1>4. zeros = { n \in 0..((Len(payload) - pos) - 1) : payload[pos + n + 1] = 0 }
  BY DEF Rest, Stands
<1> HIDE DEF zeros
<1>5. Len(s) \in zeros
  <2>1. Len(s) \in 0..((Len(payload) - pos) - 1)
    BY <1>1, <1>3
  <2> QED BY <1>3, <1>4, <2>1
<1>6. \A n \in zeros : Len(s) <= n
  <2> SUFFICES ASSUME NEW n \in zeros, n < Len(s) PROVE FALSE
    BY <1>1, <1>4
  <2>1. n + 1 \in 1..Len(s) /\ pos + (n + 1) = pos + n + 1
    BY <1>1, <1>4
  <2>2. payload[pos + n + 1] = 0
    BY <1>4
  <2> QED BY <1>3, <2>1, <2>2
<1>7. len = Len(s)
  <2>1. len \in zeros /\ \A m \in zeros : len <= m
    BY <1>5, <1>6
  <2> HIDE DEF len
  <2>2. len <= Len(s) /\ Len(s) <= len /\ len \in Int
    BY <1>4, <1>5, <1>6, <2>1
  <2> QED BY <1>1, <2>2
<1>8. Bytes(l, Len(s)) = s
  <2>1. SubSeq(payload, pos + 1, pos + Len(s)) = s
    BY <1>1, <1>2, SliceOfHeld
  <2> QED BY <2>1 DEF Bytes, Stands
<1>9. ReadString(l) = IF zeros = {} THEN Ends(l, "error")
                      ELSE Reads_(l, len + 1, String(Bytes(l, len)))
  BY DEF ReadString, zeros
<1> HIDE DEF len, l
<1>10. ReadString(l) = Reads_(l, Len(s) + 1, String(s))
  BY <1>5, <1>7, <1>8, <1>9
<1>11. Reads_(l, Len(s) + 1, String(s)) = Stands(payload, pos + (Len(s) + 1), Append(cs, String(s)))
  BY ReadingOn DEF l
<1>12. pos + (Len(s) + 1) = pos + Len(s \o << 0 >>)
  BY <1>1, <1>2
<1> QED BY <1>10, <1>11, <1>12 DEF l

(* A function: its two numbers, and as many bytes of code as there are.    *)
LEMMA ReadsFunction ==
  ASSUME NEW payload \in Seq(ByteValues), NEW pos \in Nat, NEW cs,
         NEW a \in ByteValues, NEW b \in ByteValues, NEW ins \in Code,
         Holds(payload, pos, << a, b >> \o WithSize(ins))
  PROVE  ReadFunction(Stands(payload, pos, cs)) =
           Stands(payload, pos + Len(<< a, b >> \o WithSize(ins)),
                  Append(cs, CompiledFunction(ins, a, b)))
<1> DEFINE l == Stands(payload, pos, cs)
           n == Len(ins)
           size == BigEndian(n, 4)
           head == << a, b >>
           sized == WithSize(ins)
<1>1. /\ head \in Seq(ByteValues) /\ Len(head) = 2 /\ head[1] = a /\ head[2] = b
      /\ ins \in Seq(ByteValues) /\ n \in Nat /\ n < Weight[4]
      /\ size \in Seq(ByteValues) /\ Len(size) = 4
      /\ sized \in Seq(ByteValues) /\ Len(sized) = 4 + n /\ Len(payload) \in Nat
  <2>1. head \in Seq(ByteValues) /\ Len(head) = 2 /\ head[1] = a /\ head[2] = b
    OBVIOUS
  <2>2. Len(payload) \in Nat
    BY LenProperties
  <2> HIDE DEF head
  <2> QED BY <2>1, <2>2, WithSizeBytes
<1> HIDE DEF head
<1>2. /\ Holds(payload, pos, head) /\ Holds(payload, pos + 2, sized)
      /\ pos + Len(head \o sized) = (pos + 2) + Len(sized)
  <2>1. Holds(payload, pos, head \o sized)
    BY DEF head
  <2> HIDE DEF sized, size, n, l
  <2>2. head \in Seq(ByteValues) /\ sized \in Seq(ByteValues) /\ Len(payload) \in Nat
    BY <1>1
  <2>3. /\ Holds(payload, pos, head) /\ Holds(payload, pos + Len(head), sized)
        /\ pos + Len(head \o sized) = (pos + Len(head)) + Len(sized)
    BY <2>1, <2>2, HeldInTwo
  <2> QED BY <1>1, <2>3
<1>3. sized = size \o ins
  BY DEF WithSize
<1> HIDE DEF size, sized
<1>4. Holds(payload, pos + 2, size) /\ Holds(payload, (pos + 2) + 4, ins)
  <2>1. pos + 2 \in Nat /\ Holds(payload, pos + 2, size \o ins)
    BY <1>2, <1>3
  <2>2. Holds(payload, pos + 2, size) /\ Holds(payload, (pos + 2) + Len(size), ins)
    BY <1>1, <2>1, HeldInTwo
  <2> QED BY <1>1, <2>2
<1>5. SubSeq(payload, pos + 3, pos + 6) = size
  <2>1. pos + 2 \in Nat /\ (pos + 2) + 1 = pos + 3 /\ (pos + 2) + 4 = pos + 6
    OBVIOUS
  <2>2. SubSeq(payload, (pos + 2) + 1, (pos + 2) + Len(size)) = size
    BY <1>1, <1>4, <2>1, SliceOfHeld
  <2> QED BY <1>1, <2>1, <2>2
<1>6. SubSeq(payload, pos + 7, pos + 6 + n) = ins
  <2>1. /\ (pos + 2) + 4 \in Nat /\ ((pos + 2) + 4) + 1 = pos + 7
        /\ ((pos + 2) + 4) + n = pos + 6 + n
    BY <1>1
  <2>2. SubSeq(payload, ((pos + 2) + 4) + 1, ((pos + 2) + 4) + Len(ins)) = ins
    BY <1>1, <1>4, <2>1, SliceOfHeld
  <2> QED BY <2>1, <2>2
<1>7. FromBigEndian(size) = n
  BY <1>1, SizesComeBack DEF size
<1>8. payload[pos + 1] = a /\ payload[pos + 2] = b
  <2>1. 1 \in 1..Len(head) /\ 2 \in 1..Len(head)
    BY <1>1
  <2> QED BY <1>1, <1>2, <2>1 DEF Holds
<1>9. ~ (Rest(l) < 6) /\ ~ (Rest(l) < 6 + n)
  <2>1. (pos + 2) + (4 + n) <= Len(payload)
    BY <1>1, <1>2 DEF Holds
  <2>2. Rest(l) = Len(payload) - pos
    BY DEF Rest, Stands
  <2> HIDE DEF l, n
  <2> QED BY <1>1, <2>1, <2>2
<1>10. l.payload = payload /\ l.pos = pos
  BY DEF Stands
<1> HIDE DEF l, n
<1>11. ReadFunction(l) = Reads_(l, 6 + n, CompiledFunction(ins, a, b))
  BY <1>5, <1>6, <1>7, <1>8, <1>9, <1>10 DEF ReadFunction
<1>12. Reads_(l, 6 + n, CompiledFunction(ins, a, b)) =
         Stands(payload, pos + (6 + n), Append(cs, CompiledFunction(ins, a, b)))
  BY ReadingOn DEF l
<1>13. pos + (6 + n) = pos + Len(head \o sized)
  BY <1>1, <1>2
<1> QED BY <1>11, <1>12, <1>13 DEF l, head, sized

(* Each of the objects that a compiler makes, behind any others.           *)
LEMMA ReadsObject ==
  ASSUME NEW payload \in Seq(ByteValues), NEW pos \in Nat, NEW cs, NEW obj \in Constants,
         Holds(payload, pos, WriteObj(obj))
  PROVE  ReadConstant(Stands(payload, pos, cs)) =
           Stands(payload, pos + Len(WriteObj(obj)), Append(cs, AsRead(obj)))
<1> DEFINE before == Stands(payload, pos, cs)
           l == Stands(payload, pos + 1, cs)
           type == << TypeByte(obj.t) >>
           content == Content(obj)
<1>1. /\ WriteObj(obj) = type \o content /\ type \in Seq(ByteValues)
      /\ content \in Seq(ByteValues)
  BY WrittenBytes
<1>2. Len(type) = 1 /\ type[1] = TypeByte(obj.t) /\ Len(payload) \in Nat
  BY LenProperties
<1> HIDE DEF type, content
<1>3. /\ Holds(payload, pos, type) /\ Holds(payload, pos + 1, content)
      /\ pos + Len(WriteObj(obj)) = (pos + 1) + Len(content)
  <2>1. Holds(payload, pos, type \o content)
    BY <1>1
  <2>2. /\ Holds(payload, pos, type) /\ Holds(payload, pos + Len(type), content)
        /\ pos + Len(type \o content) = (pos + Len(type)) + Len(content)
    <3>1. type \in Seq(ByteValues) /\ content \in Seq(ByteValues)
      BY <1>1
    <3> QED BY <2>1, <3>1, HeldInTwo
  <2>3. WriteObj(obj) = type \o content /\ Len(type) = 1
    BY <1>1, <1>2, Zenon
  <2> QED BY <2>2, <2>3, Zenon
<1>4. payload[pos + 1] = TypeByte(obj.t) /\ pos + 1 <= Len(payload)
  <2>1. 1 \in 1..Len(type)
    BY <1>2
  <2> QED BY <1>2, <1>3, <2>1 DEF Holds
<1>5. /\ before.is = "ok" /\ ~ (Rest(before) = 0)
      /\ [before EXCEPT !.pos = @ + 1] = l /\ before.payload[l.pos] = TypeByte(obj.t)
  <2>1. before.is = "ok" /\ [before EXCEPT !.pos = @ + 1] = l
    BY DEF Stands
  <2>2. before.payload = payload /\ l.pos = pos + 1 /\ before.pos = pos
    BY DEF Stands
  <2> HIDE DEF before, l
  <2>3. ~ (Rest(before) = 0)
    BY <1>2, <1>4, <2>2 DEF Rest
  <2> QED BY <1>4, <2>1, <2>2, <2>3
<1> HIDE DEF before, l
<1>6. ReadConstant(before) = CASE TypeByte(obj.t) = 6 -> ReadString(l)
                               [] TypeByte(obj.t) = 2 -> ReadInteger(l)
                               [] TypeByte(obj.t) = 7 -> ReadFunction(l)
                               [] OTHER -> Ends(l, "error")
  BY <1>5 DEF ReadConstant
<1>7. obj.t \in {"INTEGER", "STRING", "COMPILED_FUNCTION"}
  BY DEF Constants
<1>8. pos + 1 \in Nat
  OBVIOUS
<1> DEFINE after == Stands(payload, (pos + 1) + Len(content), Append(cs, AsRead(obj)))
<1>9. CASE obj.t = "INTEGER"
  <2>1. obj.n \in Int64 /\ obj = Integer(obj.n) /\ AsRead(obj) = obj
    BY <1>9 DEF Constants, Integer, AsRead
  <2>2. content = BigEndian(obj.n, IntBytes)
    BY <1>9 DEF Content, content
  <2>3. Holds(payload, pos + 1, BigEndian(obj.n, IntBytes))
    BY <1>3, <2>2
  <2>4. ReadInteger(l) = Stands(payload, (pos + 1) + Len(content), Append(cs, Integer(obj.n)))
    BY <1>8, <2>1, <2>2, <2>3, ReadsInteger DEF l
  <2>5. ReadInteger(l) = after
    BY <2>1, <2>4
  <2>6. TypeByte(obj.t) = 2
    BY <1>9 DEF TypeByte
  <2> HIDE DEF after
  <2> QED BY <1>3, <1>6, <2>5, <2>6 DEF after, before
<1>10. CASE obj.t = "STRING"
  <2>1. obj.s \in Seq(1..(Radix - 1)) /\ obj = String(obj.s) /\ AsRead(obj) = obj
    BY <1>10 DEF Constants, String, AsRead
  <2>2. content = obj.s \o << 0 >>
    BY <1>10 DEF Content, content
  <2>3. Holds(payload, pos + 1, obj.s \o << 0 >>)
    BY <1>3, <2>2
  <2>4. ReadString(l) = Stands(payload, (pos + 1) + Len(content), Append(cs, String(obj.s)))
    BY <1>8, <2>1, <2>2, <2>3, ReadsString DEF l
  <2>5. ReadString(l) = after
    BY <2>1, <2>4
  <2>6. TypeByte(obj.t) = 6
    BY <1>10 DEF TypeByte
  <2> HIDE DEF after
  <2> QED BY <1>3, <1>6, <2>5, <2>6 DEF after, before
<1>11. CASE obj.t = "COMPILED_FUNCTION"
  <2> DEFINE a == obj.numLocals % Radix
             b == obj.numParameters % Radix
  <2>1. obj.ins \in Code /\ obj.numLocals \in Nat /\ obj.numParameters \in Nat
    BY <1>11 DEF Constants
  <2>2. AsRead(obj) = CompiledFunction(obj.ins, a, b)
    BY <1>11 DEF AsRead
  <2>3. a \in ByteValues /\ b \in ByteValues
    BY <2>1, RadixAssumption DEF ByteValues
  <2>4. content = << a, b >> \o WithSize(obj.ins)
    BY <1>11 DEF Content, content
  <2> HIDE DEF a, b
  <2>5. Holds(payload, pos + 1, << a, b >> \o WithSize(obj.ins))
    BY <1>3, <2>4
  <2>6. ReadFunction(l) =
          Stands(payload, (pos + 1) + Len(content), Append(cs, CompiledFunction(obj.ins, a, b)))
    BY <1>8, <2>1, <2>3, <2>4, <2>5, ReadsFunction DEF l
  <2>7. ReadFunction(l) = after
    BY <2>2, <2>6
  <2>8. TypeByte(obj.t) = 7
    BY <1>11 DEF TypeByte
  <2> HIDE DEF after
  <2> QED BY <1>3, <1>6, <2>7, <2>8 DEF after, before
<1> QED BY <1>7, <1>9, <1>10, <1>11

-----------------------------------------------------------------------------
(* The loops over the constants.                                           *)

(* What is written grows by an object with each turn.                      *)
LEMMA WrittenLaws ==
  ASSUME NEW cs \in Seq(Constants)
  PROVE  /\ \A k \in 0..Len(cs) : Written(cs)[k] \in Seq(ByteValues)
         /\ Written(cs)[0] = << >>
         /\ \A k \in 1..Len(cs) : Written(cs)[k] = Written(cs)[k - 1] \o WriteObj(cs[k])
<1> DEFINE n == Len(cs)
           S == Seq(ByteValues)
           step == [p \in S \X (1..n) |-> p[1] \o WriteObj(cs[p[2]])]
           Loop(w) == w = [k \in 0..n |-> IF k = 0 THEN << >> ELSE w[k - 1] \o WriteObj(cs[k])]
<1>1. n \in Nat /\ \A k \in 1..n : cs[k] \in Constants
  BY LenProperties, ElementOfSeq
<1> HIDE DEF n
<1>2. \A k \in 1..n : WriteObj(cs[k]) \in S
  BY <1>1, WrittenBytes
<1>3. << >> \in S /\ \A s, t \in S : s \o t \in S
  BY ConcatProperties
<1> HIDE DEF S
<1>4. step \in Steps(S, n)
  <2>1. ASSUME NEW p \in S \X (1..n) PROVE p[1] \o WriteObj(cs[p[2]]) \in S
    BY <1>2, <1>3
  <2> QED BY <2>1 DEF Steps
<1>5. \E f : Iterates(f, S, << >>, n, step)
  <2> HIDE DEF step
  <2> QED BY <1>1, <1>3, <1>4, Iterated
<1>6. PICK f : f \in [0..n -> S] /\ f[0] = << >> /\ \A k \in 1..n : f[k] = step[<< f[k - 1], k >>]
  BY <1>5 DEF Iterates
<1>7. \A k \in 1..n : f[k] = f[k - 1] \o WriteObj(cs[k])
  <2> SUFFICES ASSUME NEW k \in 1..n PROVE f[k] = f[k - 1] \o WriteObj(cs[k])
    OBVIOUS
  <2>1. f[k - 1] \in S /\ f[k] = step[<< f[k - 1], k >>]
    <3>1. k - 1 \in 0..n
      BY <1>1
    <3> HIDE DEF step
    <3> QED BY <1>6, <3>1
  <2> QED BY <2>1
<1>8. Loop(f)
  <2>1. \A k \in 0..n : k # 0 => k \in 1..n
    BY <1>1
  <2>2. \A k \in 0..n : f[k] = IF k = 0 THEN << >> ELSE f[k - 1] \o WriteObj(cs[k])
    BY <1>6, <1>7, <2>1
  <2> QED BY <1>6, <2>2
<1> DEFINE v == CHOOSE w : Loop(w)
<1>9. Loop(v)
  <2> HIDE DEF Loop
  <2> QED BY <1>8
<1>10. Written(cs) = v
  BY DEF Written, n
<1> HIDE DEF v
<1>11. v[0] = << >> /\ \A k \in 1..n : v[k] = v[k - 1] \o WriteObj(cs[k])
  <2>1. 0 \in 0..n /\ \A k \in 1..n : k \in 0..n /\ k # 0
    BY <1>1
  <2> QED BY <1>9, <2>1
<1>12. \A k \in 0..n : v[k] \in S
  <2> DEFINE T == {k \in 0..n : v[k] \in S}
  <2>1. 0 \in T
    BY <1>1, <1>3, <1>11
  <2>2. ASSUME NEW k \in 1..n, k - 1 \in T PROVE k \in T
    <3>1. v[k - 1] \in S /\ k \in 0..n
      BY <1>1, <2>2
    <3> QED BY <1>2, <1>3, <1>11, <3>1
  <2> HIDE DEF T
  <2>3. 0..n \subseteq T
    BY <1>1, <2>1, <2>2, Counting
  <2> QED BY <2>3 DEF T
<1> QED BY <1>10, <1>11, <1>12 DEF n, S

(* A payload holds each object behind what was written before it.          *)
LEMMA ObjectsHeld ==
  ASSUME NEW cs \in Seq(Constants), NEW payload, Len(payload) \in Nat,
         Holds(payload, 1, Written(cs)[Len(cs)]), NEW k \in 1..Len(cs)
  PROVE  /\ 1 + Len(Written(cs)[k - 1]) \in Nat
         /\ Holds(payload, 1 + Len(Written(cs)[k - 1]), WriteObj(cs[k]))
         /\ 1 + Len(Written(cs)[k]) = (1 + Len(Written(cs)[k - 1])) + Len(WriteObj(cs[k]))
<1> DEFINE n == Len(cs)
           w == Written(cs)
<1>1. n \in Nat /\ \A j \in 1..n : cs[j] \in Constants
  BY LenProperties, ElementOfSeq
<1>2. /\ \A j \in 0..n : w[j] \in Seq(ByteValues)
      /\ \A j \in 1..n : w[j] = w[j - 1] \o WriteObj(cs[j])
  BY WrittenLaws
<1> HIDE DEF w
<1>3. ASSUME NEW j \in 1..n, Holds(payload, 1, w[j])
      PROVE  /\ Holds(payload, 1, w[j - 1]) /\ 1 + Len(w[j - 1]) \in Nat
             /\ Holds(payload, 1 + Len(w[j - 1]), WriteObj(cs[j]))
             /\ 1 + Len(w[j]) = (1 + Len(w[j - 1])) + Len(WriteObj(cs[j]))
  <2> DEFINE a == w[j - 1]
             b == WriteObj(cs[j])
  <2>1. j - 1 \in 0..n
    BY <1>1
  <2>2. a \in Seq(ByteValues) /\ b \in Seq(ByteValues) /\ w[j] = a \o b
    BY <1>1, <1>2, <2>1, WrittenBytes
  <2> HIDE DEF a, b
  <2>3. 1 \in Nat /\ Holds(payload, 1, a \o b)
    BY <1>3, <2>2
  <2>4. /\ Holds(payload, 1, a) /\ 1 + Len(a) \in Nat /\ Holds(payload, 1 + Len(a), b)
        /\ 1 + Len(a \o b) = (1 + Len(a)) + Len(b)
    BY <2>2, <2>3, HeldInTwo
  <2> QED BY <2>2, <2>4 DEF a, b
<1> DEFINE T == {i \in 0..n : Holds(payload, 1, w[n - i])}
<1>4. 0 \in T
  <2>1. n - 0 = n /\ 0 \in 0..n /\ Holds(payload, 1, w[n])
    BY <1>1 DEF w
  <2> QED BY <2>1
<1>5. ASSUME NEW i \in 1..n, i - 1 \in T PROVE i \in T
  <2>1. n - (i - 1) \in 1..n /\ (n - (i - 1)) - 1 = n - i /\ i \in 0..n
    BY <1>1
  <2>2. Holds(payload, 1, w[n - (i - 1)])
    BY <1>5
  <2>3. Holds(payload, 1, w[(n - (i - 1)) - 1])
    BY <1>3, <2>1, <2>2
  <2> QED BY <2>1, <2>3
<1>6. Holds(payload, 1, w[k])
  <2> HIDE DEF T
  <2>1. 0..n \subseteq T
    BY <1>1, <1>4, <1>5, Counting
  <2>2. n - k \in 0..n /\ n - (n - k) = k
    BY <1>1
  <2>3. n - k \in T
    BY <2>1, <2>2
  <2> QED BY <2>2, <2>3 DEF T
<1> QED BY <1>3, <1>6 DEF w

(* What the loader finds of the first k constants.                         *)
Found(cs, k) == [i \in 1..k |-> AsRead(cs[i])]

(* Each turn of the loader's loop finds one more.                          *)
LEMMA FoundGrows ==
  ASSUME NEW cs, NEW k \in Nat \ {0}
  PROVE  Append(Found(cs, k - 1), AsRead(cs[k])) = Found(cs, k)
<1> DEFINE S == {AsRead(cs[i]) : i \in 1..k}
           s == Found(cs, k - 1)
           t == Found(cs, k)
           e == AsRead(cs[k])
<1>1. /\ s \in [1..(k - 1) -> S] /\ t \in [1..k -> S] /\ e \in S
      /\ \A i \in 1..(k - 1) : s[i] = t[i]
      /\ t[k] = e
  <2>1. k \in 1..k /\ \A i \in 1..(k - 1) : i \in 1..k
    OBVIOUS
  <2> QED BY <2>1 DEF Found
<1> HIDE DEF S, s, t, e
<1>2. s \in Seq(S) /\ Len(s) = k - 1 /\ t \in Seq(S) /\ Len(t) = k
  <2>1. k - 1 \in Nat
    OBVIOUS
  <2> QED BY <1>1, <2>1, SeqDef, LenProperties
<1>3. /\ Append(s, e) \in Seq(S) /\ Len(Append(s, e)) = k
      /\ \A i \in 1..(k - 1) : Append(s, e)[i] = s[i]
      /\ Append(s, e)[k] = e
  <2>1. /\ Append(s, e) \in Seq(S) /\ Len(Append(s, e)) = Len(s) + 1
        /\ \A i \in 1..Len(s) : Append(s, e)[i] = s[i]
        /\ Append(s, e)[Len(s) + 1] = e
    BY <1>1, <1>2, AppendProperties
  <2>2. Len(s) + 1 = k
    BY <1>2
  <2> QED BY <1>2, <2>1, <2>2
<1>4. \A i \in 1..k : Append(s, e)[i] = t[i]
  <2>1. \A i \in 1..k : i = k \/ i \in 1..(k - 1)
    OBVIOUS
  <2> QED BY <1>1, <1>3, <2>1
<1>5. Append(s, e) = t
  BY <1>2, <1>3, <1>4, SeqEqual
<1> QED BY <1>5 DEF s, t, e

(* The loader reads all of the constants that are written.                 *)
LEMMA LoadsConstants ==
  ASSUME NEW cs \in Seq(Constants), NEW payload \in Seq(ByteValues),
         payload[1] = Len(cs), Holds(payload, 1, Written(cs)[Len(cs)])
  PROVE  LoadConstants(payload)[payload[1]] =
           Stands(payload, 1 + Len(Written(cs)[Len(cs)]), Found(cs, Len(cs)))
<1> DEFINE n == Len(cs)
           w == Written(cs)
           at(k) == 1 + Len(w[k])
           g == [k \in 0..n |-> Stands(payload, at(k), Found(cs, k))]
           first == [Loading(payload) EXCEPT !.pos = 1]
           Loop(f) == f = [k \in 0..n |-> IF k = 0 THEN first ELSE ReadConstant(f[k - 1])]
<1>1. n \in Nat /\ Len(payload) \in Nat /\ \A k \in 1..n : cs[k] \in Constants
  BY LenProperties, ElementOfSeq
<1>2. g[0] = first
  <2>1. Len(w[0]) = 0 /\ 0 \in 0..n
    <3>1. w[0] = << >>
      BY WrittenLaws
    <3> HIDE DEF w
    <3> QED BY <1>1, <3>1
  <2>2. at(0) = 1
    BY <2>1
  <2>3. Found(cs, 0) = << >>
    BY DEF Found
  <2>4. first = Stands(payload, 1, << >>)
    BY DEF Loading, Stands
  <2> HIDE DEF w
  <2> QED BY <2>1, <2>2, <2>3, <2>4
<1>3. ASSUME NEW k \in 1..n PROVE g[k] = ReadConstant(g[k - 1])
  <2>1. k \in 0..n /\ k - 1 \in 0..n /\ k \in Nat \ {0} /\ cs[k] \in Constants
    BY <1>1
  <2>2. /\ at(k - 1) \in Nat /\ Holds(payload, at(k - 1), WriteObj(cs[k]))
        /\ at(k) = at(k - 1) + Len(WriteObj(cs[k]))
    BY <1>1, ObjectsHeld
  <2>3. Append(Found(cs, k - 1), AsRead(cs[k])) = Found(cs, k)
    BY <2>1, FoundGrows
  <2>4. /\ g[k - 1] = Stands(payload, at(k - 1), Found(cs, k - 1))
        /\ g[k] = Stands(payload, at(k), Found(cs, k))
    <3> HIDE DEF at
    <3> QED BY <2>1
  <2> HIDE DEF at, g
  <2>5. ReadConstant(Stands(payload, at(k - 1), Found(cs, k - 1))) =
          Stands(payload, at(k - 1) + Len(WriteObj(cs[k])),
                 Append(Found(cs, k - 1), AsRead(cs[k])))
    BY <2>1, <2>2, ReadsObject
  <2> QED BY <2>2, <2>3, <2>4, <2>5
<1> HIDE DEF first
<1>4. Loop(g)
  <2> HIDE DEF at
  <2>1. g = [k \in 0..n |-> g[k]]
    OBVIOUS
  <2>2. \A k \in 0..n : k # 0 => k \in 1..n
    BY <1>1
  <2>3. \A k \in 0..n : g[k] = IF k = 0 THEN first ELSE ReadConstant(g[k - 1])
    <3> HIDE DEF g
    <3> QED BY <1>2, <1>3, <2>2
  <2> HIDE DEF g
  <2> QED BY <2>1, <2>3
<1> DEFINE v == CHOOSE f : Loop(f)
<1>5. Loop(v)
  <2> HIDE DEF Loop
  <2> QED BY <1>4
<1>6. LoadConstants(payload) = v
  BY DEF LoadConstants, first
<1> HIDE DEF v
<1>7. v[n] = g[n]
  <2> HIDE DEF g
  <2>0. v[0] = first /\ \A k \in 1..n : v[k] = ReadConstant(v[k - 1])
    <3>1. 0 \in 0..n /\ \A k \in 1..n : k \in 0..n /\ k # 0
      BY <1>1
    <3> QED BY <1>5, <3>1
  <2> DEFINE T == {k \in 0..n : v[k] = g[k]}
  <2>1. 0 \in T
    BY <1>1, <1>2, <2>0
  <2>2. ASSUME NEW k \in 1..n, k - 1 \in T PROVE k \in T
    <3>1. k \in 0..n /\ v[k - 1] = g[k - 1]
      BY <1>1, <2>2
    <3> QED BY <1>3, <2>0, <3>1
  <2> HIDE DEF T
  <2>3. 0..n \subseteq T
    BY <1>1, <2>1, <2>2, Counting
  <2> QED BY <1>1, <2>3 DEF T
<1>8. g[n] = Stands(payload, at(n), Found(cs, n))
  <2>1. n \in 0..n
    BY <1>1
  <2> HIDE DEF at
  <2> QED BY <2>1
<1> HIDE DEF g
<1> QED BY <1>6, <1>7, <1>8

-----------------------------------------------------------------------------
(* What Write has written, Load reads: the constants in their order, each  *)
(* with all of its bytes, then the instructions up to the end, whatever    *)
(* the widths of bytes and integers are.  Only a function's numbers are    *)
(* cut to a byte each (serializer.go:41-119, loader.go:29-129).            *)
THEOREM RoundTrip ==
  ASSUME NEW compiled \in [constants : Seq(Constants), instructions : Code],
         Len(compiled.constants) < Radix
  PROVE  /\ Payload(compiled) \in Seq(ByteValues)
         /\ LoadPayload(Payload(compiled)) =
              New([ constants    |-> Found(compiled.constants, Len(compiled.constants)),
                    instructions |-> compiled.instructions ])
<1> DEFINE cs == compiled.constants
           ins == compiled.instructions
           n == Len(cs)
           first == << n >>
           body == Written(cs)[n]
           tail == WithSize(ins)
           P == Payload(compiled)
<1>1. cs \in Seq(Constants) /\ ins \in Code /\ n \in Nat /\ n \in ByteValues
  <2>1. cs \in Seq(Constants) /\ ins \in Code /\ n < Radix
    OBVIOUS
  <2>2. n \in Nat
    BY <2>1, LenProperties
  <2> QED BY <2>1, <2>2, RadixAssumption DEF ByteValues
<1>2. P = (first \o body) \o tail
  BY DEF Payload
<1> HIDE DEF cs, ins, P
<1>3. first \in Seq(ByteValues) /\ Len(first) = 1 /\ first[1] = n
  BY <1>1
<1>4. body \in Seq(ByteValues) /\ Len(body) \in Nat
  <2>1. n \in 0..n
    BY <1>1
  <2>2. body \in Seq(ByteValues)
    BY <1>1, <2>1, WrittenLaws
  <2> HIDE DEF body
  <2> QED BY <2>2, LenProperties
<1>5. tail \in Seq(ByteValues)
  BY <1>1, WithSizeBytes
<1> HIDE DEF n, first, body, tail
<1>6. /\ first \o body \in Seq(ByteValues) /\ P \in Seq(ByteValues) /\ Len(P) \in Nat
      /\ Len(first \o body) = 1 + Len(body) /\ Len(P) = Len(first \o body) + Len(tail)
  <2>1. first \o body \in Seq(ByteValues) /\ Len(first \o body) = Len(first) + Len(body)
    BY <1>3, <1>4, ConcatProperties
  <2>2. P \in Seq(ByteValues) /\ Len(P) = Len(first \o body) + Len(tail)
    BY <1>2, <1>5, <2>1, ConcatProperties
  <2> QED BY <1>3, <2>1, <2>2, LenProperties
<1>7. Holds(P, 0, P)
  BY <1>6 DEF Holds
<1>8. /\ Holds(P, 0, first \o body) /\ Holds(P, 1 + Len(body), tail)
  <2>1. 0 \in Nat /\ Holds(P, 0, (first \o body) \o tail)
    BY <1>2, <1>7
  <2>2. Holds(P, 0, first \o body) /\ Holds(P, 0 + Len(first \o body), tail)
    BY <1>5, <1>6, <2>1, HeldInTwo
  <2> QED BY <1>4, <1>6, <2>2
<1>9. Holds(P, 0, first) /\ Holds(P, 1, body)
  <2>1. 0 \in Nat /\ 0 + Len(first) = 1
    BY <1>3
  <2>2. Holds(P, 0, first) /\ Holds(P, 0 + Len(first), body)
    BY <1>3, <1>4, <1>6, <1>8, <2>1, HeldInTwo
  <2> QED BY <2>1, <2>2
<1>10. P[1] = n /\ P # << >>
  <2>1. 1 \in 1..Len(first) /\ 0 + 1 = 1
    BY <1>3
  <2>2. P[1] = n
    BY <1>3, <1>9, <2>1 DEF Holds
  <2>3. 0 + Len(first) <= Len(P)
    BY <1>9 DEF Holds
  <2>4. Len(P) # 0
    BY <1>3, <1>6, <2>3
  <2> QED BY <2>2, <2>4
<1> DEFINE pos == 1 + Len(body)
           l == Stands(P, pos, Found(cs, n))
<1>11. LoadConstants(P)[P[1]] = l
  <2>1. P[1] = Len(cs) /\ Holds(P, 1, Written(cs)[Len(cs)])
    BY <1>9, <1>10 DEF n, body
  <2>2. LoadConstants(P)[P[1]] = Stands(P, 1 + Len(Written(cs)[Len(cs)]), Found(cs, Len(cs)))
    BY <1>1, <1>6, <2>1, LoadsConstants
  <2> QED BY <2>2 DEF n, body
<1> DEFINE size == BigEndian(Len(ins), 4)
<1>12. /\ tail = size \o ins /\ size \in Seq(ByteValues) /\ Len(size) = 4
       /\ ins \in Seq(ByteValues) /\ Len(ins) \in Nat /\ Len(tail) = 4 + Len(ins)
       /\ FromBigEndian(size) = Len(ins)
  <2>1. tail = size \o ins
    BY DEF WithSize, tail
  <2>2. Len(ins) \in Nat /\ Len(ins) < Weight[4]
    BY <1>1, WithSizeBytes
  <2>3. FromBigEndian(size) = Len(ins)
    BY <2>2, SizesComeBack
  <2> HIDE DEF size
  <2> QED BY <1>1, <2>1, <2>2, <2>3, WithSizeBytes DEF size, tail
<1> HIDE DEF size
<1>13. pos \in Nat
  BY <1>4
<1> HIDE DEF pos
<1>14. Holds(P, pos, size) /\ Holds(P, pos + 4, ins)
  <2>1. Holds(P, pos, size \o ins)
    BY <1>8, <1>12 DEF pos
  <2>2. Holds(P, pos, size) /\ Holds(P, pos + Len(size), ins)
    BY <1>6, <1>12, <1>13, <2>1, HeldInTwo
  <2> QED BY <1>12, <2>2
<1>15. SubSeq(P, pos + 1, pos + 4) = size
  <2>1. SubSeq(P, pos + 1, pos + Len(size)) = size
    BY <1>6, <1>12, <1>13, <1>14, SliceOfHeld
  <2> QED BY <1>12, <2>1
<1>16. SubSeq(P, pos + 5, pos + 4 + Len(ins)) = ins
  <2>1. /\ pos + 4 \in Nat /\ (pos + 4) + 1 = pos + 5
        /\ (pos + 4) + Len(ins) = pos + 4 + Len(ins)
    BY <1>12, <1>13
  <2>2. SubSeq(P, (pos + 4) + 1, (pos + 4) + Len(ins)) = ins
    BY <1>6, <1>12, <1>14, <2>1, SliceOfHeld
  <2> QED BY <2>1, <2>2
<1>17. l.payload = P /\ l.pos = pos /\ l.is = "ok" /\ l.constants = Found(cs, n)
  BY DEF Stands
<1>18. ~ (Rest(l) < 4) /\ ~ (Rest(l) < 4 + Len(ins))
  <2>1. Len(P) - pos = 4 + Len(ins)
    BY <1>4, <1>6, <1>12 DEF pos
  <2> HIDE DEF l
  <2> QED BY <1>12, <1>17, <2>1 DEF Rest
<1>19. FromBigEndian(Bytes(l, 4)) = Len(ins)
  <2> HIDE DEF l
  <2> QED BY <1>12, <1>15, <1>17 DEF Bytes
<1> HIDE DEF l
<1>20. LoadPayload(P) = New([ constants |-> Found(cs, n), instructions |-> ins ])
  BY <1>10, <1>11, <1>16, <1>17, <1>18, <1>19 DEF LoadPayload
<1> QED BY <1>6, <1>20 DEF P, cs, ins, n

-----------------------------------------------------------------------------
(* The parts of a file.                                                    *)

(* What may be in a place of a file: a byte, or one of a checksum's.       *)
Cells ==
  {HEADER[i] : i \in 1..HeaderLen} \cup {"#"} \cup (Seq(Int) \X Nat) \cup ByteValues

(* The header has its length, the checksum its own.                        *)
LEMMA Lengths ==
  HeaderLen = 9 /\ HEADER \in Seq(Cells) /\ ChecksumSize \in Nat \ {0}
    /\ PayloadStart = HeaderLen + ChecksumSize
<1>1. HEADER \in [1..9 -> Cells] /\ Len(HEADER) = 9 /\ HeaderLen = 9
  <2>1. Len(HEADER) = 9 /\ DOMAIN HEADER = 1..9 /\ HEADER = [i \in 1..9 |-> HEADER[i]]
    BY DEF HEADER
  <2>2. HeaderLen = 9
    BY <2>1 DEF HeaderLen
  <2>3. \A i \in 1..9 : HEADER[i] \in Cells
    BY <2>2 DEF Cells
  <2> QED BY <2>1, <2>2, <2>3
<1> QED BY <1>1, SeqDef, IntBytesAssumption DEF PayloadStart

(* A checksum, or the space for it: one cell for each of its bytes.        *)
LEMMA ChecksumCells ==
  ASSUME NEW payload \in Seq(Int)
  PROVE  /\ Checksum(payload) \in Seq(Cells) /\ Len(Checksum(payload)) = ChecksumSize
         /\ Checksum(payload)[1] = << payload, 1 >>
<1>1. ChecksumSize \in Nat \ {0}
  BY IntBytesAssumption
<1>2. \A i \in 1..ChecksumSize : << payload, i >> \in Cells
  BY <1>1 DEF Cells
<1>3. Checksum(payload) \in [1..ChecksumSize -> Cells]
  BY <1>2 DEF Checksum, Covered
<1>4. 1 \in 1..ChecksumSize
  BY <1>1
<1> QED BY <1>1, <1>3, <1>4, SeqDef, LenProperties DEF Checksum, Covered

(* Reserved space is the checksum of what no payload is.                   *)
LEMMA ReservedCells ==
  /\ ReservedChecksum = Checksum(<< -1 >>) /\ << -1 >> \in Seq(Int)
<1> QED BY DEF ReservedChecksum, Checksum, Covered

(* The three parts of a file, and where they are.                          *)
LEMMA Parts ==
  ASSUME NEW payload \in Seq(ByteValues), NEW sum \in Seq(Cells), Len(sum) = ChecksumSize
  PROVE  LET whole == HEADER \o sum \o payload
         IN /\ whole \in Seq(Cells) /\ Len(whole) = PayloadStart + Len(payload)
            /\ Len(whole) \in Nat /\ Len(payload) \in Nat
            /\ \A i \in 1..HeaderLen : whole[i] = HEADER[i]
            /\ \A i \in 1..ChecksumSize : whole[HeaderLen + i] = sum[i]
            /\ \A i \in 1..Len(payload) : whole[PayloadStart + i] = payload[i]
            /\ SubSeq(whole, HeaderLen + 1, PayloadStart) = sum
            /\ SubSeq(whole, PayloadStart + 1, Len(whole)) = payload
<1> DEFINE head == HEADER \o sum
           whole == head \o payload
<1>1. /\ HEADER \in Seq(Cells) /\ Len(HEADER) = HeaderLen /\ HeaderLen \in Nat
      /\ ChecksumSize \in Nat /\ PayloadStart = HeaderLen + ChecksumSize
  BY Lengths DEF HeaderLen
<1>2. payload \in Seq(Cells) /\ Len(payload) \in Nat
  <2>1. ByteValues \subseteq Cells
    BY DEF Cells
  <2> QED BY <2>1, SeqMonotonic, LenProperties
<1>3. head \in Seq(Cells) /\ Len(head) = PayloadStart
  BY <1>1, ConcatProperties
<1> HIDE DEF head
<1>4. whole \in Seq(Cells) /\ Len(whole) = PayloadStart + Len(payload) /\ Len(whole) \in Nat
  <2>1. whole \in Seq(Cells) /\ Len(whole) = Len(head) + Len(payload)
    BY <1>2, <1>3, ConcatProperties
  <2> HIDE DEF whole
  <2> QED BY <1>3, <2>1, LenProperties
<1>5. Holds(whole, 0, head \o payload)
  <2> HIDE DEF whole
  <2>1. Holds(whole, 0, whole)
    BY <1>4 DEF Holds
  <2> QED BY <2>1 DEF whole
<1> HIDE DEF whole
<1>6. Holds(whole, 0, head) /\ Holds(whole, PayloadStart, payload)
  <2>1. 0 \in Nat /\ 0 + Len(head) = PayloadStart
    BY <1>1, <1>3
  <2>2. Holds(whole, 0, head) /\ Holds(whole, 0 + Len(head), payload)
    BY <1>2, <1>3, <1>4, <1>5, <2>1, HeldInTwo
  <2> QED BY <2>1, <2>2
<1>7. Holds(whole, 0, HEADER) /\ Holds(whole, HeaderLen, sum)
  <2>1. 0 \in Nat /\ 0 + Len(HEADER) = HeaderLen
    BY <1>1
  <2>2. Holds(whole, 0, HEADER \o sum)
    BY <1>6 DEF head
  <2>3. Holds(whole, 0, HEADER) /\ Holds(whole, 0 + Len(HEADER), sum)
    BY <1>1, <1>4, <2>1, <2>2, HeldInTwo
  <2> QED BY <2>1, <2>3
<1>8. \A i \in 1..HeaderLen : whole[i] = HEADER[i]
  <2>1. \A i \in 1..HeaderLen : whole[0 + i] = HEADER[i]
    BY <1>1, <1>7 DEF Holds
  <2>2. \A i \in 1..HeaderLen : 0 + i = i
    BY <1>1
  <2> QED BY <2>1, <2>2
<1>9. SubSeq(whole, HeaderLen + 1, PayloadStart) = sum
  <2>1. SubSeq(whole, HeaderLen + 1, HeaderLen + Len(sum)) = sum
    BY <1>1, <1>4, <1>7, SliceOfHeld
  <2> QED BY <1>1, <2>1
<1>10. SubSeq(whole, PayloadStart + 1, Len(whole)) = payload
  <2>1. PayloadStart \in Nat
    BY <1>1
  <2>2. SubSeq(whole, PayloadStart + 1, PayloadStart + Len(payload)) = payload
    BY <1>2, <1>4, <1>6, <2>1, SliceOfHeld
  <2> QED BY <1>4, <2>2
<1>11. /\ \A i \in 1..ChecksumSize : whole[HeaderLen + i] = sum[i]
       /\ \A i \in 1..Len(payload) : whole[PayloadStart + i] = payload[i]
  BY <1>6, <1>7 DEF Holds
<1>12. HEADER \o sum \o payload = whole
  BY DEF whole, head
<1> QED BY <1>2, <1>4, <1>8, <1>9, <1>10, <1>11, <1>12

Out == Write(bytecode).output

(* What Write puts out: the payload of a bytecode whose constants a byte   *)
(* counts, with its checksum, or a file without one.                       *)
LEMMA WholeFile ==
  ASSUME bytecode \in Bytecodes
  PROVE  \E payload \in Seq(ByteValues), sum \in Seq(Cells) :
           /\ Out = HEADER \o sum \o payload /\ Len(sum) = ChecksumSize
           /\ IF ConstantsFit
              THEN payload = Payload(bytecode) /\ sum = Checksum(payload)
              ELSE payload = << >> /\ sum = ReservedChecksum
<1>1. bytecode \in [constants : Seq(Constants), instructions : Code]
  BY BytecodesAssumption
<1>2. Len(bytecode.constants) \in Nat
  <2>1. bytecode.constants \in Seq(Constants)
    BY <1>1
  <2> QED BY <2>1, LenProperties
<1>3. CASE ConstantsFit
  <2> DEFINE P == Payload(bytecode)
  <2>1. P \in Seq(ByteValues)
    BY <1>1, <1>3, RoundTrip DEF ConstantsFit
  <2>2. Out = HEADER \o Checksum(P) \o P
    BY <1>2, <1>3, RadixAssumption DEF Out, Write, ConstantsFit
  <2> HIDE DEF P
  <2>3. P \in Seq(Int)
    <3>1. ByteValues \subseteq Int
      BY RadixAssumption DEF ByteValues
    <3> QED BY <2>1, <3>1, SeqMonotonic
  <2>4. Checksum(P) \in Seq(Cells) /\ Len(Checksum(P)) = ChecksumSize
    BY <2>3, ChecksumCells
  <2> QED BY <1>3, <2>1, <2>2, <2>4 DEF P
<1>4. CASE ~ ConstantsFit
  <2>1. Out = HEADER \o ReservedChecksum
    BY <1>2, <1>4, RadixAssumption DEF Out, Write, ConstantsFit
  <2>2. ReservedChecksum \in Seq(Cells) /\ Len(ReservedChecksum) = ChecksumSize
    BY ReservedCells, ChecksumCells
  <2>3. << >> \in Seq(ByteValues)
    BY EmptySeq
  <2>4. (HEADER \o ReservedChecksum) \o << >> = HEADER \o ReservedChecksum
    <3>1. HEADER \o ReservedChecksum \in Seq(Cells)
      BY <2>2, Lengths, ConcatProperties
    <3> QED BY <3>1, ConcatEmptySeq
  <2> QED BY <1>4, <2>1, <2>2, <2>3, <2>4
<1> QED BY <1>3, <1>4

(* It is as long as its parts.                                             *)
LEMMA OutLen ==
  ASSUME bytecode \in Bytecodes
  PROVE  Len(Out) \in Nat
<1>1. PICK payload \in Seq(ByteValues), sum \in Seq(Cells) :
        Out = HEADER \o sum \o payload /\ Len(sum) = ChecksumSize
  BY WholeFile
<1> QED BY <1>1, Parts

-----------------------------------------------------------------------------
(* How far damage goes.                                                    *)

Possible(i) ==
  IF i <= HeaderLen THEN {HEADER[i], "#"}
  ELSE IF i <= PayloadStart THEN {Out[i], ReservedChecksum[i - HeaderLen]}
  ELSE ByteValues

(* A file that may have been cut off and changed.                          *)
DamagedAtMost ==
  /\ file \in Seq(Cells)
  /\ Len(file) <= Len(Out)
  /\ \A i \in 1..Len(file) : file[i] \in Possible(i)

Inv ==
  /\ bytecode \in Bytecodes
  /\ stage \in {"compiled", "written", "loaded"}
  /\ stage # "compiled" => DamagedAtMost
  /\ stage = "loaded" => outcome = Load(file)

(* A file as it is written is damaged at most.                             *)
LEMMA WrittenAsIs ==
  ASSUME bytecode \in Bytecodes, file = Out
  PROVE  DamagedAtMost
<1>1. PICK payload \in Seq(ByteValues), sum \in Seq(Cells) :
        Out = HEADER \o sum \o payload /\ Len(sum) = ChecksumSize
  BY WholeFile
<1>2. /\ Out \in Seq(Cells) /\ Len(Out) = PayloadStart + Len(payload)
      /\ Len(Out) \in Nat /\ Len(payload) \in Nat
      /\ \A i \in 1..HeaderLen : Out[i] = HEADER[i]
      /\ \A i \in 1..Len(payload) : Out[PayloadStart + i] = payload[i]
  BY <1>1, Parts
<1>3. ASSUME NEW i \in 1..Len(Out) PROVE Out[i] \in Possible(i)
  <2>1. CASE i <= HeaderLen
    <3>1. i \in 1..HeaderLen
      BY <2>1, Lengths
    <3> QED BY <1>2, <2>1, <3>1 DEF Possible
  <2>2. CASE ~ (i <= HeaderLen) /\ i <= PayloadStart
    BY <2>2 DEF Possible
  <2>3. CASE ~ (i <= HeaderLen) /\ ~ (i <= PayloadStart)
    <3>1. i - PayloadStart \in 1..Len(payload) /\ PayloadStart + (i - PayloadStart) = i
      BY <1>2, <2>3, Lengths
    <3>2. Out[i] = payload[i - PayloadStart]
      BY <1>2, <3>1
    <3>3. Out[i] \in ByteValues
      BY <3>1, <3>2, ElementOfSeq
    <3> QED BY <2>3, <3>3 DEF Possible
  <2> QED BY <2>1, <2>2, <2>3
<1> QED BY <1>2, <1>3 DEF DamagedAtMost

(* Cutting off and changing go no further.                                 *)
LEMMA Damaged ==
  ASSUME Inv, CutOff \/ Change
  PROVE  Inv'
<1>1. /\ stage = "written" /\ stage' = stage /\ bytecode' = bytecode /\ outcome' = outcome
      /\ DamagedAtMost
  BY DEF CutOff, Change, Damage, Inv
<1>2. Out' = Out
  BY <1>1 DEF Out, Write, Payload
<1>3. \A i : Possible(i)' = Possible(i)
  BY <1>2 DEF Possible
<1>4. Len(file) \in Nat /\ \A i \in 1..Len(file) : file[i] \in Cells
  BY <1>1, LenProperties, ElementOfSeq DEF DamagedAtMost
<1>5. ASSUME CutOff PROVE DamagedAtMost'
  <2>1. PICK n \in 0..(Len(file) - 1) : file' = SubSeq(file, 1, n)
    BY <1>5 DEF CutOff
  <2>2. n \in Nat /\ n <= Len(file) /\ \A i \in 1..n : i \in 1..Len(file)
    BY <1>4, <2>1
  <2>3. /\ SubSeq(file, 1, n) \in Seq(Cells) /\ Len(SubSeq(file, 1, n)) = n
        /\ \A i \in 1..n : SubSeq(file, 1, n)[i] = file[i]
    <3>1. /\ SubSeq(file, 1, n) \in Seq(Cells)
          /\ Len(SubSeq(file, 1, n)) = IF 1 <= n THEN (n - 1) + 1 ELSE 0
          /\ \A i \in 1..((n - 1) + 1) : SubSeq(file, 1, n)[i] = file[(1 + i) - 1]
      <4>1. file \in Seq(Cells) /\ 1 \in Int /\ n \in Int /\ \A i \in 1..n : file[i] \in Cells
        BY <1>1, <1>4, <2>2 DEF DamagedAtMost
      <4> QED BY <4>1, SubSeqProperties
    <3>2. (n - 1) + 1 = n /\ \A i \in 1..n : (1 + i) - 1 = i
      BY <2>2
    <3> QED BY <2>2, <3>1, <3>2
  <2>4. file' \in Seq(Cells) /\ Len(file') = n /\ \A i \in 1..n : file'[i] = file[i]
    BY <2>1, <2>3
  <2>5. Len(file') <= Len(Out)
    <3>1. Len(file) <= Len(Out)
      BY <1>1 DEF DamagedAtMost
    <3>2. Len(Out) \in Nat
      BY OutLen DEF Inv
    <3> QED BY <1>4, <2>2, <2>4, <3>1, <3>2
  <2>6. \A i \in 1..Len(file') : file'[i] \in Possible(i)
    BY <1>1, <2>2, <2>4 DEF DamagedAtMost
  <2> QED BY <1>2, <1>3, <2>4, <2>5, <2>6 DEF DamagedAtMost
<1>6. ASSUME Change PROVE DamagedAtMost'
  <2>0. PICK i \in 1..Len(file) : \E b \in Changed(i) : file' = [file EXCEPT ![i] = b]
    BY <1>6 DEF Change
  <2>1. PICK b \in Changed(i) : file' = [file EXCEPT ![i] = b]
    BY <2>0
  <2>2. i \in Nat /\ b \in Possible(i) /\ b \in Cells
    <3>1. i \in Nat
      BY <1>4, <2>1
    <3>2. HeaderLen \in Nat /\ PayloadStart \in Nat /\ PayloadStart = HeaderLen + ChecksumSize
          /\ ChecksumSize \in Nat
      BY Lengths
    <3>3. CASE i <= HeaderLen
      <4>1. b = "#"
        BY <2>1, <3>1, <3>2, <3>3 DEF Changed
      <4> QED BY <3>1, <3>3, <4>1 DEF Possible, Cells
    <3>4. CASE ~ (i <= HeaderLen) /\ i <= PayloadStart
      <4>1. b = ReservedChecksum[i - HeaderLen]
        BY <2>1, <3>1, <3>2, <3>4 DEF Changed
      <4>2. i - HeaderLen \in 1..ChecksumSize
        BY <3>1, <3>2, <3>4
      <4>3. ReservedChecksum \in Seq(Cells) /\ Len(ReservedChecksum) = ChecksumSize
        BY ReservedCells, ChecksumCells
      <4>4. b \in Cells
        BY <4>1, <4>2, <4>3, ElementOfSeq
      <4> QED BY <3>1, <3>4, <4>1, <4>4 DEF Possible
    <3>5. CASE ~ (i <= HeaderLen) /\ ~ (i <= PayloadStart)
      <4>1. file[i] \in ByteValues
        BY <1>1, <2>1, <3>5 DEF DamagedAtMost, Possible
      <4>2. b \in { (file[i] + 1) % Radix, (file[i] + Radix - 1) % Radix }
        BY <2>1, <3>1, <3>2, <3>5 DEF Changed
      <4>3. b \in ByteValues
        <5>1. file[i] \in Int /\ Radix \in Nat \ {0}
          BY <4>1, RadixAssumption DEF ByteValues
        <5>2. \A m \in Int : m % Radix \in ByteValues
          BY <5>1 DEF ByteValues
        <5>3. file[i] + 1 \in Int /\ file[i] + Radix - 1 \in Int
          BY <5>1
        <5> QED BY <4>2, <5>2, <5>3
      <4> QED BY <3>1, <3>5, <4>3 DEF Possible, Cells
    <3> QED BY <3>3, <3>4, <3>5, <3>1
  <2>3. /\ file' \in Seq(Cells) /\ Len(file') = Len(file)
        /\ \A j \in 1..Len(file) : file'[j] = IF j = i THEN b ELSE file[j]
    <3>1. file \in Seq(Cells)
      BY <1>1 DEF DamagedAtMost
    <3> QED BY <2>1, <2>2, <3>1, ExceptSeq
  <2>4. \A j \in 1..Len(file) : file'[j] \in Possible(j)
    BY <1>1, <2>2, <2>3 DEF DamagedAtMost
  <2> QED BY <1>1, <1>2, <1>3, <2>3, <2>4 DEF DamagedAtMost
<1>7. DamagedAtMost'
  BY <1>5, <1>6
<1> QED BY <1>1, <1>7 DEF Inv

(* The invariant, along every behaviour.                                   *)
THEOREM DamageIsBounded == Spec => []Inv
<1>1. Init => Inv
  BY DEF Init, Inv
<1>2. Inv /\ [Next]_vars => Inv'
  <2> SUFFICES ASSUME Inv, [Next]_vars PROVE Inv'
    OBVIOUS
  <2>1. CASE CompileScript
    <3>1. file' = Out /\ bytecode' = bytecode /\ bytecode \in Bytecodes /\ stage' = "written"
      BY <2>1 DEF CompileScript, Inv, Out
    <3>2. (bytecode \in Bytecodes)' /\ (file = Out)'
      BY <3>1 DEF Out, Write, Payload
    <3>3. DamagedAtMost'
      BY <3>2, WrittenAsIs, PTL
    <3> QED BY <3>1, <3>3 DEF Inv
  <2>2. CASE CutOff \/ Change
    BY <2>2, Damaged
  <2>3. CASE RunBytecode
    <3>1. /\ stage = "written" /\ stage' = "loaded" /\ outcome' = Load(file)
          /\ bytecode' = bytecode /\ file' = file
      BY <2>3 DEF RunBytecode
    <3>2. DamagedAtMost' = DamagedAtMost
      BY <3>1 DEF DamagedAtMost, Possible, Out, Write, Payload
    <3>3. Load(file)' = Load(file)
      BY <3>1 DEF Load, WrongHeader
    <3> QED BY <3>1, <3>2, <3>3 DEF Inv
  <2>4. CASE UNCHANGED vars
    <3>1. bytecode' = bytecode /\ file' = file /\ stage' = stage /\ outcome' = outcome
      BY <2>4 DEF vars
    <3>2. DamagedAtMost' = DamagedAtMost
      BY <3>1 DEF DamagedAtMost, Possible, Out, Write, Payload
    <3>3. Load(file)' = Load(file)
      BY <3>1 DEF Load, WrongHeader
    <3> QED BY <3>1, <3>2, <3>3 DEF Inv
  <2>5. CASE Loaded
    BY <2>4, <2>5 DEF Loaded
  <2> QED BY <2>1, <2>2, <2>3, <2>4, <2>5 DEF Next
<1> QED BY <1>1, <1>2, PTL DEF Spec

-----------------------------------------------------------------------------
(* What Load makes of a file that is damaged at most.                      *)

(* The payload, and when Load comes to it.                                 *)
FilePayload == SubSeq(file, PayloadStart + 1, Len(file))

Accepted ==
  /\ ~ WrongHeader(file)
  /\ Len(file) >= PayloadStart
  /\ SubSeq(file, HeaderLen + 1, PayloadStart) = Checksum(FilePayload)

(* Load looks at the payload of no other file.                             *)
LEMMA LoadsAccepted ==
  Load(file) = IF WrongHeader(file) THEN Failed
               ELSE IF Len(file) < PayloadStart THEN Panic
               ELSE IF SubSeq(file, HeaderLen + 1, PayloadStart) # Checksum(FilePayload) THEN Failed
               ELSE LoadPayload(FilePayload)
<1> QED BY DEF Load, FilePayload

(* The payload of a damaged file, byte by byte.                            *)
LEMMA RestBytes ==
  ASSUME file \in Seq(Cells), Len(file) >= PayloadStart,
         \A i \in 1..Len(file) : file[i] \in Possible(i)
  PROVE  /\ FilePayload \in Seq(ByteValues) /\ Len(FilePayload) = Len(file) - PayloadStart
         /\ \A i \in 1..Len(FilePayload) : FilePayload[i] = file[PayloadStart + i]
<1> DEFINE n == Len(file)
           m == PayloadStart
<1>1. n \in Nat /\ m \in Nat /\ m <= n
  <2>1. m \in Nat
    BY Lengths
  <2> QED BY <2>1, LenProperties
<1>2. \A i \in (m + 1)..n : file[i] \in ByteValues
  <2> SUFFICES ASSUME NEW i \in (m + 1)..n PROVE file[i] \in ByteValues
    OBVIOUS
  <2>1. i \in 1..n /\ ~ (i <= PayloadStart)
    BY <1>1
  <2>2. ~ (i <= HeaderLen)
    BY <1>1, <2>1, Lengths
  <2> QED BY <2>1, <2>2 DEF Possible
<1> HIDE DEF n, m
<1>3. /\ SubSeq(file, m + 1, n) \in Seq(ByteValues)
      /\ Len(SubSeq(file, m + 1, n)) = IF m + 1 <= n THEN (n - (m + 1)) + 1 ELSE 0
      /\ \A i \in 1..((n - (m + 1)) + 1) : SubSeq(file, m + 1, n)[i] = file[((m + 1) + i) - 1]
  <2>1. m + 1 \in Int /\ n \in Int
    BY <1>1
  <2> QED BY <1>2, <2>1, SubSeqProperties
<1>4. (n - (m + 1)) + 1 = n - m /\ \A i \in 1..(n - m) : ((m + 1) + i) - 1 = m + i
  BY <1>1
<1>5. /\ SubSeq(file, m + 1, n) \in Seq(ByteValues) /\ Len(SubSeq(file, m + 1, n)) = n - m
      /\ \A i \in 1..(n - m) : SubSeq(file, m + 1, n)[i] = file[m + i]
  BY <1>1, <1>3, <1>4
<1> QED BY <1>5 DEF FilePayload, n, m

(* A checksum fits no payload but its own: nothing is accepted that is not *)
(* as it was written.                                                      *)
LEMMA AcceptedIsWhole ==
  ASSUME Inv, DamagedAtMost, Accepted
  PROVE  /\ ConstantsFit /\ file = Out
         /\ FilePayload = Payload(bytecode)
<1>1. /\ bytecode \in Bytecodes /\ file \in Seq(Cells) /\ Len(file) >= PayloadStart
      /\ \A i \in 1..Len(file) : file[i] \in Possible(i)
  BY DEF Inv, DamagedAtMost, Accepted
<1>2. PICK payload \in Seq(ByteValues), sum \in Seq(Cells) :
        /\ Out = HEADER \o sum \o payload /\ Len(sum) = ChecksumSize
        /\ IF ConstantsFit
           THEN payload = Payload(bytecode) /\ sum = Checksum(payload)
           ELSE payload = << >> /\ sum = ReservedChecksum
  BY <1>1, WholeFile
<1>3. /\ Out \in Seq(Cells) /\ Len(Out) = PayloadStart + Len(payload)
      /\ Len(payload) \in Nat
      /\ \A i \in 1..HeaderLen : Out[i] = HEADER[i]
      /\ \A i \in 1..ChecksumSize : Out[HeaderLen + i] = sum[i]
      /\ \A i \in 1..Len(payload) : Out[PayloadStart + i] = payload[i]
  BY <1>2, Parts
<1>4. /\ HeaderLen \in Nat /\ ChecksumSize \in Nat \ {0}
      /\ PayloadStart = HeaderLen + ChecksumSize /\ PayloadStart \in Nat
      /\ Len(file) \in Nat
  BY <1>1, Lengths, LenProperties
<1>5. /\ FilePayload \in Seq(ByteValues) /\ Len(FilePayload) = Len(file) - PayloadStart
      /\ \A i \in 1..Len(FilePayload) : FilePayload[i] = file[PayloadStart + i]
  BY <1>1, RestBytes
<1>6. ByteValues \subseteq Int /\ -1 \notin ByteValues
  BY RadixAssumption DEF ByteValues
<1>7. FilePayload \in Seq(Int) /\ payload \in Seq(Int)
  BY <1>5, <1>6, SeqMonotonic
<1> DEFINE slice == SubSeq(file, HeaderLen + 1, PayloadStart)
<1>8. \A i \in 1..ChecksumSize : Checksum(FilePayload)[i] = file[HeaderLen + i]
  <2>1. Len(slice) = ChecksumSize /\ \A i \in 1..ChecksumSize : slice[i] = file[HeaderLen + i]
    <3>1. \A i \in (HeaderLen + 1)..PayloadStart : file[i] \in Cells
      <4>1. \A i \in (HeaderLen + 1)..PayloadStart : i \in 1..Len(file)
        BY <1>1, <1>4
      <4> QED BY <1>1, <4>1, ElementOfSeq
    <3>2. /\ Len(slice) = IF HeaderLen + 1 <= PayloadStart
                          THEN (PayloadStart - (HeaderLen + 1)) + 1 ELSE 0
          /\ \A i \in 1..((PayloadStart - (HeaderLen + 1)) + 1) :
               slice[i] = file[((HeaderLen + 1) + i) - 1]
      <4>1. HeaderLen + 1 \in Int /\ PayloadStart \in Int
        BY <1>4
      <4> QED BY <1>1, <3>1, <4>1, SubSeqProperties
    <3>3. (PayloadStart - (HeaderLen + 1)) + 1 = ChecksumSize /\ HeaderLen + 1 <= PayloadStart
          /\ \A i \in 1..ChecksumSize : ((HeaderLen + 1) + i) - 1 = HeaderLen + i
      BY <1>4
    <3> HIDE DEF slice
    <3> QED BY <3>2, <3>3
  <2> QED BY <2>1 DEF Accepted
<1> HIDE DEF slice
<1>9. file[HeaderLen + 1] = << FilePayload, 1 >>
  <2>1. 1 \in 1..ChecksumSize /\ Checksum(FilePayload)[1] = << FilePayload, 1 >>
    BY <1>4, <1>7, ChecksumCells
  <2> QED BY <1>8, <2>1
<1>10. file[HeaderLen + 1] \in { sum[1], ReservedChecksum[1] }
  <2>1. /\ HeaderLen + 1 \in 1..Len(file) /\ ~ (HeaderLen + 1 <= HeaderLen)
        /\ HeaderLen + 1 <= PayloadStart /\ (HeaderLen + 1) - HeaderLen = 1
        /\ 1 \in 1..ChecksumSize
    BY <1>1, <1>4
  <2>2. Possible(HeaderLen + 1) = { Out[HeaderLen + 1], ReservedChecksum[1] }
    BY <2>1 DEF Possible
  <2>3. Out[HeaderLen + 1] = sum[1]
    BY <1>3, <2>1
  <2> QED BY <1>1, <2>1, <2>2, <2>3
<1>11. ReservedChecksum[1] = << << -1 >>, 1 >>
  BY ReservedCells, ChecksumCells
<1>12. FilePayload # << -1 >>
  <2> SUFFICES ASSUME FilePayload = << -1 >> PROVE FALSE
    OBVIOUS
  <2>1. 1 \in 1..Len(FilePayload) /\ FilePayload[1] = -1
    OBVIOUS
  <2>2. FilePayload[1] \in ByteValues
    BY <1>5, <2>1, ElementOfSeq
  <2> QED BY <1>6, <2>1, <2>2
<1>13. file[HeaderLen + 1] # ReservedChecksum[1]
  BY <1>9, <1>11, <1>12
<1>14. ConstantsFit
  BY <1>2, <1>10, <1>13
<1>15. payload = Payload(bytecode) /\ sum = Checksum(payload)
  BY <1>2, <1>14
<1>16. FilePayload = payload
  <2>1. sum[1] = << payload, 1 >>
    BY <1>7, <1>15, ChecksumCells
  <2> QED BY <1>9, <1>10, <1>13, <2>1
<1>17. Len(file) = Len(Out)
  <2>1. Len(payload) = Len(file) - PayloadStart
    BY <1>5, <1>16, Zenon
  <2>2. Len(Out) = PayloadStart + Len(payload)
    BY <1>3, Zenon
  <2>3. Len(file) \in Nat /\ PayloadStart \in Nat
    BY <1>4, Zenon
  <2> QED BY <2>1, <2>2, <2>3
<1>18. ASSUME NEW i \in 1..Len(file) PROVE file[i] = Out[i]
  <2>1. CASE i <= HeaderLen
    <3>1. i \in 1..HeaderLen
      BY <1>4, <2>1
    <3>2. \A j \in 1..HeaderLen : j <= Len(file) => file[j] = HEADER[j]
      BY Zenon DEF Accepted, WrongHeader
    <3>3. i <= Len(file)
      BY <1>4
    <3>4. file[i] = HEADER[i]
      BY <3>1, <3>2, <3>3, Zenon
    <3> QED BY <1>3, <3>1, <3>4, Zenon
  <2>2. CASE ~ (i <= HeaderLen) /\ i <= PayloadStart
    <3>1. i - HeaderLen \in 1..ChecksumSize /\ HeaderLen + (i - HeaderLen) = i
      BY <1>4, <2>2
    <3>2. file[i] = Checksum(FilePayload)[i - HeaderLen] /\ Out[i] = sum[i - HeaderLen]
      BY <1>3, <1>8, <3>1
    <3> QED BY <1>15, <1>16, <3>2
  <2>3. CASE ~ (i <= PayloadStart)
    <3>1. i - PayloadStart \in 1..Len(FilePayload) /\ PayloadStart + (i - PayloadStart) = i
      BY <1>4, <1>5, <2>3
    <3>2. file[i] = FilePayload[i - PayloadStart] /\ Out[i] = payload[i - PayloadStart]
      BY <1>3, <1>5, <1>16, <3>1
    <3> QED BY <1>16, <3>2
  <2> QED BY <2>1, <2>2, <2>3
<1>19. file = Out
  BY <1>1, <1>3, <1>17, <1>18, SeqEqual
<1> QED BY <1>14, <1>15, <1>16, <1>19

(* A file as Write has left it is accepted.                                *)
LEMMA WholeIsAccepted ==
  ASSUME bytecode \in Bytecodes, file = Out, ConstantsFit
  PROVE  Accepted /\ FilePayload = Payload(bytecode)
<1>1. PICK payload \in Seq(ByteValues), sum \in Seq(Cells) :
        /\ Out = HEADER \o sum \o payload /\ Len(sum) = ChecksumSize
        /\ payload = Payload(bytecode) /\ sum = Checksum(payload)
  BY WholeFile
<1>2. /\ Len(Out) = PayloadStart + Len(payload) /\ Len(payload) \in Nat
      /\ \A i \in 1..HeaderLen : Out[i] = HEADER[i]
      /\ SubSeq(Out, HeaderLen + 1, PayloadStart) = sum
      /\ SubSeq(Out, PayloadStart + 1, Len(Out)) = payload
  <2>1. Len(sum) = ChecksumSize
    BY <1>1, Zenon
  <2> DEFINE whole == HEADER \o sum \o payload
  <2>2. /\ Len(whole) = PayloadStart + Len(payload) /\ Len(payload) \in Nat
        /\ \A i \in 1..HeaderLen : whole[i] = HEADER[i]
        /\ SubSeq(whole, HeaderLen + 1, PayloadStart) = sum
        /\ SubSeq(whole, PayloadStart + 1, Len(whole)) = payload
    BY <2>1, Parts
  <2>3. Out = whole
    BY <1>1, Zenon
  <2> HIDE DEF whole
  <2> QED BY <2>2, <2>3
<1>3. ~ WrongHeader(file)
  BY <1>2 DEF WrongHeader
<1>4. Len(file) >= PayloadStart
  <2>1. /\ Len(file) = PayloadStart + Len(payload)
        /\ Len(payload) \in Nat /\ PayloadStart \in Nat
    <3>1. PayloadStart \in Nat
      BY Lengths
    <3> QED BY <1>2, <3>1, Zenon
  <2> QED BY <2>1
<1>5. FilePayload = payload
  BY <1>2 DEF FilePayload
<1> QED BY <1>1, <1>2, <1>3, <1>4, <1>5 DEF Accepted

-----------------------------------------------------------------------------
(* The properties of a file that was loaded.                               *)

(* Each constant is found as it was, if a byte counts its locals.          *)
LEMMA FoundAsWritten ==
  ASSUME bytecode \in Bytecodes, LocalsFit
  PROVE  Found(bytecode.constants, Len(bytecode.constants)) = bytecode.constants
<1> DEFINE cs == bytecode.constants
           n == Len(cs)
<1>1. cs \in Seq(Constants)
  BY BytecodesAssumption
<1>2. cs \in [1..n -> Constants] /\ DOMAIN cs = 1..n
  BY <1>1, LenProperties
<1> HIDE DEF n
<1>3. ASSUME NEW i \in 1..n PROVE AsRead(cs[i]) = cs[i]
  <2> DEFINE obj == cs[i]
  <2>1. obj \in Constants /\ (obj.t = "COMPILED_FUNCTION" => obj.numLocals < Radix)
    BY <1>2 DEF LocalsFit
  <2> HIDE DEF obj
  <2>2. CASE obj.t = "COMPILED_FUNCTION"
    <3>1. /\ obj = CompiledFunction(obj.ins, obj.numLocals, obj.numParameters)
          /\ obj.numLocals \in Nat /\ obj.numParameters \in Nat
          /\ obj.numParameters <= obj.numLocals
      BY <2>1, <2>2 DEF Constants, CompiledFunction
    <3>2. obj.numLocals % Radix = obj.numLocals /\ obj.numParameters % Radix = obj.numParameters
      <4>1. \A m \in Nat : m < Radix => m % Radix = m
        BY RadixAssumption
      <4>2. obj.numLocals < Radix /\ obj.numParameters < Radix
        BY <2>1, <2>2, <3>1, RadixAssumption
      <4> QED BY <3>1, <4>1, <4>2
    <3> QED BY <2>2, <3>1, <3>2 DEF AsRead, obj
  <2>3. CASE obj.t # "COMPILED_FUNCTION"
    BY <2>3 DEF AsRead, obj
  <2> QED BY <2>2, <2>3
<1>4. Found(cs, n) = [i \in 1..n |-> cs[i]]
  BY <1>3 DEF Found
<1>5. [i \in 1..n |-> cs[i]] = cs
  BY <1>2
<1> QED BY <1>4, <1>5 DEF n

(* What the invariant says of a file that was loaded.                      *)
LEMMA LoadedFiles ==
  ASSUME Inv
  PROVE  OnlyWholeFilesLoad /\ OnlyShortFilesPanic /\ WholeFilesLoad
<1> DEFINE found == [ constants    |-> Found(bytecode.constants, Len(bytecode.constants)),
                      instructions |-> bytecode.instructions ]
<1> SUFFICES ASSUME stage = "loaded"
             PROVE  /\ outcome.is = "new" => Undamaged /\ ConstantsFit
                    /\ outcome.is = "panic" => Len(file) < PayloadStart
                    /\ Undamaged /\ ConstantsFit /\ LocalsFit => outcome = New(bytecode)
  BY DEF OnlyWholeFilesLoad, OnlyShortFilesPanic, WholeFilesLoad
<1>1. bytecode \in Bytecodes /\ DamagedAtMost /\ outcome = Load(file)
  BY DEF Inv
<1>2. bytecode \in [constants : Seq(Constants), instructions : Code]
  BY <1>1, BytecodesAssumption
<1>3. Undamaged <=> file = Out
  BY DEF Undamaged, Out
<1>4. Accepted => /\ outcome = New(found) /\ file = Out /\ ConstantsFit
  <2> SUFFICES ASSUME Accepted PROVE outcome = New(found) /\ file = Out /\ ConstantsFit
    OBVIOUS
  <2>1. ConstantsFit /\ file = Out /\ FilePayload = Payload(bytecode)
    BY <1>1, AcceptedIsWhole
  <2>2. LoadPayload(Payload(bytecode)) = New(found)
    BY <1>2, <2>1, RoundTrip DEF ConstantsFit
  <2>3. Load(file) = LoadPayload(FilePayload)
    <3>1. /\ ~ WrongHeader(file) /\ ~ (Len(file) < PayloadStart)
          /\ SubSeq(file, HeaderLen + 1, PayloadStart) = Checksum(FilePayload)
      <4>1. Len(file) \in Nat /\ PayloadStart \in Nat
        BY <1>1, Lengths, LenProperties DEF DamagedAtMost
      <4> QED BY <4>1 DEF Accepted
    <3> QED BY <3>1, LoadsAccepted
  <2> HIDE DEF found
  <2> QED BY <1>1, <2>1, <2>2, <2>3
<1>5. ~ Accepted => outcome = Failed \/ (outcome = Panic /\ Len(file) < PayloadStart)
  <2>1. Len(file) \in Nat /\ PayloadStart \in Nat
    BY <1>1, Lengths, LenProperties DEF DamagedAtMost
  <2> QED BY <1>1, <2>1, LoadsAccepted DEF Accepted
<1>6. New(found).is = "new" /\ Failed.is = "error" /\ Panic.is = "panic"
  BY DEF New, Failed, Panic
<1>7. Undamaged /\ ConstantsFit /\ LocalsFit => Accepted /\ found = bytecode
  <2> SUFFICES ASSUME Undamaged, ConstantsFit, LocalsFit PROVE Accepted /\ found = bytecode
    OBVIOUS
  <2>1. Accepted
    BY <1>1, <1>3, WholeIsAccepted
  <2>2. Found(bytecode.constants, Len(bytecode.constants)) = bytecode.constants
    BY <1>1, FoundAsWritten
  <2>3. bytecode = [constants |-> bytecode.constants, instructions |-> bytecode.instructions]
    BY <1>2
  <2> QED BY <2>1, <2>2, <2>3
<1> HIDE DEF found
<1>8. outcome.is = "new" => Undamaged /\ ConstantsFit
  BY <1>3, <1>4, <1>5, <1>6
<1>9. outcome.is = "panic" => Len(file) < PayloadStart
  BY <1>4, <1>5, <1>6
<1>10. Undamaged /\ ConstantsFit /\ LocalsFit => outcome = New(bytecode)
  BY <1>4, <1>7
<1> QED BY <1>8, <1>9, <1>10

(* Nothing else is ever run: no file that was cut off or changed anywhere, *)
(* and none that Write has left unfinished (loader.go:131-153).            *)
THEOREM WholeFilesOnly == Spec => []OnlyWholeFilesLoad
<1>1. Inv => OnlyWholeFilesLoad
  BY LoadedFiles
<1> QED BY <1>1, DamageIsBounded, PTL

(* A file that nothing has happened to is loaded as what was compiled      *)
(* (serializer.go:41-119, loader.go:29-129).                               *)
THEOREM FilesComeBack == Spec => []WholeFilesLoad
<1>1. Inv => WholeFilesLoad
  BY LoadedFiles
<1> QED BY <1>1, DamageIsBounded, PTL

(* The loader dies of no file but one that ends in its header or checksum  *)
(* (loader.go:133, 139).                                                   *)
THEOREM ShortFilesPanic == Spec => []OnlyShortFilesPanic
<1>1. Inv => OnlyShortFilesPanic
  BY LoadedFiles
<1> QED BY <1>1, DamageIsBounded, PTL
=============================================================================
