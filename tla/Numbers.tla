------------------------------- MODULE Numbers -------------------------------
(***************************************************************************)
(* Least and greatest elements: what CHOOSE finds when a definition asks   *)
(* for the innermost table, the last pair or the end of a word; and the    *)
(* loops that count.                                                       *)
(***************************************************************************)
EXTENDS Integers, WellFoundedInduction, TLAPS

(* A non-empty set of naturals has a least element.                        *)
LEMMA Least ==
  ASSUME NEW T, T \subseteq Nat, T # {}
  PROVE  \E x \in T : \A y \in T : x <= y
<1> DEFINE R == {ss \in Nat \X Nat : ss[1] < ss[2]}
<1>1. R = OpToRel(<, Nat)
  BY DEF OpToRel
<1>2. IsWellFoundedOn(R, Nat)
  BY <1>1, NatLessThanWellFounded
<1>3. \E x \in T : \A y \in T : ~ (<<y, x>> \in R)
  <2> HIDE DEF R
  <2> QED BY <1>2, WFMin
<1>4. PICK x \in T : \A y \in T : ~ (<<y, x>> \in R)
  BY <1>3
<1>5. \A y \in T : x <= y
  <2> TAKE y \in T
  <2>1. <<y, x>> \in Nat \X Nat BY Zenon
  <2>2. ~ (y < x) BY <1>4, <2>1
  <2> QED BY <2>2
<1> QED BY <1>5

(* A non-empty set of positions has a greatest one.                        *)
LEMMA Greatest ==
  ASSUME NEW n \in Nat, NEW T, T \subseteq 1..n, T # {}
  PROVE  \E m \in T : \A k \in T : k <= m
<1> DEFINE D == {n - k : k \in T}
<1>1. D \subseteq Nat /\ D # {}
  OBVIOUS
<1>2. PICK d \in D : \A e \in D : d <= e
  <2> HIDE DEF D
  <2> QED BY <1>1, Least
<1>3. PICK m \in T : d = n - m
  OBVIOUS
<1>4. \A k \in T : n - m <= n - k
  BY <1>2, <1>3
<1>5. \A k \in T : k <= m
  BY <1>4
<1> QED BY <1>5

-----------------------------------------------------------------------------
(* Loops: the definitions that recur on a counter.                         *)

(* What holds of 0, and of k if of k - 1, holds of all numbers up to n.    *)
LEMMA Counting ==
  ASSUME NEW n \in Nat, NEW T, 0 \in T, \A k \in 1..n : k - 1 \in T => k \in T
  PROVE  0..n \subseteq T
<1> DEFINE M == (0..n) \ T
<1>1. ASSUME M # {} PROVE FALSE
  <2>1. M \subseteq Nat
    OBVIOUS
  <2> HIDE DEF M
  <2>2. PICK m \in M : \A k \in M : m <= k
    BY <1>1, <2>1, Least
  <2> USE DEF M
  <2>3. m \in 1..n /\ m - 1 \in 0..n /\ m \notin T
    BY <2>2
  <2>4. m - 1 \notin T
    BY <2>3
  <2>5. m - 1 \in M
    BY <2>3, <2>4
  <2>6. m <= m - 1
    BY <2>2, <2>5
  <2> QED BY <2>3, <2>6
<1> QED BY <1>1

(* A function of the value before and the counter, and the values that n   *)
(* turns of it give.                                                       *)
Steps(S, n) == [S \X (1..n) -> S]

Iterates(f, S, b, n, step) ==
  /\ f \in [0..n -> S] /\ f[0] = b
  /\ \A k \in 1..n : f[k] = step[<< f[k - 1], k >>]

(* There are such values.                                                  *)
LEMMA Iterated ==
  ASSUME NEW S, NEW b \in S, NEW n \in Nat, NEW step \in Steps(S, n)
  PROVE  \E f : Iterates(f, S, b, n, step)
<1> DEFINE Runs(m, f) == /\ f \in [0..m -> S] /\ f[0] = b
                         /\ \A k \in 1..m : f[k] = step[<< f[k - 1], k >>]
           T == {m \in 0..n : \E f : Runs(m, f)}
<1> USE DEF Steps
<1>1. 0 \in T
  <2>1. Runs(0, [k \in 0..0 |-> b])
    OBVIOUS
  <2>2. \E f : Runs(0, f)
    <3> HIDE DEF Runs
    <3> QED BY <2>1
  <2> QED BY <2>2
<1>2. ASSUME NEW m \in 1..n, m - 1 \in T
      PROVE  m \in T
  <2>1. PICK f : Runs(m - 1, f)
    BY <1>2
  <2> DEFINE x == step[<< f[m - 1], m >>]
             g == [k \in 0..m |-> IF k = m THEN x ELSE f[k]]
  <2>2. x \in S
    <3>1. f[m - 1] \in S
      BY <2>1
    <3> QED BY <3>1
  <2>3. g \in [0..m -> S] /\ g[0] = b
    <3> HIDE DEF x
    <3> QED BY <2>1, <2>2
  <2>4. ASSUME NEW k \in 1..m PROVE g[k] = step[<< g[k - 1], k >>]
    <3>1. g[k - 1] = f[k - 1]
      <4> HIDE DEF x
      <4> QED OBVIOUS
    <3>2. CASE k = m
      <4>1. g[k] = x
        <5> HIDE DEF x
        <5> QED BY <3>2
      <4> HIDE DEF g
      <4> QED BY <3>1, <3>2, <4>1
    <3>3. CASE k # m
      <4>1. k \in 1..(m - 1)
        BY <3>3
      <4>2. f[k] = step[<< f[k - 1], k >>]
        BY <2>1, <4>1
      <4>3. g[k] = f[k]
        <5> HIDE DEF x
        <5> QED BY <3>3
      <4> HIDE DEF g
      <4> QED BY <3>1, <4>2, <4>3
    <3> QED BY <3>2, <3>3
  <2>5. Runs(m, g)
    <3> HIDE DEF g
    <3> QED BY <2>3, <2>4
  <2>6. \E h : Runs(m, h)
    <3> HIDE DEF Runs, g
    <3> QED BY <2>5
  <2> HIDE DEF Runs, g
  <2> QED BY <2>6
<1>3. n \in T
  <2> HIDE DEF T
  <2>1. 0..n \subseteq T
    BY <1>1, <1>2, Counting
  <2> QED BY <2>1
<1>4. PICK f : Runs(n, f)
  BY <1>3
<1> QED BY <1>4 DEF Iterates

(* The same from any number on.                                            *)
LEMMA CountingFrom ==
  ASSUME NEW p \in Int, NEW m \in Int, NEW T, p \in T, \A i \in (p + 1)..m : i - 1 \in T => i \in T
  PROVE  p..m \subseteq T
<1> DEFINE n == m - p
           D == {k \in 0..n : p + k \in T}
<1>1. CASE m < p
  BY <1>1
<1>2. CASE p <= m
  <2>1. n \in Nat
    BY <1>2
  <2>2. 0 \in D
    BY <2>1
  <2>3. ASSUME NEW k \in 1..n, k - 1 \in D PROVE k \in D
    <3>1. p + k \in (p + 1)..m /\ (p + k) - 1 = p + (k - 1)
      OBVIOUS
    <3>2. p + k \in T
      BY <2>3, <3>1
    <3> QED BY <3>2
  <2> HIDE DEF D
  <2>4. 0..n \subseteq D
    BY <2>1, <2>2, <2>3, Counting
  <2> USE DEF D
  <2>5. ASSUME NEW i \in p..m PROVE i \in T
    <3>1. i - p \in 0..n /\ p + (i - p) = i
      OBVIOUS
    <3>2. i - p \in D
      <4> HIDE DEF n, D
      <4> QED BY <2>4, <3>1
    <3> QED BY <3>1, <3>2
  <2> QED BY <2>5
<1> QED BY <1>1, <1>2

IteratesFrom(f, S, b, p, m, step) ==
  /\ f \in [p..m -> S] /\ f[p] = b
  /\ \A i \in (p + 1)..m : f[i] = step[<< f[i - 1], i >>]

(* And a loop may count from any number on.                                *)
LEMMA IteratedFrom ==
  ASSUME NEW S, NEW b \in S, NEW p \in Int, NEW m \in Int, p <= m,
         NEW step \in [S \X ((p + 1)..m) -> S]
  PROVE  \E f : IteratesFrom(f, S, b, p, m, step)
<1> DEFINE n == m - p
           turn == [x \in S \X (1..n) |-> step[<< x[1], p + x[2] >>]]
<1>1. n \in Nat
  OBVIOUS
<1>2. turn \in Steps(S, n)
  <2>1. \A x \in S \X (1..n) : << x[1], p + x[2] >> \in S \X ((p + 1)..m)
    OBVIOUS
  <2>2. \A x \in S \X (1..n) : step[<< x[1], p + x[2] >>] \in S
    BY <2>1
  <2> QED BY <2>2 DEF Steps
<1>3. \E f : Iterates(f, S, b, n, turn)
  <2> HIDE DEF turn, n
  <2> QED BY <1>1, <1>2, Iterated
<1>4. PICK f : f \in [0..n -> S] /\ f[0] = b /\ \A k \in 1..n : f[k] = turn[<< f[k - 1], k >>]
  BY <1>3 DEF Iterates
<1>5. \A k \in 1..n : f[k] = step[<< f[k - 1], p + k >>]
  <2> SUFFICES ASSUME NEW k \in 1..n PROVE f[k] = step[<< f[k - 1], p + k >>]
    OBVIOUS
  <2>1. k - 1 \in 0..n
    OBVIOUS
  <2>2. f[k - 1] \in S /\ f[k] = turn[<< f[k - 1], k >>]
    <3> HIDE DEF turn, n
    <3> QED BY <1>4, <2>1
  <2> HIDE DEF n
  <2> QED BY <2>2
<1> DEFINE g == [i \in p..m |-> f[i - p]]
<1>6. \A i \in p..m : i - p \in 0..n
  OBVIOUS
<1>7. g \in [p..m -> S]
  <2> HIDE DEF n, turn
  <2> QED BY <1>4, <1>6
<1>8. g[p] = b
  BY <1>4
<1>9. \A i \in (p + 1)..m : g[i] = step[<< g[i - 1], i >>]
  <2> SUFFICES ASSUME NEW i \in (p + 1)..m PROVE g[i] = step[<< g[i - 1], i >>]
    OBVIOUS
  <2>1. /\ i - p \in 1..n /\ p + (i - p) = i /\ (i - p) - 1 = (i - 1) - p
        /\ i \in p..m /\ i - 1 \in p..m
    OBVIOUS
  <2>2. f[i - p] = step[<< f[(i - p) - 1], p + (i - p) >>]
    <3> HIDE DEF n
    <3> QED BY <1>5, <2>1
  <2>3. g[i] = f[i - p] /\ g[i - 1] = f[(i - 1) - p]
    BY <2>1
  <2> HIDE DEF g
  <2> QED BY <2>1, <2>2, <2>3
<1>10. IteratesFrom(g, S, b, p, m, step)
  <2> HIDE DEF g
  <2> QED BY <1>7, <1>8, <1>9 DEF IteratesFrom
<1> HIDE DEF g
<1> QED BY <1>10

(* Quotients: the parts of a number, and dividing twice.                   *)
LEMMA Quotients ==
  /\ \A m \in Int, r \in Nat \ {0} : ((m \div r) * r) + (m % r) = m
  /\ \A m \in Int, r \in Nat \ {0} : m % r \in 0..(r - 1) /\ m \div r \in Int
  /\ \A m \in Int, a, r \in Nat \ {0} : (m \div a) \div r = m \div (r * a)
<1>1. ASSUME NEW m \in Int, NEW r \in Nat \ {0} PROVE ((m \div r) * r) + (m % r) = m
  OBVIOUS
<1>2. ASSUME NEW m \in Int, NEW r \in Nat \ {0} PROVE m % r \in 0..(r - 1) /\ m \div r \in Int
  OBVIOUS
<1>3. ASSUME NEW m \in Int, NEW a \in Nat \ {0}, NEW r \in Nat \ {0}
      PROVE  (m \div a) \div r = m \div (r * a)
  <2>1. r * a = a * r
    OBVIOUS
  <2>2. (m \div a) \div r = m \div (a * r)
    OBVIOUS
  <2> QED BY <2>1, <2>2
<1> QED BY <1>1, <1>2, <1>3
==============================================================================
