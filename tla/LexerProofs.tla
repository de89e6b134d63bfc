----------------------------- MODULE LexerProofs -----------------------------
(***************************************************************************)
(* The lexer on every text over every alphabet: each token is the longest  *)
(* one that begins where it begins, it spells the text it was read from,   *)
(* and EOF comes in time.                                                  *)
(***************************************************************************)
EXTENDS Lexer, Numbers, SequenceTheorems, TLAPS

-----------------------------------------------------------------------------
(* Positions in a text.                                                    *)

(* A lexer that has not gone past the NUL behind its text.                 *)
Good(l) ==
  /\ l \in [input : Seq(Characters), position : Nat \ {0}]
  /\ l.position <= Len(l.input) + 1

(* It stays one wherever it is moved to in the text.                       *)
LEMMA GoodLaws ==
  ASSUME NEW l, Good(l)
  PROVE  /\ l.input \in Seq(Characters) /\ Len(l.input) \in Nat
         /\ l.position \in Nat \ {0} /\ l.position <= Len(l.input) + 1
         /\ \A i \in 1..(Len(l.input) + 1) :
              Good(At(l, i)) /\ At(l, i).input = l.input /\ At(l, i).position = i
<1>1. /\ l.input \in Seq(Characters) /\ Len(l.input) \in Nat
      /\ l.position \in Nat \ {0} /\ l.position <= Len(l.input) + 1
  BY LenProperties DEF Good
<1>2. ASSUME NEW i \in 1..(Len(l.input) + 1)
      PROVE  Good(At(l, i)) /\ At(l, i).input = l.input /\ At(l, i).position = i
  <2>1. /\ At(l, i) \in [input : Seq(Characters), position : Nat \ {0}]
        /\ At(l, i).input = l.input /\ At(l, i).position = i
    <3>1. i \in Nat \ {0}
      BY <1>1
    <3> QED BY <3>1 DEF Good, At
  <2> QED BY <1>1, <2>1 DEF Good
<1> QED BY <1>1, <1>2

(* A NUL is a character.                                                   *)
LEMMA NulCharacter ==
  NUL \in Characters /\ << NUL >> \in Seq(Characters) /\ Len(<< NUL >>) = 1 /\ << NUL >>[1] = NUL
<1>1. NUL \in Characters
  BY DEF Characters
<1> HIDE DEF NUL
<1> QED BY <1>1

(* The text and the NUL behind it.                                         *)
Full(l) == l.input \o << NUL >>

(* Its characters are what CharAt gives.                                   *)
LEMMA FullLaws ==
  ASSUME NEW l, Good(l)
  PROVE  /\ Full(l) \in Seq(Characters) /\ Len(Full(l)) = Len(l.input) + 1
         /\ \A i \in 1..(Len(l.input) + 1) : Full(l)[i] = CharAt(l, i) /\ CharAt(l, i) \in Characters
         /\ CharAt(l, Len(l.input) + 1) = NUL
<1> DEFINE s == l.input
           t == << NUL >>
<1>1. s \in Seq(Characters) /\ Len(s) \in Nat
  BY GoodLaws
<1>2. t \in Seq(Characters) /\ Len(t) = 1 /\ t[1] = NUL
  BY NulCharacter
<1> HIDE DEF s, t
<1>3. /\ s \o t \in Seq(Characters) /\ Len(s \o t) = Len(s) + Len(t)
      /\ \A i \in 1..(Len(s) + Len(t)) : (s \o t)[i] = IF i <= Len(s) THEN s[i] ELSE t[i - Len(s)]
  BY <1>1, <1>2, ConcatProperties
<1>4. \A i \in 1..(Len(s) + 1) :
        (s \o t)[i] = (IF i <= Len(s) THEN s[i] ELSE NUL) /\ (s \o t)[i] \in Characters
  <2> SUFFICES ASSUME NEW i \in 1..(Len(s) + 1)
               PROVE  (s \o t)[i] = (IF i <= Len(s) THEN s[i] ELSE NUL) /\ (s \o t)[i] \in Characters
    OBVIOUS
  <2>1. (s \o t)[i] = IF i <= Len(s) THEN s[i] ELSE t[i - Len(s)]
    BY <1>2, <1>3
  <2>2. ~ (i <= Len(s)) => i - Len(s) = 1
    BY <1>1
  <2>3. (s \o t)[i] \in Characters
    BY <1>2, <1>3, ElementOfSeq
  <2> QED BY <1>2, <2>1, <2>2, <2>3
<1>5. Len(s) + 1 \in 1..(Len(s) + 1) /\ ~ (Len(s) + 1 <= Len(s))
  BY <1>1
<1> QED BY <1>2, <1>3, <1>4, <1>5 DEF Full, CharAt, s, t

(* The characters from the a-th to the b-th.                               *)
Slice(l, a, b) == SubSeq(Full(l), a, b)

(* It has those characters, in that order.                                 *)
LEMMA SliceLaws ==
  ASSUME NEW l, Good(l), NEW a \in 1..(Len(l.input) + 1), NEW b \in a..(Len(l.input) + 1)
  PROVE  /\ Slice(l, a, b) \in Seq(Characters) /\ Len(Slice(l, a, b)) = (b - a) + 1
         /\ \A i \in 1..((b - a) + 1) : Slice(l, a, b)[i] = CharAt(l, (a + i) - 1)
<1>1. Len(l.input) \in Nat /\ a \in Int /\ b \in Int /\ a <= b
  BY GoodLaws
<1>2. \A i \in a..b : Full(l)[i] \in Characters
  <2>1. \A i \in a..b : i \in 1..(Len(l.input) + 1)
    BY <1>1
  <2> QED BY <2>1, FullLaws
<1>3. /\ Slice(l, a, b) \in Seq(Characters)
      /\ Len(Slice(l, a, b)) = IF a <= b THEN (b - a) + 1 ELSE 0
      /\ \A i \in 1..((b - a) + 1) : Slice(l, a, b)[i] = Full(l)[(a + i) - 1]
  BY <1>1, <1>2, SubSeqProperties DEF Slice
<1>4. \A i \in 1..((b - a) + 1) : (a + i) - 1 \in 1..(Len(l.input) + 1)
  BY <1>1
<1> QED BY <1>1, <1>3, <1>4, FullLaws

(* A slice of the text is one of what is behind it, too.                   *)
LEMMA TextSlice ==
  ASSUME NEW l, Good(l), NEW a \in 1..Len(l.input), NEW b \in 1..Len(l.input)
  PROVE  SubSeq(l.input, a, b) = Slice(l, a, b)
<1>1. l.input \in Seq(Characters) /\ << NUL >> \in Seq(Characters)
  BY GoodLaws, NulCharacter
<1> QED BY <1>1, SubSeqOfConcat1 DEF Slice, Full

-----------------------------------------------------------------------------
(* readSequence and skipWhitespace.                                        *)

(* They stop at the first character that does not belong, at the latest    *)
(* behind the text.                                                        *)
LEMMA EndOfLaws ==
  ASSUME NEW l, Good(l), NEW chars, NUL \notin chars
  PROVE  /\ EndOf(l, chars) \in l.position..(Len(l.input) + 1)
         /\ CharAt(l, EndOf(l, chars)) \notin chars
         /\ \A j \in l.position..(EndOf(l, chars) - 1) : CharAt(l, j) \in chars
<1> DEFINE n == Len(l.input) + 1
           p == l.position
           M == {i \in p..n : CharAt(l, i) \notin chars}
           Ends(i) == /\ CharAt(l, i) \notin chars
                      /\ \A j \in p..(i - 1) : CharAt(l, j) \in chars
<1>1. n \in Nat /\ p \in Nat /\ p <= n
  BY GoodLaws
<1>2. CharAt(l, n) \notin chars
  BY FullLaws
<1> HIDE DEF n, p
<1>3. M \subseteq Nat /\ M # {}
  <2>1. n \in M
    BY <1>1, <1>2
  <2>2. M \subseteq Nat
    BY <1>1
  <2> QED BY <2>1, <2>2
<1>4. PICK i \in M : \A j \in M : i <= j
  <2> HIDE DEF M
  <2> QED BY <1>3, Least
<1>5. i \in p..n /\ Ends(i)
  <2>1. i \in p..n /\ CharAt(l, i) \notin chars
    OBVIOUS
  <2>2. ASSUME NEW j \in p..(i - 1) PROVE CharAt(l, j) \in chars
    <3>1. j \in p..n /\ ~ (i <= j)
      BY <1>1, <2>1
    <3> QED BY <1>4, <3>1
  <2> QED BY <2>1, <2>2
<1> DEFINE e == CHOOSE k \in p..n : Ends(k)
<1>6. e \in p..n /\ Ends(e)
  <2> HIDE DEF Ends
  <2> QED BY <1>5
<1>7. EndOf(l, chars) = e
  BY DEF EndOf, n, p
<1> HIDE DEF e
<1> QED BY <1>6, <1>7 DEF n, p

-----------------------------------------------------------------------------
(* readString.                                                             *)

(* Where a backslash escapes the character behind it.                      *)
Escapes(l, i) == i > l.position /\ CharAt(l, i) = "\\" /\ ~ Escaped(l)[i]

(* The first character of a string is not escaped, and each other one is   *)
(* if the one before it escapes.                                           *)
LEMMA EscapedLaws ==
  ASSUME NEW l, Good(l)
  PROVE  /\ \A i \in l.position..(Len(l.input) + 1) :
              Escaped(l)[i] <=> i > l.position + 1 /\ Escapes(l, i - 1)
         /\ \A i \in l.position..(Len(l.input) + 1) : Escaped(l)[i] \in BOOLEAN
<1> DEFINE p == l.position
           m == Len(l.input) + 1
           n == m - p
           Is(i, before) == i > p + 1 /\ CharAt(l, i - 1) = "\\" /\ ~ before
           step == [x \in BOOLEAN \X (1..n) |-> Is(p + x[2], x[1])]
           Loop(e) == e = [i \in p..m |-> Is(i, e[i - 1])]
<1>1. p \in Nat /\ m \in Nat /\ n \in Nat
  BY GoodLaws
<1> HIDE DEF p, m
<1>2. \A i, before : Is(i, before) \in BOOLEAN
  OBVIOUS
<1> HIDE DEF Is
<1>3. step \in Steps(BOOLEAN, n)
  <2>1. \A x \in BOOLEAN \X (1..n) : Is(p + x[2], x[1]) \in BOOLEAN
    BY <1>2
  <2> QED BY <2>1 DEF Steps
<1>4. \E f : Iterates(f, BOOLEAN, FALSE, n, step)
  <2>1. FALSE \in BOOLEAN
    OBVIOUS
  <2> HIDE DEF step
  <2> QED BY <1>1, <1>3, <2>1, Iterated
<1>5. PICK f : f \in [0..n -> BOOLEAN] /\ f[0] = FALSE /\ \A k \in 1..n : f[k] = step[<< f[k - 1], k >>]
  BY <1>4 DEF Iterates
<1>6. \A k \in 1..n : f[k] = Is(p + k, f[k - 1])
  <2> SUFFICES ASSUME NEW k \in 1..n PROVE f[k] = Is(p + k, f[k - 1])
    OBVIOUS
  <2>1. f[k - 1] \in BOOLEAN
    <3>1. k - 1 \in 0..n
      BY <1>1
    <3> HIDE DEF step
    <3> QED BY <1>5, <3>1
  <2>2. f[k] = step[<< f[k - 1], k >>]
    BY <1>5
  <2> HIDE DEF n
  <2> QED BY <2>1, <2>2
<1> DEFINE g == [i \in p..m |-> f[i - p]]
<1>7. \A i \in p..m : g[i] = Is(i, g[i - 1])
  <2> SUFFICES ASSUME NEW i \in p..m PROVE g[i] = Is(i, g[i - 1])
    OBVIOUS
  <2>1. CASE i = p
    <3>1. g[i] = FALSE
      BY <1>1, <1>5, <2>1
    <3>2. Is(i, g[i - 1]) = FALSE
      <4>1. ~ (i > p + 1)
        BY <1>1, <2>1
      <4> HIDE DEF g
      <4> QED BY <4>1 DEF Is
    <3> QED BY <3>1, <3>2
  <2>2. CASE i # p
    <3>1. /\ i - p \in 1..n /\ p + (i - p) = i /\ (i - p) - 1 = (i - 1) - p
          /\ i - 1 \in p..m
      BY <1>1, <2>2
    <3>2. g[i] = f[i - p] /\ g[i - 1] = f[(i - 1) - p]
      <4> HIDE DEF n
      <4> QED BY <3>1
    <3>3. f[i - p] = Is(p + (i - p), f[(i - p) - 1])
      BY <1>6, <3>1
    <3> HIDE DEF g
    <3> QED BY <3>1, <3>2, <3>3
  <2> QED BY <2>1, <2>2
<1>8. Loop(g)
  <2>1. g = [i \in p..m |-> g[i]]
    OBVIOUS
  <2> HIDE DEF g
  <2> QED BY <1>7, <2>1
<1> DEFINE v == CHOOSE e : Loop(e)
<1>9. Loop(v)
  <2> HIDE DEF Loop
  <2> QED BY <1>8
<1>10. Escaped(l) = v
  BY DEF Escaped, Is, p, m
<1> HIDE DEF v
<1>11. \A i \in p..m : Escaped(l)[i] = Is(i, Escaped(l)[i - 1])
  BY <1>9, <1>10
<1>12. \A i \in p..m : Escaped(l)[i] \in BOOLEAN
  BY <1>2, <1>11
<1>13. \A i \in p..m : Escaped(l)[i] <=> i > p + 1 /\ Escapes(l, i - 1)
  <2> SUFFICES ASSUME NEW i \in p..m
               PROVE  Escaped(l)[i] <=> i > p + 1 /\ Escapes(l, i - 1)
    OBVIOUS
  <2>1. Escaped(l)[i] <=> i > p + 1 /\ CharAt(l, i - 1) = "\\" /\ ~ Escaped(l)[i - 1]
    BY <1>11, Zenon DEF Is
  <2>2. i > p + 1 => i - 1 > p
    BY <1>1
  <2> QED BY <2>1, <2>2, Zenon DEF Escapes, p
<1> QED BY <1>12, <1>13 DEF p, m

(* The loop ends, at the latest behind the text.                           *)
LEMMA StringEndLaws ==
  ASSUME NEW l, Good(l), l.position <= Len(l.input)
  PROVE  /\ StringEnd(l) \in (l.position + 1)..(Len(l.input) + 1)
         /\ Stops(l, StringEnd(l))
         /\ \A j \in (l.position + 1)..(StringEnd(l) - 1) : ~ Stops(l, j)
<1> DEFINE n == Len(l.input) + 1
           p == l.position + 1
           M == {i \in p..n : Stops(l, i)}
           Ends(i) == Stops(l, i) /\ \A j \in p..(i - 1) : ~ Stops(l, j)
<1>1. n \in Nat /\ p \in Nat /\ p <= n
  BY GoodLaws
<1>2. Stops(l, n) \/ (n - 1 \in p..n /\ Stops(l, n - 1))
  <2>1. CharAt(l, n) = NUL
    BY FullLaws
  <2>2. CASE ~ Escaped(l)[n]
    BY <2>1, <2>2 DEF Stops
  <2>3. CASE Escaped(l)[n]
    <3>1. n > l.position + 1 /\ Escapes(l, n - 1)
      <4>1. n \in l.position..(Len(l.input) + 1)
        BY GoodLaws
      <4> QED BY <2>3, <4>1, EscapedLaws
    <3>2. (n - 1) + 1 = n /\ n - 1 \in p..n
      BY <1>1, <3>1
    <3>3. NUL \notin {"\\", Quote}
      BY DEF NUL, Quote
    <3> QED BY <2>1, <3>1, <3>2, <3>3 DEF Stops, Escapes
  <2> QED BY <2>2, <2>3
<1> HIDE DEF n, p
<1>3. M \subseteq Nat /\ M # {}
  <2>1. n \in p..n
    BY <1>1
  <2>2. M # {}
    BY <1>2, <2>1
  <2>3. M \subseteq Nat
    BY <1>1
  <2> QED BY <2>2, <2>3
<1>4. PICK i \in M : \A j \in M : i <= j
  <2> HIDE DEF M
  <2> QED BY <1>3, Least
<1>5. i \in p..n /\ Ends(i)
  <2>1. i \in p..n /\ Stops(l, i)
    OBVIOUS
  <2>2. ASSUME NEW j \in p..(i - 1) PROVE ~ Stops(l, j)
    <3>1. j \in p..n /\ ~ (i <= j)
      BY <1>1, <2>1
    <3> QED BY <1>4, <3>1
  <2> QED BY <2>1, <2>2
<1> DEFINE e == CHOOSE k \in p..n : Ends(k)
<1>6. e \in p..n /\ Ends(e)
  <2> HIDE DEF Ends
  <2> QED BY <1>5
<1>7. StringEnd(l) = e
  BY DEF StringEnd, n, p
<1> HIDE DEF e
<1> QED BY <1>6, <1>7 DEF n, p

(* The string so far: nothing, and then each character that does not       *)
(* escape the next one.                                                    *)
LEMMA StrLaws ==
  ASSUME NEW l, Good(l), l.position <= Len(l.input)
  PROVE  /\ Str(l)[l.position] = << >>
         /\ \A i \in (l.position + 1)..Len(l.input) :
              Str(l)[i] = IF Escapes(l, i) THEN Str(l)[i - 1] ELSE Append(Str(l)[i - 1], CharAt(l, i))
         /\ \A i \in l.position..Len(l.input) : Str(l)[i] \in Seq(Characters)
<1> DEFINE p == l.position
           m == Len(l.input)
           S == Seq(Characters)
           Drop(i) == CharAt(l, i) = "\\" /\ ~ Escaped(l)[i]
           More(i, s) == IF Drop(i) THEN s ELSE Append(s, CharAt(l, i))
           Body(i, s) == IF i = p THEN << >> ELSE More(i, s)
           step == [x \in S \X ((p + 1)..m) |-> More(x[2], x[1])]
           Loop(e) == e = [i \in p..m |-> Body(i, e[i - 1])]
<1>1. p \in Int /\ m \in Int /\ p <= m /\ << >> \in S
  BY GoodLaws
<1>2. \A i \in (p + 1)..m : \A s \in S : More(i, s) \in S
  <2> SUFFICES ASSUME NEW i \in (p + 1)..m, NEW s \in S PROVE More(i, s) \in S
    OBVIOUS
  <2>1. i \in 1..(Len(l.input) + 1)
    BY GoodLaws
  <2>2. CharAt(l, i) \in Characters
    BY <2>1, FullLaws
  <2> HIDE DEF Drop
  <2>3. Append(s, CharAt(l, i)) \in S
    BY <2>2, AppendProperties
  <2> QED BY <2>3
<1>3. step \in [S \X ((p + 1)..m) -> S]
  <2> HIDE DEF S, More, p, m
  <2>1. \A x \in S \X ((p + 1)..m) : x[2] \in (p + 1)..m /\ x[1] \in S
    OBVIOUS
  <2>2. \A x \in S \X ((p + 1)..m) : More(x[2], x[1]) \in S
    BY <1>2, <2>1
  <2> QED BY <2>2
<1> HIDE DEF p, m, S
<1>4. \E f : IteratesFrom(f, S, << >>, p, m, step)
  <2> HIDE DEF step
  <2> QED BY <1>1, <1>3, IteratedFrom
<1>5. PICK g : /\ g \in [p..m -> S] /\ g[p] = << >>
               /\ \A i \in (p + 1)..m : g[i] = step[<< g[i - 1], i >>]
  BY <1>4 DEF IteratesFrom
<1>6. \A i \in p..m : g[i] = Body(i, g[i - 1])
  <2> SUFFICES ASSUME NEW i \in p..m PROVE g[i] = Body(i, g[i - 1])
    OBVIOUS
  <2>1. CASE i = p
    BY <1>5, <2>1
  <2>2. CASE i # p
    <3>1. i \in (p + 1)..m /\ i - 1 \in p..m
      BY <1>1, <2>2
    <3>2. g[i - 1] \in S
      <4> HIDE DEF step
      <4> QED BY <1>5, <3>1
    <3>3. g[i] = step[<< g[i - 1], i >>]
      BY <1>5, <3>1
    <3> HIDE DEF More
    <3>4. g[i] = More(i, g[i - 1])
      BY <3>1, <3>2, <3>3
    <3> QED BY <2>2, <3>4
  <2> QED BY <2>1, <2>2
<1> HIDE DEF Body
<1>7. Loop(g)
  <2>1. g = [i \in p..m |-> g[i]]
    <3> HIDE DEF step
    <3> QED BY <1>5
  <2> QED BY <1>6, <2>1
<1> DEFINE v == CHOOSE e : Loop(e)
<1>8. Loop(v)
  <2> HIDE DEF Loop
  <2> QED BY <1>7
<1>9. Str(l) = v
  BY DEF Str, Body, More, p, m
<1> HIDE DEF v, More
<1>10. \A i \in p..m : Str(l)[i] = Body(i, Str(l)[i - 1])
  BY <1>8, <1>9
<1>11. Str(l)[p] = << >>
  BY <1>1, <1>10 DEF Body
<1>12. \A i \in (p + 1)..m : Str(l)[i] = More(i, Str(l)[i - 1])
  <2> SUFFICES ASSUME NEW i \in (p + 1)..m PROVE Str(l)[i] = More(i, Str(l)[i - 1])
    OBVIOUS
  <2>1. i \in p..m /\ i # p
    BY <1>1
  <2> QED BY <1>10, <2>1 DEF Body
<1>13. \A i \in p..m : Str(l)[i] \in S
  <2> DEFINE T == {i \in p..m : Str(l)[i] \in S}
  <2>1. p \in T
    BY <1>1, <1>11
  <2>2. ASSUME NEW i \in (p + 1)..m, i - 1 \in T PROVE i \in T
    <3>1. i \in p..m
      BY <1>1
    <3>2. Str(l)[i - 1] \in S
      BY <2>2
    <3>3. More(i, Str(l)[i - 1]) \in S
      BY <1>2, <3>2
    <3> QED BY <1>12, <3>1, <3>3
  <2> HIDE DEF T
  <2>3. p..m \subseteq T
    BY <1>1, <2>1, <2>2, CountingFrom
  <2> USE DEF T
  <2> QED BY <2>3
<1>14. ASSUME NEW i \in (p + 1)..m
       PROVE  Str(l)[i] = IF Escapes(l, i) THEN Str(l)[i - 1] ELSE Append(Str(l)[i - 1], CharAt(l, i))
  <2>1. i > p
    BY <1>1
  <2>2. Escapes(l, i) <=> Drop(i)
    BY <2>1 DEF Escapes, p
  <2> HIDE DEF Drop
  <2> QED BY <1>12, <2>2 DEF More
<1> QED BY <1>11, <1>13, <1>14 DEF p, m, S

-----------------------------------------------------------------------------
(* How a string is written.                                                *)

(* One character of it.                                                    *)
Written(c) == IF c \in {"\\", Quote} THEN << "\\", c >> ELSE << c >>

(* A character is written as itself, or as two.                            *)
LEMMA WrittenLaws ==
  ASSUME NEW c \in Characters
  PROVE  Written(c) \in Seq(Characters)
<1>1. "\\" \in Characters
  BY DEF Characters
<1> DEFINE b == "\\"
<1>2. b \in Characters
  BY <1>1
<1> HIDE DEF b
<1>3. << b, c >> \in Seq(Characters) /\ << c >> \in Seq(Characters)
  BY <1>2
<1> QED BY <1>3 DEF Written, b

(* A string is written a character after the other.                        *)
WrittenOut(w, s) ==
  /\ w \in [0..Len(s) -> Seq(Characters)] /\ w[0] = << >>
  /\ \A k \in 1..Len(s) : w[k] = w[k - 1] \o Written(s[k])

(* WithEscapes comes to what is written in the end.                        *)
LEMMA WrittenOutExists ==
  ASSUME NEW s \in Seq(Characters)
  PROVE  \E w : WrittenOut(w, s) /\ WithEscapes(s) = w[Len(s)]
<1> DEFINE n == Len(s)
           S == Seq(Characters)
           More(k, before) == before \o Written(s[k])
           Body(k, before) == IF k = 0 THEN << >> ELSE More(k, before)
           step == [x \in S \X (1..n) |-> More(x[2], x[1])]
           Loop(e) == e = [k \in 0..n |-> Body(k, e[k - 1])]
<1>1. n \in Nat /\ << >> \in S
  BY LenProperties
<1>2. \A k \in 1..n : \A before \in S : More(k, before) \in S
  <2> SUFFICES ASSUME NEW k \in 1..n, NEW before \in S PROVE More(k, before) \in S
    OBVIOUS
  <2>1. s[k] \in Characters
    BY ElementOfSeq
  <2>2. Written(s[k]) \in S
    BY <2>1, WrittenLaws
  <2> QED BY <2>2, ConcatProperties
<1> HIDE DEF n, S, More
<1>3. step \in Steps(S, n)
  <2>1. \A x \in S \X (1..n) : x[2] \in 1..n /\ x[1] \in S
    OBVIOUS
  <2>2. \A x \in S \X (1..n) : More(x[2], x[1]) \in S
    BY <1>2, <2>1
  <2> QED BY <2>2 DEF Steps
<1>4. \E f : Iterates(f, S, << >>, n, step)
  <2> HIDE DEF step
  <2> QED BY <1>1, <1>3, Iterated
<1>5. PICK g : /\ g \in [0..n -> S] /\ g[0] = << >>
               /\ \A k \in 1..n : g[k] = step[<< g[k - 1], k >>]
  BY <1>4 DEF Iterates
<1>6. \A k \in 0..n : g[k] = Body(k, g[k - 1])
  <2> SUFFICES ASSUME NEW k \in 0..n PROVE g[k] = Body(k, g[k - 1])
    OBVIOUS
  <2>1. CASE k = 0
    BY <1>5, <2>1
  <2>2. CASE k # 0
    <3>1. k \in 1..n /\ k - 1 \in 0..n
      BY <1>1, <2>2
    <3>2. g[k - 1] \in S
      <4> HIDE DEF step
      <4> QED BY <1>5, <3>1
    <3>3. g[k] = step[<< g[k - 1], k >>]
      BY <1>5, <3>1
    <3>4. g[k] = More(k, g[k - 1])
      BY <3>1, <3>2, <3>3
    <3> QED BY <2>2, <3>4
  <2> QED BY <2>1, <2>2
<1> HIDE DEF Body
<1>7. Loop(g)
  <2>1. g = [k \in 0..n |-> g[k]]
    <3> HIDE DEF step
    <3> QED BY <1>5
  <2> QED BY <1>6, <2>1
<1> DEFINE v == CHOOSE e : Loop(e)
<1>8. Loop(v)
  <2> HIDE DEF Loop
  <2> QED BY <1>7
<1>9. WithEscapes(s) = v[n]
  BY DEF WithEscapes, Written, Body, More, n
<1> HIDE DEF v
<1>10. v = [k \in 0..n |-> v[k]] /\ \A k \in 0..n : v[k] = Body(k, v[k - 1])
  BY <1>8
<1>11. v[0] = << >>
  BY <1>1, <1>10 DEF Body
<1>12. \A k \in 1..n : v[k] = More(k, v[k - 1])
  <2> SUFFICES ASSUME NEW k \in 1..n PROVE v[k] = More(k, v[k - 1])
    OBVIOUS
  <2>1. k \in 0..n /\ k # 0
    BY <1>1
  <2> QED BY <1>10, <2>1 DEF Body
<1>13. \A k \in 0..n : v[k] \in S
  <2> DEFINE T == {k \in 0..n : v[k] \in S}
  <2>1. 0 \in T
    BY <1>1, <1>11
  <2>2. ASSUME NEW k \in 1..n, k - 1 \in T PROVE k \in T
    <3>1. k \in 0..n
      BY <1>1
    <3>2. v[k - 1] \in S
      BY <2>2
    <3>3. More(k, v[k - 1]) \in S
      BY <1>2, <3>2
    <3> QED BY <1>12, <3>1, <3>3
  <2> HIDE DEF T
  <2>3. 0..n \subseteq T
    BY <1>1, <2>1, <2>2, Counting
  <2> USE DEF T
  <2> QED BY <2>3
<1>14. WrittenOut(v, s)
  <2>1. v \in [0..n -> S]
    BY <1>10, <1>13
  <2> QED BY <1>11, <1>12, <2>1 DEF WrittenOut, More, n, S
<1> QED BY <1>9, <1>14 DEF n

(* In one way only.                                                        *)
LEMMA WrittenOutOnce ==
  ASSUME NEW s \in Seq(Characters), NEW t \in Seq(Characters), NEW v, NEW w,
         WrittenOut(v, s), WrittenOut(w, t), Len(s) <= Len(t),
         \A k \in 1..Len(s) : t[k] = s[k]
  PROVE  \A k \in 0..Len(s) : v[k] = w[k]
<1> DEFINE n == Len(s)
           T == {k \in 0..n : v[k] = w[k]}
<1>1. n \in Nat /\ Len(t) \in Nat /\ n <= Len(t)
  BY LenProperties
<1>2. v[0] = w[0]
  BY DEF WrittenOut
<1>3. ASSUME NEW k \in 1..n, v[k - 1] = w[k - 1] PROVE v[k] = w[k]
  <2>1. k \in 1..Len(t)
    BY <1>1
  <2> QED BY <1>3, <2>1 DEF WrittenOut
<1> HIDE DEF n
<1>4. 0 \in T
  BY <1>1, <1>2
<1>5. ASSUME NEW k \in 1..n, k - 1 \in T PROVE k \in T
  BY <1>1, <1>3, <1>5
<1> HIDE DEF T
<1>6. 0..n \subseteq T
  BY <1>1, <1>4, <1>5, Counting
<1> USE DEF T
<1> QED BY <1>6 DEF n

(* So one more character adds what is written for it.                      *)
LEMMA WithEscapesLaws ==
  ASSUME NEW s \in Seq(Characters), NEW c \in Characters
  PROVE  /\ WithEscapes(s) \in Seq(Characters)
         /\ WithEscapes(<< >>) = << >>
         /\ WithEscapes(Append(s, c)) = WithEscapes(s) \o Written(c)
<1> DEFINE t == Append(s, c)
           n == Len(s)
           e == << >>
<1>1. /\ t \in Seq(Characters) /\ Len(t) = n + 1 /\ t[n + 1] = c
      /\ \A k \in 1..n : t[k] = s[k]
  BY AppendProperties
<1>2. n \in Nat
  BY LenProperties
<1>3. e \in Seq(Characters) /\ Len(e) = 0
  OBVIOUS
<1> HIDE DEF t, n, e
<1>4. PICK u : WrittenOut(u, e) /\ WithEscapes(e) = u[Len(e)]
  BY <1>3, WrittenOutExists
<1>5. PICK v : WrittenOut(v, s) /\ WithEscapes(s) = v[n]
  BY WrittenOutExists DEF n
<1>6. PICK w : WrittenOut(w, t) /\ WithEscapes(t) = w[n + 1]
  BY <1>1, WrittenOutExists
<1>7. WithEscapes(e) = << >>
  BY <1>3, <1>4 DEF WrittenOut
<1>8. WithEscapes(s) \in Seq(Characters)
  BY <1>2, <1>5 DEF WrittenOut, n
<1>9. v[n] = w[n]
  <2>1. Len(s) <= Len(t) /\ \A k \in 1..Len(s) : t[k] = s[k]
    BY <1>1, <1>2 DEF n
  <2>2. \A k \in 0..Len(s) : v[k] = w[k]
    BY <1>1, <1>5, <1>6, <2>1, WrittenOutOnce
  <2> QED BY <1>2, <2>2 DEF n
<1>10. w[n + 1] = w[(n + 1) - 1] \o Written(t[n + 1])
  <2>1. n + 1 \in 1..Len(t)
    BY <1>1, <1>2
  <2> QED BY <1>6, <2>1 DEF WrittenOut
<1>11. (n + 1) - 1 = n
  BY <1>2
<1> QED BY <1>1, <1>5, <1>6, <1>7, <1>8, <1>9, <1>10, <1>11 DEF t, e

-----------------------------------------------------------------------------
(* What readString returns is what is written.                             *)

(* A slice ends with its last character, and begins with its first.        *)
LEMMA SliceEnds ==
  ASSUME NEW l, Good(l), NEW a \in 1..(Len(l.input) + 1), NEW b \in a..(Len(l.input) + 1)
  PROVE  /\ Slice(l, a, b) = Slice(l, a, b - 1) \o << CharAt(l, b) >>
         /\ Slice(l, a, b) = << CharAt(l, a) >> \o Slice(l, a + 1, b)
         /\ Slice(l, a, a - 1) = << >>
         /\ Slice(l, a, b - 1) \in Seq(Characters)
<1>1. /\ Full(l) \in Seq(Characters) /\ Len(Full(l)) = Len(l.input) + 1 /\ Len(l.input) \in Nat
      /\ Full(l)[a] = CharAt(l, a)
  BY FullLaws, GoodLaws
<1>2. /\ b \in 1..(Len(l.input) + 1) /\ a \in Int /\ b \in Int
  BY <1>1
<1>3. Full(l)[b] = CharAt(l, b)
  BY <1>2, FullLaws
<1>4. a \in 1..Len(Full(l)) /\ b \in a..Len(Full(l))
  BY <1>1
<1>5. SubSeq(Full(l), a, b) = SubSeq(Full(l), a, b - 1) \o << Full(l)[b] >>
  BY <1>1, <1>4, SubSeqRecursiveSecond
<1>6. SubSeq(Full(l), a, b) = << Full(l)[a] >> \o SubSeq(Full(l), a + 1, b)
  BY <1>1, <1>4, SubSeqRecursiveFirst
<1>7. SubSeq(Full(l), a, a - 1) = << >>
  <2>1. a - 1 \in Int /\ a - 1 < a
    BY <1>2
  <2> QED BY <1>2, <2>1, SubSeqEmpty
<1>8. SubSeq(Full(l), a, b - 1) \in Seq(Characters)
  <2>1. \A i \in a..(b - 1) : i \in 1..(Len(l.input) + 1)
    BY <1>1, <1>2
  <2>2. \A i \in a..(b - 1) : Full(l)[i] \in Characters
    BY <2>1, FullLaws
  <2>3. b - 1 \in Int
    BY <1>2
  <2> QED BY <1>2, <2>2, <2>3, SubSeqProperties
<1> QED BY <1>1, <1>3, <1>5, <1>6, <1>7, <1>8 DEF Slice

(* A character is escaped if the one before it escapes.                    *)
LEMMA EscapedBy ==
  ASSUME NEW l, Good(l), NEW i \in (l.position + 1)..(Len(l.input) + 1)
  PROVE  /\ i \in 1..(Len(l.input) + 1) /\ i > l.position
         /\ Escaped(l)[i] <=> Escapes(l, i - 1)
         /\ Escaped(l)[i] => i - 1 \in (l.position + 1)..(Len(l.input) + 1)
         /\ Escapes(l, i) <=> CharAt(l, i) = "\\" /\ ~ Escaped(l)[i]
<1>1. i \in l.position..(Len(l.input) + 1) /\ i \in 1..(Len(l.input) + 1) /\ i > l.position
  BY GoodLaws
<1>2. Escaped(l)[i] <=> i > l.position + 1 /\ Escapes(l, i - 1)
  BY <1>1, EscapedLaws
<1>3. Escapes(l, i - 1) => i - 1 > l.position
  BY DEF Escapes
<1>4. i - 1 > l.position => i > l.position + 1 /\ i - 1 \in (l.position + 1)..(Len(l.input) + 1)
  BY GoodLaws
<1> QED BY <1>1, <1>2, <1>3, <1>4 DEF Escapes

(* Before the end, an escaped character is a backslash or a quote, and a   *)
(* character that neither escapes nor is escaped is neither.               *)
LEMMA StringCharacters ==
  ASSUME NEW l, Good(l), l.position <= Len(l.input),
         NEW i \in (l.position + 1)..(StringEnd(l) - 1)
  PROVE  /\ i \in (l.position + 1)..(Len(l.input) + 1) /\ i <= Len(l.input)
         /\ Escapes(l, i) => CharAt(l, i) = "\\" /\ ~ Escapes(l, i - 1)
         /\ Escapes(l, i - 1) => CharAt(l, i) \in {"\\", Quote}
         /\ ~ Escapes(l, i) /\ ~ Escapes(l, i - 1) => CharAt(l, i) \notin {"\\", Quote, NUL}
<1>1. StringEnd(l) \in (l.position + 1)..(Len(l.input) + 1)
  BY StringEndLaws
<1>2. i \in (l.position + 1)..(Len(l.input) + 1) /\ i <= Len(l.input)
  BY <1>1, GoodLaws
<1>3. ~ Stops(l, i)
  BY StringEndLaws
<1>4. /\ Escaped(l)[i] <=> Escapes(l, i - 1)
      /\ Escapes(l, i) <=> CharAt(l, i) = "\\" /\ ~ Escaped(l)[i]
      /\ Escaped(l)[i] => i - 1 \in (l.position + 1)..(Len(l.input) + 1)
  BY <1>2, EscapedBy
<1>5. ASSUME Escapes(l, i - 1) PROVE CharAt(l, i) \in {"\\", Quote}
  <2>1. i - 1 \in (l.position + 1)..(Len(l.input) + 1)
    BY <1>4, <1>5
  <2>2. i - 1 \in (l.position + 1)..(StringEnd(l) - 1) /\ (i - 1) + 1 = i
    BY <1>1, <2>1, GoodLaws
  <2>3. ~ Stops(l, i - 1)
    BY <2>2, StringEndLaws
  <2> QED BY <1>5, <2>2, <2>3 DEF Stops, Escapes
<1>6. ASSUME ~ Escapes(l, i), ~ Escapes(l, i - 1) PROVE CharAt(l, i) \notin {"\\", Quote, NUL}
  BY <1>3, <1>4, <1>6 DEF Stops
<1> QED BY <1>2, <1>4, <1>5, <1>6

(* What the end itself is.                                                 *)
LEMMA StringStops ==
  ASSUME NEW l, Good(l), l.position <= Len(l.input)
  PROVE  /\ ~ Escapes(l, StringEnd(l) - 1)
         /\ CharAt(l, StringEnd(l)) \in {"\\", Quote, NUL}
         /\ CharAt(l, StringEnd(l)) = "\\" => CharAt(l, StringEnd(l) + 1) \notin {"\\", Quote}
<1>1. StringEnd(l) \in (l.position + 1)..(Len(l.input) + 1) /\ Stops(l, StringEnd(l))
  BY StringEndLaws
<1>2. Escaped(l)[StringEnd(l)] <=> Escapes(l, StringEnd(l) - 1)
  BY <1>1, EscapedBy
<1>3. "\\" \notin {Quote, NUL}
  BY DEF NUL, Quote
<1> QED BY <1>1, <1>2, <1>3 DEF Stops

(* A backslash in the text that is not in the string yet.                  *)
Pending(l, i) == IF Escapes(l, i) THEN << "\\" >> ELSE << >>

(* The text so far is the string so far with its escapes, and a backslash  *)
(* if the next character is escaped.                                       *)
LEMMA StringSoFar ==
  ASSUME NEW l, Good(l), l.position <= Len(l.input)
  PROVE  \A i \in l.position..(StringEnd(l) - 1) :
           WithEscapes(Str(l)[i]) \o Pending(l, i) = Slice(l, l.position + 1, i)
<1> DEFINE p == l.position
           e == StringEnd(l)
           n == Len(l.input) + 1
           S == Seq(Characters)
           b == << "\\" >>
           T == {i \in p..(e - 1) : WithEscapes(Str(l)[i]) \o Pending(l, i) = Slice(l, p + 1, i)}
<1>1. p \in Nat /\ n \in Nat /\ e \in (p + 1)..n /\ p >= 1
  BY GoodLaws, StringEndLaws
<1>2. b \in S
  <2>1. "\\" \in Characters
    BY DEF Characters
  <2> DEFINE x == "\\"
  <2>2. x \in Characters
    BY <2>1
  <2> HIDE DEF x
  <2>3. << x >> \in Seq(Characters)
    BY <2>2
  <2> QED BY <2>3 DEF x
<1>3. p \in T
  <2>1. ~ Escapes(l, p)
    BY <1>1 DEF Escapes
  <2>2. Str(l)[p] = << >>
    BY StrLaws
  <2>3. WithEscapes(<< >>) = << >>
    <3>1. << >> \in S /\ NUL \in Characters
      BY NulCharacter
    <3> QED BY <3>1, WithEscapesLaws
  <2>4. Slice(l, p + 1, p) = << >>
    <3>1. p + 1 \in 1..n /\ p + 1 \in (p + 1)..n /\ (p + 1) - 1 = p
      BY <1>1
    <3> QED BY <3>1, SliceEnds
  <2>5. p \in p..(e - 1)
    BY <1>1
  <2>6. << >> \o << >> = << >>
    OBVIOUS
  <2> QED BY <2>1, <2>2, <2>3, <2>4, <2>5, <2>6 DEF Pending
<1>4. ASSUME NEW i \in (p + 1)..(e - 1), i - 1 \in T PROVE i \in T
  <2> DEFINE c == CharAt(l, i)
             s == Str(l)[i - 1]
             w == WithEscapes(s)
  <2>1. /\ i \in (p + 1)..n /\ i <= Len(l.input)
        /\ Escapes(l, i) => c = "\\" /\ ~ Escapes(l, i - 1)
        /\ Escapes(l, i - 1) => c \in {"\\", Quote}
        /\ ~ Escapes(l, i) /\ ~ Escapes(l, i - 1) => c \notin {"\\", Quote, NUL}
    BY StringCharacters
  <2>2. i \in 1..n /\ i - 1 \in p..Len(l.input) /\ i \in (p + 1)..Len(l.input) /\ i \in p..(e - 1)
        /\ p + 1 \in 1..n
    <3>1. Len(l.input) \in Nat
      BY GoodLaws
    <3> DEFINE m == Len(l.input)
    <3>2. /\ m \in Nat /\ n = m + 1 /\ p \in Nat /\ e \in (p + 1)..n /\ p >= 1
          /\ i \in (p + 1)..(e - 1)
      BY <1>1, <3>1, <1>4
    <3> HIDE DEF p, e, n, m
    <3>3. /\ i \in 1..n /\ i - 1 \in p..m /\ i \in (p + 1)..m /\ i \in p..(e - 1)
          /\ p + 1 \in 1..n
      BY <3>2
    <3> QED BY <3>3 DEF m
  <2>3. c \in Characters /\ s \in S
    BY <2>2, FullLaws, StrLaws
  <2>4. Str(l)[i] = IF Escapes(l, i) THEN s ELSE Append(s, c)
    BY <2>2, StrLaws
  <2>5. Slice(l, p + 1, i) = Slice(l, p + 1, i - 1) \o << c >>
    BY <2>1, <2>2, SliceEnds
  <2>6. w \o Pending(l, i - 1) = Slice(l, p + 1, i - 1)
    BY <1>4
  <2>7. w \in S /\ WithEscapes(Append(s, c)) = w \o Written(c)
    BY <2>3, WithEscapesLaws
  <2>8. << c >> \in S /\ w \o << >> = w
    BY <2>3, <2>7, ConcatEmptySeq
  <2> HIDE DEF w, c, s
  <2>9. CASE Escapes(l, i)
    <3>1. c = "\\" /\ ~ Escapes(l, i - 1)
      BY <2>1, <2>9
    <3>2. Slice(l, p + 1, i) = w \o << c >>
      BY <2>5, <2>6, <2>8, <3>1 DEF Pending
    <3>3. Pending(l, i) = << c >>
      BY <2>9, <3>1 DEF Pending
    <3>4. WithEscapes(Str(l)[i]) = w
      BY <2>4, <2>9 DEF w
    <3> QED BY <2>2, <3>2, <3>3, <3>4
  <2>10. CASE ~ Escapes(l, i)
    <3>1. WithEscapes(Str(l)[i]) = w \o Written(c)
      BY <2>4, <2>7, <2>10
    <3>2. (w \o Written(c)) \o << >> = w \o Written(c)
      <4>1. Written(c) \in S
        BY <2>3, WrittenLaws
      <4>2. w \o Written(c) \in S
        BY <2>7, <4>1, ConcatProperties
      <4> QED BY <4>2, ConcatEmptySeq
    <3>3. w \o Written(c) = (w \o Pending(l, i - 1)) \o << c >>
      <4>1. CASE Escapes(l, i - 1)
        <5>1. Written(c) = << "\\", c >> /\ Pending(l, i - 1) = b
          BY <2>1, <4>1 DEF Written, Pending
        <5>2. << "\\", c >> = b \o << c >>
          OBVIOUS
        <5> HIDE DEF b
        <5>3. w \o (b \o << c >>) = (w \o b) \o << c >>
          BY <1>2, <2>7, <2>8, ConcatAssociative
        <5> QED BY <5>1, <5>2, <5>3
      <4>2. CASE ~ Escapes(l, i - 1)
        <5>1. Written(c) = << c >> /\ Pending(l, i - 1) = << >>
          BY <2>1, <2>10, <4>2 DEF Written, Pending
        <5> QED BY <2>8, <5>1
      <4> QED BY <4>1, <4>2
    <3> QED BY <2>2, <2>5, <2>6, <2>10, <3>1, <3>2, <3>3 DEF Pending
  <2> QED BY <2>9, <2>10
<1> HIDE DEF T, p, e
<1>5. p..(e - 1) \subseteq T
  <2>1. p \in Int /\ e - 1 \in Int
    BY <1>1
  <2> QED BY <1>3, <1>4, <2>1, CountingFrom
<1> USE DEF T, p, e
<1> QED BY <1>5

-----------------------------------------------------------------------------
(* A string literal in the text is what readString reads.                  *)

(* No literal that begins here ends anywhere else.                         *)
LEMMA QuotedEnds ==
  ASSUME NEW l, Good(l), l.position <= Len(l.input),
         NEW k \in l.position..(Len(l.input) + 1), IsQuoted(Slice(l, l.position, k))
  PROVE  StringEnd(l) = k /\ CharAt(l, k) = Quote
<1> DEFINE p == l.position
           n == Len(l.input) + 1
           m == (k - p) + 1
           s == Slice(l, p, k)
           e == StringEnd(l)
<1>1. p \in Nat /\ p >= 1 /\ n \in Nat /\ p < n /\ k \in p..n /\ m \in Nat
  BY GoodLaws
<1>2. Len(s) = m /\ \A j \in 1..m : s[j] = CharAt(l, (p + j) - 1)
  <2>1. p \in 1..(Len(l.input) + 1) /\ k \in p..(Len(l.input) + 1)
    BY <1>1
  <2> QED BY <2>1, SliceLaws
<1>3. m > 1 /\ s[m] = Quote
  BY <1>2 DEF IsQuoted
<1>4. PICK escaping \in SUBSET (2..(m - 2)) :
        \A j \in 2..(m - 1) :
          /\ j \in escaping => s[j] = "\\" /\ j - 1 \notin escaping
          /\ j - 1 \in escaping => s[j] \in {"\\", Quote}
          /\ j \notin escaping /\ j - 1 \notin escaping => s[j] \notin {"\\", Quote, NUL}
  BY <1>2 DEF IsQuoted
<1> DEFINE Esc(i) == (i - p) + 1 \in escaping
<1>5. k > p /\ CharAt(l, k) = Quote
  <2>1. m \in 1..m /\ (p + m) - 1 = k
    BY <1>1, <1>3
  <2>2. s[m] = CharAt(l, (p + m) - 1)
    BY <1>2, <2>1
  <2> QED BY <1>1, <1>3, <2>1, <2>2
<1>6. ASSUME NEW i \in (p + 1)..(k - 1)
      PROVE  /\ Esc(i) => CharAt(l, i) = "\\" /\ ~ Esc(i - 1)
             /\ Esc(i - 1) => CharAt(l, i) \in {"\\", Quote}
             /\ ~ Esc(i) /\ ~ Esc(i - 1) => CharAt(l, i) \notin {"\\", Quote, NUL}
  <2> DEFINE j == (i - p) + 1
  <2>1. j \in 2..(m - 1) /\ j \in 1..m /\ (p + j) - 1 = i /\ j - 1 = ((i - 1) - p) + 1
    <3> HIDE DEF p, n, s, e, Esc
    <3> QED BY <1>1
  <2>2. s[j] = CharAt(l, i)
    <3> HIDE DEF j, m, s
    <3>1. s[j] = CharAt(l, (p + j) - 1)
      BY <1>2, <2>1
    <3> QED BY <2>1, <3>1
  <2> HIDE DEF m, s
  <2>3. /\ j \in escaping => s[j] = "\\" /\ j - 1 \notin escaping
        /\ j - 1 \in escaping => s[j] \in {"\\", Quote}
        /\ j \notin escaping /\ j - 1 \notin escaping => s[j] \notin {"\\", Quote, NUL}
    <3> HIDE DEF j
    <3> QED BY <1>4, <2>1
  <2> QED BY <2>1, <2>2, <2>3
<1>7. /\ \A i : Esc(i) => (i - p) + 1 \in 2..(m - 2)
      /\ ~ Esc(p) /\ ~ Esc(k - 1)
  <2>1. \A i : Esc(i) => (i - p) + 1 \in 2..(m - 2)
    BY <1>4
  <2>2. (p - p) + 1 = 1 /\ ((k - 1) - p) + 1 = m - 1
    BY <1>1
  <2>3. ~ (1 \in 2..(m - 2)) /\ ~ (m - 1 \in 2..(m - 2))
    BY <1>1
  <2> QED BY <2>1, <2>2, <2>3
<1> HIDE DEF s, n, e, Esc
<1> DEFINE T == {i \in p..(k - 1) : Esc(i) <=> Escapes(l, i)}
<1>8. p..(k - 1) \subseteq T
  <2>1. p \in T
    <3>1. ~ Escapes(l, p)
      BY <1>1 DEF Escapes
    <3> QED BY <1>1, <1>5, <1>7, <3>1
  <2>2. ASSUME NEW i \in (p + 1)..(k - 1), i - 1 \in T PROVE i \in T
    <3>1. i \in (p + 1)..(Len(l.input) + 1) /\ i \in p..(k - 1)
      <4> HIDE DEF p, m
      <4> QED BY <1>1 DEF n
    <3>2. /\ Escaped(l)[i] <=> Escapes(l, i - 1)
          /\ Escapes(l, i) <=> CharAt(l, i) = "\\" /\ ~ Escaped(l)[i]
      BY <3>1, EscapedBy
    <3>3. Esc(i - 1) <=> Escapes(l, i - 1)
      BY <2>2
    <3>4. Esc(i) <=> Escapes(l, i)
      BY <1>6, <3>2, <3>3
    <3> QED BY <3>1, <3>4
  <2> HIDE DEF T
  <2>3. p \in Int /\ k - 1 \in Int
    BY <1>1
  <2> HIDE DEF p
  <2> QED BY <2>1, <2>2, <2>3, CountingFrom
<1>9. ASSUME NEW i \in (p + 1)..(k - 1) PROVE ~ Stops(l, i)
  <2>1. /\ i \in (p + 1)..(Len(l.input) + 1)
        /\ i - 1 \in p..(k - 1) /\ i \in p..(k - 1)
    <3> HIDE DEF p, m
    <3> QED BY <1>1 DEF n
  <2>2. Esc(i) <=> Escapes(l, i)
    BY <1>8, <2>1
  <2>3. Esc(i - 1) <=> Escapes(l, i - 1)
    BY <1>8, <2>1
  <2>4. Escaped(l)[i] <=> Escapes(l, i - 1)
    BY <2>1, EscapedBy
  <2>5. CASE Escapes(l, i - 1)
    BY <2>4, <2>5 DEF Stops
  <2>6. CASE Escapes(l, i)
    <3>1. i + 1 \in (p + 1)..(k - 1) /\ (i + 1) - 1 = i
      BY <1>1, <1>7, <2>2, <2>6
    <3>2. CharAt(l, i + 1) \in {"\\", Quote}
      BY <1>6, <2>2, <2>6, <3>1
    <3>3. CharAt(l, i) = "\\"
      BY <2>6 DEF Escapes
    <3> QED BY <3>2, <3>3 DEF Stops, NUL, Quote
  <2>7. CASE ~ Escapes(l, i - 1) /\ ~ Escapes(l, i)
    <3>1. CharAt(l, i) \notin {"\\", Quote, NUL}
      BY <1>6, <2>2, <2>3, <2>7
    <3> QED BY <3>1 DEF Stops
  <2> QED BY <2>5, <2>6, <2>7
<1>10. Stops(l, k)
  <2>1. k - 1 \in p..(k - 1) /\ k \in (p + 1)..(Len(l.input) + 1)
    BY <1>1, <1>5 DEF n
  <2>2. ~ Escapes(l, k - 1)
    BY <1>7, <1>8, <2>1
  <2>3. Escaped(l)[k] <=> Escapes(l, k - 1)
    BY <2>1, EscapedBy
  <2> QED BY <1>5, <2>2, <2>3 DEF Stops
<1>11. e \in (p + 1)..n /\ Stops(l, e) /\ \A j \in (p + 1)..(e - 1) : ~ Stops(l, j)
  BY StringEndLaws DEF e, n
<1>12. e = k
  <2>1. CASE e < k
    <3>1. e \in (p + 1)..(k - 1)
      BY <1>1, <1>11, <2>1
    <3> QED BY <1>9, <1>11, <3>1
  <2>2. CASE k < e
    <3>1. k \in (p + 1)..(e - 1)
      BY <1>1, <1>5, <1>11, <2>2
    <3> QED BY <1>10, <1>11, <3>1
  <2> QED BY <1>1, <1>11, <2>1, <2>2
<1> QED BY <1>5, <1>12 DEF e

(* And what readString reads to a quote is one.                            *)
LEMMA FinishedIsQuoted ==
  ASSUME NEW l, Good(l), l.position <= Len(l.input),
         CharAt(l, l.position) = Quote, CharAt(l, StringEnd(l)) = Quote
  PROVE  IsQuoted(Slice(l, l.position, StringEnd(l)))
<1> DEFINE p == l.position
           n == Len(l.input) + 1
           e == StringEnd(l)
           m == (e - p) + 1
           s == Slice(l, p, e)
           escaping == {j \in 2..(m - 2) : Escapes(l, (p + j) - 1)}
<1>1. p \in Nat /\ p >= 1 /\ n \in Nat /\ e \in (p + 1)..n /\ m \in Nat /\ m > 1
  <2>1. p \in Nat /\ p >= 1 /\ n \in Nat /\ e \in (p + 1)..n
    BY GoodLaws, StringEndLaws
  <2> HIDE DEF p, n, e
  <2> QED BY <2>1
<1>2. Len(s) = m /\ \A j \in 1..m : s[j] = CharAt(l, (p + j) - 1)
  <2>1. p \in 1..(Len(l.input) + 1) /\ e \in p..(Len(l.input) + 1)
    <3>1. p \in 1..n /\ e \in p..n
      <4> HIDE DEF p, n, e
      <4> QED BY <1>1
    <3> QED BY <3>1
  <2> QED BY <2>1, SliceLaws
<1>3. ~ Escapes(l, e - 1) /\ ~ Escapes(l, p)
  BY <1>1, StringStops DEF Escapes
<1> HIDE DEF p, n, e, m, s
<1>4. s[1] = Quote /\ s[m] = Quote
  <2>1. 1 \in 1..m /\ m \in 1..m /\ (p + 1) - 1 = p /\ (p + m) - 1 = e
    BY <1>1 DEF m
  <2>2. s[1] = CharAt(l, p) /\ s[m] = CharAt(l, e)
    BY <1>2, <2>1
  <2> QED BY <2>2 DEF p, e
<1>5. ASSUME NEW j \in 2..(m - 1)
      PROVE  /\ j \in escaping => s[j] = "\\" /\ j - 1 \notin escaping
             /\ j - 1 \in escaping => s[j] \in {"\\", Quote}
             /\ j \notin escaping /\ j - 1 \notin escaping => s[j] \notin {"\\", Quote, NUL}
  <2> DEFINE i == (p + j) - 1
  <2>1. /\ i \in (p + 1)..(e - 1) /\ (p + (j - 1)) - 1 = i - 1 /\ j \in 1..m
        /\ j = m - 1 => i = e - 1
        /\ j = 2 => i - 1 = p
        /\ j # 2 => j - 1 \in 2..(m - 2)
        /\ j # m - 1 => j \in 2..(m - 2)
    BY <1>1 DEF m
  <2>2. s[j] = CharAt(l, i)
    BY <1>2, <2>1
  <2>3. /\ Escapes(l, i) => CharAt(l, i) = "\\" /\ ~ Escapes(l, i - 1)
        /\ Escapes(l, i - 1) => CharAt(l, i) \in {"\\", Quote}
        /\ ~ Escapes(l, i) /\ ~ Escapes(l, i - 1) => CharAt(l, i) \notin {"\\", Quote, NUL}
    <3>1. i \in (l.position + 1)..(StringEnd(l) - 1)
      BY <2>1 DEF p, e
    <3> HIDE DEF i
    <3> QED BY <3>1, StringCharacters
  <2>4. j \in escaping <=> Escapes(l, i)
    <3>1. CASE j = m - 1
      BY <1>1, <1>3, <2>1, <3>1
    <3>2. CASE j # m - 1
      BY <2>1, <3>2
    <3> QED BY <3>1, <3>2
  <2>5. j - 1 \in escaping <=> Escapes(l, i - 1)
    <3>1. CASE j = 2
      BY <1>3, <2>1, <3>1
    <3>2. CASE j # 2
      BY <2>1, <3>2
    <3> QED BY <3>1, <3>2
  <2> HIDE DEF escaping, i
  <2> QED BY <2>2, <2>3, <2>4, <2>5
<1>6. escaping \in SUBSET (2..(m - 2))
  OBVIOUS
<1> HIDE DEF escaping
<1>7. IsQuoted(s)
  BY <1>1, <1>2, <1>4, <1>5, <1>6 DEF IsQuoted
<1> QED BY <1>7 DEF s, p, e

-----------------------------------------------------------------------------
(* The kinds of lexeme.                                                    *)

(* A character begins lexemes of one kind.                                 *)
LEMMA KindsOfCharacter ==
  /\ "=" \in Symbols /\ "!" \in Symbols /\ Symbols \subseteq Characters
  /\ Quote \in Characters /\ Quote # NUL
  /\ \A c \in Letters : c \notin Digits /\ c \notin Symbols /\ c \notin Whitespace /\ c # Quote /\ c # NUL
  /\ \A c \in Digits : c \notin Letters /\ c \notin Symbols /\ c \notin Whitespace /\ c # Quote /\ c # NUL
  /\ Quote \notin Letters /\ Quote \notin Digits /\ Quote \notin Symbols
  /\ NUL \notin Letters /\ NUL \notin Digits /\ NUL \notin Symbols /\ NUL \notin Whitespace
<1>1. "=" \in Symbols /\ "!" \in Symbols /\ Symbols \subseteq Characters /\ Quote \in Characters
  BY Zenon DEF Symbols, Characters
<1>2. Quote # NUL
  BY Zenon DEF Quote, NUL
<1>3. Quote \notin Symbols
  BY Zenon DEF Quote, Symbols, Delimiters
<1>4. NUL \notin Symbols /\ NUL \notin Whitespace
  BY Zenon DEF NUL, Symbols, Delimiters, Whitespace
<1>5. /\ \A c \in Letters : c \notin Digits
      /\ \A c \in Letters \cup Digits : c \notin Whitespace \cup Symbols \cup {Quote, "\\", NUL}
  BY AlphabetAssumption, Zenon
<1>6. \A c \in Letters \cup Digits : c \notin Symbols /\ c \notin Whitespace /\ c # Quote /\ c # NUL
  BY <1>5, Zenon
<1>7. \A c \in Letters : c \notin Digits /\ c \notin Symbols /\ c \notin Whitespace /\ c # Quote /\ c # NUL
  BY <1>5, <1>6, Zenon
<1>8. \A c \in Digits : c \notin Letters /\ c \notin Symbols /\ c \notin Whitespace /\ c # Quote /\ c # NUL
  BY <1>5, <1>6, Zenon
<1> QED BY <1>1, <1>2, <1>3, <1>4, <1>7, <1>8, Zenon

(* The first character says which kind of lexeme it can be.                *)
LEMMA LexemeKinds ==
  ASSUME NEW s \in Seq(Characters), s # << >>
  PROVE  /\ s[1] \in Letters => (IsLexeme(s) <=> \A i \in 1..Len(s) : s[i] \in Letters)
         /\ s[1] \in Digits => (IsLexeme(s) <=> \A i \in 1..Len(s) : s[i] \in Digits)
         /\ s[1] = Quote => (IsLexeme(s) <=> IsQuoted(s))
         /\ s[1] \in Symbols =>
              (IsLexeme(s) <=> \/ Len(s) = 1
                               \/ Len(s) = 2 /\ s[1] \in {"=", "!"} /\ s[2] = "=")
         /\ s[1] \notin Letters \cup Digits \cup Symbols \cup {Quote} => ~ IsLexeme(s)
<1> DEFINE Lettered == \A i \in 1..Len(s) : s[i] \in Letters
           Digital  == \A i \in 1..Len(s) : s[i] \in Digits
           Symbolic == s \in { << "=", "=" >>, << "!", "=" >> } \cup { << c >> : c \in Symbols }
<1>1. Len(s) \in Nat /\ Len(s) >= 1 /\ 1 \in 1..Len(s)
  BY EmptySeq, LenProperties
<1>2. IsLexeme(s) <=> Lettered \/ Digital \/ Symbolic \/ IsQuoted(s)
  BY DEF IsLexeme
<1>3. Symbolic <=> /\ s[1] \in Symbols
                   /\ \/ Len(s) = 1
                      \/ Len(s) = 2 /\ s[1] \in {"=", "!"} /\ s[2] = "="
  <2>1. "=" \in Symbols /\ "!" \in Symbols /\ Symbols \subseteq Characters
    BY KindsOfCharacter
  <2>2. ASSUME Symbolic
        PROVE  /\ s[1] \in Symbols
               /\ \/ Len(s) = 1
                  \/ Len(s) = 2 /\ s[1] \in {"=", "!"} /\ s[2] = "="
    <3>1. CASE s \in { << "=", "=" >>, << "!", "=" >> }
      BY <2>1, <3>1
    <3>2. CASE s \in { << c >> : c \in Symbols }
      BY <3>2
    <3> QED BY <2>2, <3>1, <3>2
  <2>3. ASSUME s[1] \in Symbols, Len(s) = 1
        PROVE  Symbolic
    <3>1. << s[1] >> \in Seq(Characters) /\ Len(<< s[1] >>) = 1 /\ << s[1] >>[1] = s[1]
      BY <2>1, <2>3
    <3>2. s = << s[1] >>
      BY <2>3, <3>1, SeqEqual
    <3> QED BY <2>3, <3>2
  <2>4. ASSUME Len(s) = 2, s[1] \in {"=", "!"}, s[2] = "="
        PROVE  Symbolic
    <3>1. << s[1], s[2] >> \in Seq(Characters) /\ Len(<< s[1], s[2] >>) = 2
      BY <2>1, <2>4
    <3>2. s = << s[1], s[2] >>
      BY <2>4, <3>1, SeqEqual
    <3> QED BY <2>4, <3>2
  <2> QED BY <2>2, <2>3, <2>4
<1>4. /\ Lettered => s[1] \in Letters
      /\ Digital => s[1] \in Digits
      /\ IsQuoted(s) => s[1] = Quote
  BY <1>1 DEF IsQuoted
<1> HIDE DEF Lettered, Digital, Symbolic
<1>5. s[1] \in Letters => (IsLexeme(s) <=> Lettered)
  BY <1>2, <1>3, <1>4, KindsOfCharacter
<1>6. s[1] \in Digits => (IsLexeme(s) <=> Digital)
  BY <1>2, <1>3, <1>4, KindsOfCharacter
<1>7. s[1] = Quote => (IsLexeme(s) <=> IsQuoted(s))
  BY <1>2, <1>3, <1>4, KindsOfCharacter
<1>8. s[1] \in Symbols => (IsLexeme(s) <=> Symbolic)
  BY <1>2, <1>3, <1>4, KindsOfCharacter
<1>9. s[1] \notin Letters \cup Digits \cup Symbols \cup {Quote} => ~ IsLexeme(s)
  BY <1>2, <1>3, <1>4
<1>10. s[1] \in Symbols =>
         (IsLexeme(s) <=> \/ Len(s) = 1
                          \/ Len(s) = 2 /\ s[1] \in {"=", "!"} /\ s[2] = "=")
  BY <1>3, <1>8
<1> QED BY <1>5, <1>6, <1>7, <1>9, <1>10 DEF Lettered, Digital

(* A keyword has a type of its own, which is no other token's.             *)
LEMMA KeywordTypes ==
  /\ \A k \in Keywords : \A j \in Keywords : j.type = k.type => j.word = k.word
  /\ \A k \in Keywords :
       /\ k.type \notin {"IDENT", "INT", "STRING", "==", "!=", "EOF", "ILLEGAL"}
       /\ k.type \notin Symbols
<1>1. \A k \in Keywords : \A j \in Keywords : j.type = k.type => j.word = k.word
  BY DEF Keywords, Keyword
<1>2. \A k \in Keywords : k.type \notin {"IDENT", "INT", "STRING", "==", "!=", "EOF", "ILLEGAL"}
  BY DEF Keywords, Keyword
<1>3. \A k \in Keywords : k.type \notin Symbols
  <2> DEFINE Types == {"FUNCTION", "LET", "IF", "ELSE", "RETURN", "TRUE", "FALSE", "MACRO"}
  <2>1. \A k \in Keywords : k.type \in Types
    BY DEF Keywords, Keyword
  <2>2. \A t \in Types : t \notin Symbols
    BY DEF Symbols, Delimiters
  <2> HIDE DEF Types
  <2> QED BY <2>1, <2>2
<1> QED BY <1>1, <1>2, <1>3

-----------------------------------------------------------------------------
(* What NextToken comes to.                                                *)

(* How each type of token is written.                                      *)
LEMMA Spellings ==
  ASSUME NEW token
  PROVE  /\ token.type \in {"IDENT", "INT"} => Spelling(token) = token.literal
         /\ token.type = "STRING" =>
              Spelling(token) = << Quote >> \o WithEscapes(token.literal) \o << Quote >>
         /\ token.type \in Symbols => Spelling(token) = << token.type >>
         /\ token.type = "==" => Spelling(token) = << "=", "=" >>
         /\ token.type = "!=" => Spelling(token) = << "!", "=" >>
         /\ token.type = "EOF" => Spelling(token) = << NUL >>
         /\ \A k \in Keywords : token.type = k.type => Spelling(token) = k.word
<1> DEFINE word == (CHOOSE k \in Keywords : k.type = token.type).word
           quoted == << Quote >> \o WithEscapes(token.literal) \o << Quote >>
           Marked == {"IDENT", "INT", "STRING", "==", "!=", "EOF"}
<1>1. \A t \in Marked : t \notin Symbols
  BY DEF Symbols, Delimiters
<1>2. ASSUME NEW k \in Keywords, token.type = k.type PROVE word = k.word
  <2> DEFINE j == CHOOSE h \in Keywords : h.type = token.type
  <2>1. j \in Keywords /\ j.type = k.type
    BY <1>2
  <2> HIDE DEF j
  <2>2. j.word = k.word
    BY <2>1, KeywordTypes
  <2> QED BY <2>2 DEF j
<1>3. Spelling(token) =
        CASE token.type \in {"IDENT", "INT"} -> token.literal
          [] token.type = "STRING"           -> quoted
          [] token.type \in Symbols          -> << token.type >>
          [] token.type = "=="               -> << "=", "=" >>
          [] token.type = "!="               -> << "!", "=" >>
          [] token.type = "EOF"              -> << NUL >>
          [] OTHER                           -> word
  BY DEF Spelling
<1> HIDE DEF quoted, word
<1>4. token.type \in {"IDENT", "INT"} => Spelling(token) = token.literal
  BY <1>1, <1>3
<1>5. token.type = "STRING" => Spelling(token) = quoted
  BY <1>1, <1>3
<1>6. token.type \in Symbols => Spelling(token) = << token.type >>
  BY <1>1, <1>3
<1>7. /\ token.type = "==" => Spelling(token) = << "=", "=" >>
      /\ token.type = "!=" => Spelling(token) = << "!", "=" >>
      /\ token.type = "EOF" => Spelling(token) = << NUL >>
  BY <1>1, <1>3
<1>8. \A k \in Keywords : token.type = k.type => Spelling(token) = k.word
  <2> SUFFICES ASSUME NEW k \in Keywords, token.type = k.type
               PROVE  Spelling(token) = k.word
    OBVIOUS
  <2>1. token.type \notin Marked /\ token.type \notin Symbols
    BY KeywordTypes
  <2>2. Spelling(token) = word
    BY <1>3, <2>1
  <2> QED BY <1>2, <2>2
<1> QED BY <1>4, <1>5, <1>6, <1>7, <1>8 DEF quoted

Types ==
  {"IDENT", "INT", "STRING", "==", "!=", "EOF", "ILLEGAL"} \cup Symbols \cup { k.type : k \in Keywords }

Tokens == [type : Types, literal : Seq(Characters)]

(* From the first character of a token on: it spells the text up to where  *)
(* the lexer has got to, and no longer lexeme begins there.                *)
Reads(l, r) ==
  LET p == l.position
      q == r.l.position
  IN /\ r.l = At(l, q) /\ q \in (p + 1)..(Len(l.input) + 2)
     /\ r.token \in Tokens
     /\ r.token.type # "EOF" => q <= Len(l.input) + 1
     /\ r.token.type # "ILLEGAL" => Spelling(r.token) = Slice(l, p, q - 1)
     /\ IF r.token.type \in {"EOF", "ILLEGAL"}
        THEN \A end \in p..Len(l.input) : ~ IsLexeme(Slice(l, p, end))
        ELSE /\ IsLexeme(Slice(l, p, q - 1))
             /\ \A end \in q..Len(l.input) : ~ IsLexeme(Slice(l, p, end))

(* A slice that begins here begins with ch.                                *)
LEMMA SliceHere ==
  ASSUME NEW l, Good(l), NEW b \in l.position..(Len(l.input) + 1)
  PROVE  /\ Slice(l, l.position, b) \in Seq(Characters) /\ Slice(l, l.position, b) # << >>
         /\ Len(Slice(l, l.position, b)) = (b - l.position) + 1
         /\ Slice(l, l.position, b)[1] = Ch(l)
         /\ \A i \in 1..((b - l.position) + 1) :
              Slice(l, l.position, b)[i] = CharAt(l, (l.position + i) - 1)
<1> DEFINE p == l.position
           n == Len(l.input) + 1
           s == Slice(l, p, b)
           m == (b - p) + 1
<1>1. p \in Nat /\ n \in Nat /\ p >= 1 /\ p <= n /\ b \in p..n
  BY GoodLaws
<1>2. s \in Seq(Characters) /\ Len(s) = m /\ \A i \in 1..m : s[i] = CharAt(l, (p + i) - 1)
  <2>1. p \in 1..(Len(l.input) + 1) /\ b \in p..(Len(l.input) + 1)
    <3> HIDE DEF p
    <3> QED BY <1>1 DEF n
  <2> QED BY <2>1, SliceLaws
<1> HIDE DEF p, n, s
<1>3. m \in Nat /\ m >= 1 /\ 1 \in 1..m /\ (p + 1) - 1 = p
  BY <1>1
<1>4. s # << >>
  <2> HIDE DEF m
  <2>1. Len(<< >>) = 0
    OBVIOUS
  <2> QED BY <1>2, <1>3, <2>1
<1>5. s[1] = CharAt(l, p)
  <2> HIDE DEF m
  <2>1. s[1] = CharAt(l, (p + 1) - 1)
    BY <1>2, <1>3
  <2> QED BY <1>3, <2>1
<1> QED BY <1>2, <1>4, <1>5 DEF p, s, Ch

(* At the end of the text, or at a NUL in it.                              *)
LEMMA ReadsEof ==
  ASSUME NEW l, Good(l), Ch(l) = NUL
  PROVE  Reads(l, Lexed("EOF", << >>, ReadChar(l)))
<1> DEFINE r == Lexed("EOF", << >>, ReadChar(l))
           p == l.position
           n == Len(l.input) + 1
<1>1. /\ r.token = [type |-> "EOF", literal |-> << >>]
      /\ r.l = At(l, p + 1)
  BY DEF Lexed, ReadChar
<1>2. p \in Nat /\ n \in Nat /\ p >= 1 /\ p <= n
  BY GoodLaws
<1>3. r.l.position = p + 1
  BY <1>1 DEF At, Good
<1>4. Spelling(r.token) = << NUL >>
  <2>1. r.token.type = "EOF"
    BY <1>1
  <2> HIDE DEF r
  <2> QED BY <2>1, Spellings
<1>5. Slice(l, p, (p + 1) - 1) = << NUL >>
  <2>1. (p + 1) - 1 = p /\ p \in p..n /\ p \in 1..n /\ (p - p) + 1 = 1 /\ 1 \in 1..1
    BY <1>2
  <2>2. Slice(l, p, p) \in Seq(Characters) /\ Len(Slice(l, p, p)) = 1 /\ Slice(l, p, p)[1] = NUL
    BY <2>1, SliceHere
  <2>3. Slice(l, p, p) = << NUL >>
    BY <2>2, NulCharacter, SeqEqual
  <2> QED BY <2>1, <2>3
<1>6. ASSUME NEW end \in p..Len(l.input) PROVE ~ IsLexeme(Slice(l, p, end))
  <2>1. end \in l.position..(Len(l.input) + 1)
    BY <1>2
  <2>2. Slice(l, p, end) \in Seq(Characters) /\ Slice(l, p, end) # << >> /\ Slice(l, p, end)[1] = NUL
    BY <2>1, SliceHere
  <2> QED BY <2>2, LexemeKinds, KindsOfCharacter
<1> HIDE DEF r
<1>7. r.token.type = "EOF" /\ r.token.literal = << >>
  BY <1>1
<1>8. p + 1 \in (p + 1)..(Len(l.input) + 2)
  BY <1>2
<1>9. r.token \in Tokens
  BY <1>1 DEF Tokens, Types
<1> QED BY <1>1, <1>3, <1>4, <1>5, <1>6, <1>7, <1>8, <1>9 DEF Reads, r

(* A string, or what is wrong with it.                                     *)
LEMMA ReadsString ==
  ASSUME NEW l, Good(l), Ch(l) = Quote
  PROVE  Reads(l, ReadString(l))
<1> DEFINE p == l.position
           m == Len(l.input)
           e == StringEnd(l)
           r == ReadString(l)
           str == Str(l)[e - 1]
<1>1. p \in Nat /\ m \in Nat /\ p >= 1 /\ p <= m
  <2>1. p \in Nat /\ m \in Nat /\ p >= 1 /\ p <= m + 1
    BY GoodLaws
  <2>2. p # m + 1
    BY FullLaws, KindsOfCharacter DEF Ch
  <2> HIDE DEF p, m
  <2> QED BY <2>1, <2>2
<1>2. e \in (p + 1)..(m + 1) /\ CharAt(l, p) = Quote
  BY <1>1, StringEndLaws DEF Ch
<1>3. \A i \in 1..(m + 1) : At(l, i).position = i
  BY GoodLaws
<1>4. ASSUME NEW end \in p..m, IsLexeme(Slice(l, p, end))
      PROVE  e = end /\ CharAt(l, e) = Quote
  <2>1. end \in l.position..(Len(l.input) + 1)
    BY <1>1
  <2>2. Slice(l, p, end) \in Seq(Characters) /\ Slice(l, p, end) # << >> /\ Slice(l, p, end)[1] = Quote
    BY <2>1, SliceHere
  <2>3. IsQuoted(Slice(l, p, end))
    BY <1>4, <2>2, LexemeKinds
  <2> QED BY <1>1, <2>1, <2>3, QuotedEnds
<1>5. CASE CharAt(l, e) = Quote
  <2>1. e <= m
    <3>1. e # m + 1
      BY <1>5, FullLaws, KindsOfCharacter
    <3> HIDE DEF p, m, e
    <3> QED BY <1>1, <1>2, <3>1
  <2>2. r = Lexed("STRING", str, At(l, e + 1))
    BY <1>5 DEF ReadString
  <2>3. /\ e + 1 \in 1..(m + 1) /\ e + 1 \in (p + 1)..(m + 2) /\ e + 1 <= m + 1 /\ (e + 1) - 1 = e
        /\ e - 1 \in p..(e - 1) /\ e - 1 \in p..m /\ p \in 1..(m + 1) /\ e \in p..(m + 1)
        /\ p + 1 \in 1..(m + 1) /\ e \in (p + 1)..(m + 1) /\ p <= m
    <3> HIDE DEF p, m, e, str
    <3> QED BY <1>1, <1>2, <2>1
  <2>4. r.token = [type |-> "STRING", literal |-> str] /\ r.l = At(l, e + 1) /\ r.l.position = e + 1
    <3>1. At(l, e + 1).position = e + 1
      <4> HIDE DEF p, m, e, str
      <4> QED BY <1>3, <2>3
    <3> HIDE DEF p, m, e, str
    <3> QED BY <2>2, <3>1 DEF Lexed
  <2>5. str \in Seq(Characters)
    BY <1>1, <2>3, StrLaws
  <2>6. Spelling(r.token) = Slice(l, p, e)
    <3>1. Spelling(r.token) = << Quote >> \o WithEscapes(str) \o << Quote >>
      <4>1. r.token.type = "STRING" /\ r.token.literal = str
        <5> HIDE DEF r, str
        <5> QED BY <2>4
      <4> HIDE DEF r, str
      <4> QED BY <4>1, Spellings
    <3>2. WithEscapes(str) = Slice(l, p + 1, e - 1)
      <4>1. WithEscapes(str) \o Pending(l, e - 1) = Slice(l, p + 1, e - 1)
        BY <2>3, StringSoFar
      <4>2. Pending(l, e - 1) = << >>
        BY <2>3, StringStops DEF Pending
      <4>3. WithEscapes(str) \in Seq(Characters)
        <5> HIDE DEF str
        <5> QED BY <2>5, NulCharacter, WithEscapesLaws
      <4>4. WithEscapes(str) \o << >> = WithEscapes(str)
        BY <4>3, ConcatEmptySeq
      <4> QED BY <4>1, <4>2, <4>4
    <3>3. Slice(l, p, e) = Slice(l, p, e - 1) \o << Quote >>
      BY <1>5, <2>3, SliceEnds
    <3>4. Slice(l, p, e - 1) = << Quote >> \o Slice(l, p + 1, e - 1)
      <4>1. e - 1 \in p..(m + 1)
        BY <2>3
      <4> QED BY <1>2, <2>3, <4>1, SliceEnds
    <3> QED BY <3>1, <3>2, <3>3, <3>4
  <2>7. IsLexeme(Slice(l, p, e))
    <3>1. IsQuoted(Slice(l, p, e))
      BY <1>2, <1>5, <2>3, FinishedIsQuoted
    <3> QED BY <3>1 DEF IsLexeme
  <2>8. \A end \in (e + 1)..m : ~ IsLexeme(Slice(l, p, end))
    <3> SUFFICES ASSUME NEW end \in (e + 1)..m, IsLexeme(Slice(l, p, end))
                 PROVE  FALSE
      OBVIOUS
    <3>1. end \in p..m /\ e # end
      <4> HIDE DEF p, m, e
      <4> QED BY <1>1, <2>3
    <3> QED BY <1>4, <3>1
  <2> HIDE DEF r, p, m, e, str
  <2>9. r.token.type = "STRING" /\ r.token.literal = str
    BY <2>4
  <2>10. r.token \in Tokens
    BY <2>4, <2>5 DEF Tokens, Types
  <2>11. Reads(l, r)
    BY <2>3, <2>4, <2>6, <2>7, <2>8, <2>9, <2>10 DEF Reads, p, m
  <2> QED BY <2>11 DEF r
<1>6. CASE CharAt(l, e) # Quote
  <2>1. r = Lexed("ILLEGAL", << >>, At(l, e))
    BY <1>6 DEF ReadString
  <2>2. e \in 1..(m + 1) /\ e \in (p + 1)..(m + 2) /\ e <= m + 1
    <3> HIDE DEF p, m, e
    <3> QED BY <1>1, <1>2
  <2>3. r.token = [type |-> "ILLEGAL", literal |-> << >>] /\ r.l = At(l, e) /\ r.l.position = e
    <3>1. At(l, e).position = e
      <4> HIDE DEF p, m, e
      <4> QED BY <1>3, <2>2
    <3> HIDE DEF p, m, e
    <3> QED BY <2>1, <3>1 DEF Lexed
  <2>4. \A end \in p..m : ~ IsLexeme(Slice(l, p, end))
    BY <1>4, <1>6
  <2> HIDE DEF r, p, m, e
  <2>5. r.token.type = "ILLEGAL" /\ r.token.literal = << >>
    BY <2>3
  <2>6. r.token \in Tokens
    BY <2>3 DEF Tokens, Types
  <2>7. Reads(l, r)
    BY <2>2, <2>3, <2>4, <2>5, <2>6 DEF Reads, p, m
  <2> QED BY <2>7 DEF r
<1> QED BY <1>5, <1>6

(* readSequence reads all of the characters that belong, and no others.    *)
LEMMA SequenceLaws ==
  ASSUME NEW l, Good(l), NEW chars, NUL \notin chars, Ch(l) \in chars
  PROVE  LET p == l.position
             m == Len(l.input)
             e == EndOf(l, chars)
         IN /\ p \in Nat /\ m \in Nat /\ p >= 1 /\ p <= m /\ e \in (p + 1)..(m + 1)
            /\ Skipped(l, chars) = At(l, e) /\ At(l, e).position = e
            /\ Sequence(l, chars) = Slice(l, p, e - 1)
            /\ \A end \in p..m :
                 (\A i \in 1..Len(Slice(l, p, end)) : Slice(l, p, end)[i] \in chars) <=> end < e
<1> DEFINE p == l.position
           m == Len(l.input)
           e == EndOf(l, chars)
           All(s) == \A i \in 1..Len(s) : s[i] \in chars
<1>1. /\ e \in p..(m + 1) /\ CharAt(l, e) \notin chars
      /\ \A j \in p..(e - 1) : CharAt(l, j) \in chars
  BY EndOfLaws
<1>2. p \in Nat /\ m \in Nat /\ p >= 1 /\ p <= m + 1
  BY GoodLaws
<1>3. p # e /\ p # m + 1
  BY <1>1, FullLaws DEF Ch
<1>4. p <= m /\ e \in (p + 1)..(m + 1) /\ e \in 1..(m + 1)
  <2> HIDE DEF p, m, e
  <2> QED BY <1>1, <1>2, <1>3
<1>5. Skipped(l, chars) = At(l, e) /\ At(l, e).position = e
  BY <1>4, GoodLaws DEF Skipped
<1>6. Sequence(l, chars) = Slice(l, p, e - 1)
  <2>1. p \in 1..m /\ e - 1 \in 1..m
    <3> HIDE DEF p, m, e
    <3> QED BY <1>2, <1>4
  <2> QED BY <2>1, TextSlice DEF Sequence
<1>7. ASSUME NEW end \in p..m PROVE All(Slice(l, p, end)) <=> end < e
  <2> DEFINE s == Slice(l, p, end)
             k == (end - p) + 1
  <2>1. Len(s) = k /\ \A i \in 1..k : s[i] = CharAt(l, (p + i) - 1)
    <3>1. end \in l.position..(Len(l.input) + 1)
      BY <1>2
    <3> QED BY <3>1, SliceHere
  <2> HIDE DEF p, m, e, s
  <2>2. ASSUME end < e PROVE All(s)
    <3> SUFFICES ASSUME NEW i \in 1..k PROVE s[i] \in chars
      BY <2>1
    <3>1. (p + i) - 1 \in p..(e - 1)
      BY <1>2, <1>4, <2>2
    <3> QED BY <1>1, <2>1, <3>1
  <2>3. ASSUME All(s), ~ (end < e) PROVE FALSE
    <3> DEFINE i == (e - p) + 1
    <3>1. i \in 1..k /\ (p + i) - 1 = e
      BY <1>2, <1>4, <2>3
    <3> HIDE DEF i, k
    <3>2. s[i] = CharAt(l, e)
      BY <2>1, <3>1
    <3> QED BY <1>1, <2>1, <2>3, <3>1, <3>2
  <2>4. All(s) <=> end < e
    <3> HIDE DEF All
    <3> QED BY <2>2, <2>3
  <2> QED BY <2>4 DEF s
<1> QED BY <1>2, <1>4, <1>5, <1>6, <1>7

(* So what is read is the longest name, or the longest number.             *)
LEMMA ReadsSequence ==
  ASSUME NEW l, Good(l), NEW chars, NUL \notin chars, Ch(l) \in chars, NEW type,
         \A s \in Seq(Characters) :
           s # << >> /\ s[1] \in chars => (IsLexeme(s) <=> \A i \in 1..Len(s) : s[i] \in chars),
         Spelling([type |-> type, literal |-> Sequence(l, chars)]) = Sequence(l, chars),
         type \in Types, type \notin {"EOF", "ILLEGAL"}
  PROVE  Reads(l, Lexed(type, Sequence(l, chars), Skipped(l, chars)))
<1> DEFINE p == l.position
           m == Len(l.input)
           e == EndOf(l, chars)
           seq == Sequence(l, chars)
           r == Lexed(type, seq, Skipped(l, chars))
           All(s) == \A i \in 1..Len(s) : s[i] \in chars
<1>1. /\ p \in Nat /\ m \in Nat /\ p >= 1 /\ p <= m /\ e \in (p + 1)..(m + 1)
      /\ Skipped(l, chars) = At(l, e) /\ At(l, e).position = e
      /\ seq = Slice(l, p, e - 1)
      /\ \A end \in p..m : All(Slice(l, p, end)) <=> end < e
  BY SequenceLaws
<1>2. ASSUME NEW end \in p..m PROVE IsLexeme(Slice(l, p, end)) <=> end < e
  <2>1. end \in l.position..(Len(l.input) + 1)
    BY <1>1
  <2>2. /\ Slice(l, p, end) \in Seq(Characters) /\ Slice(l, p, end) # << >>
        /\ Slice(l, p, end)[1] = Ch(l)
    BY <2>1, SliceHere
  <2>3. IsLexeme(Slice(l, p, end)) <=> All(Slice(l, p, end))
    BY <2>2
  <2> HIDE DEF All
  <2> QED BY <1>1, <2>3
<1> HIDE DEF p, m, e, seq, All
<1>3. seq \in Seq(Characters)
  <2>1. e - 1 \in p..(m + 1)
    BY <1>1
  <2>2. e - 1 \in l.position..(Len(l.input) + 1)
    BY <2>1 DEF p, m
  <2>3. Slice(l, p, e - 1) \in Seq(Characters)
    BY <2>2, SliceHere DEF p
  <2> QED BY <1>1, <2>3
<1>4. /\ e \in (p + 1)..(m + 2) /\ e <= m + 1 /\ e - 1 \in p..m /\ e - 1 < e
      /\ \A end \in e..m : end \in p..m /\ ~ (end < e)
  BY <1>1
<1>5. r.token = [type |-> type, literal |-> seq] /\ r.l = At(l, e) /\ r.l.position = e
  BY <1>1 DEF Lexed
<1>6. Spelling(r.token) = Slice(l, p, e - 1)
  BY <1>1, <1>5 DEF seq
<1> HIDE DEF r
<1>7. r.token.type = type /\ r.token.literal = seq
  BY <1>5
<1>8. IsLexeme(Slice(l, p, e - 1)) /\ \A end \in e..m : ~ IsLexeme(Slice(l, p, end))
  BY <1>2, <1>4
<1>9. r.token \in Tokens
  BY <1>3, <1>5 DEF Tokens
<1>10. Reads(l, r)
  BY <1>4, <1>5, <1>6, <1>7, <1>8, <1>9 DEF Reads, p, m
<1> QED BY <1>10 DEF r, seq

(* A name or a keyword.                                                    *)
LEMMA ReadsWord ==
  ASSUME NEW l, Good(l), Ch(l) \in Letters
  PROVE  Reads(l, Word(l))
<1> DEFINE word == Sequence(l, Letters)
           type == LookupIdent(word)
           token == [type |-> type, literal |-> word]
<1>1. Spelling(token) = word /\ type \in Types /\ type \notin {"EOF", "ILLEGAL"}
  <2>1. CASE \E k \in Keywords : k.word = word
    <3> DEFINE k == CHOOSE h \in Keywords : h.word = word
    <3>1. k \in Keywords /\ k.word = word
      BY <2>1
    <3>2. type = k.type
      BY <2>1 DEF LookupIdent
    <3> HIDE DEF k, word, type
    <3>3. token.type = k.type
      BY <3>2
    <3> HIDE DEF token
    <3> QED BY <3>1, <3>2, <3>3, Spellings, KeywordTypes DEF Types
  <2>2. CASE ~ \E k \in Keywords : k.word = word
    <3>1. type = "IDENT"
      BY <2>2 DEF LookupIdent
    <3> HIDE DEF word, type
    <3>2. token.type = "IDENT" /\ token.literal = word
      BY <3>1
    <3> HIDE DEF token
    <3> QED BY <3>1, <3>2, Spellings DEF Types
  <2> QED BY <2>1, <2>2
<1>2. \A s \in Seq(Characters) :
        s # << >> /\ s[1] \in Letters => (IsLexeme(s) <=> \A i \in 1..Len(s) : s[i] \in Letters)
  BY LexemeKinds
<1>3. NUL \notin Letters
  BY KindsOfCharacter
<1> HIDE DEF type
<1>4. Reads(l, Lexed(type, Sequence(l, Letters), Skipped(l, Letters)))
  BY <1>1, <1>2, <1>3, ReadsSequence
<1> QED BY <1>4 DEF Word, type

(* A number.                                                               *)
LEMMA ReadsNumber ==
  ASSUME NEW l, Good(l), Ch(l) \in Digits
  PROVE  Reads(l, Number(l))
<1> DEFINE number == Sequence(l, Digits)
           type == "INT"
           token == [type |-> type, literal |-> number]
<1>1. Spelling(token) = number
  <2>1. token.type = "INT" /\ token.literal = number
    <3> HIDE DEF number
    <3> QED OBVIOUS
  <2> HIDE DEF token, number
  <2> QED BY <2>1, Spellings
<1>2. \A s \in Seq(Characters) :
        s # << >> /\ s[1] \in Digits => (IsLexeme(s) <=> \A i \in 1..Len(s) : s[i] \in Digits)
  BY LexemeKinds
<1>3. NUL \notin Digits /\ type \in Types /\ type \notin {"EOF", "ILLEGAL"}
  BY KindsOfCharacter DEF Types
<1> HIDE DEF type
<1>4. Reads(l, Lexed(type, Sequence(l, Digits), Skipped(l, Digits)))
  BY <1>1, <1>2, <1>3, ReadsSequence
<1> QED BY <1>4 DEF Number, type

(* What is made of one character or two.                                   *)
LEMMA ReadsOperator ==
  ASSUME NEW l, Good(l), Ch(l) \notin Letters, Ch(l) \notin Digits, Ch(l) # Quote, Ch(l) # NUL
  PROVE  Reads(l, Operator(l))
<1> DEFINE p == l.position
           m == Len(l.input)
           c == Ch(l)
           r == Operator(l)
           S(end) == Slice(l, p, end)
<1>1. p \in Nat /\ m \in Nat /\ p >= 1 /\ p <= m
  <2>1. p \in Nat /\ m \in Nat /\ p >= 1 /\ p <= m + 1
    BY GoodLaws
  <2>2. p # m + 1
    BY FullLaws DEF Ch
  <2> HIDE DEF p, m
  <2>3. p <= m
    BY <2>1, <2>2
  <2> QED BY <2>1, <2>3
<1>2. c \in Characters /\ c = CharAt(l, p)
  <2>1. p \in 1..(Len(l.input) + 1)
    BY <1>1
  <2> QED BY <2>1, FullLaws DEF Ch
<1>3. ASSUME NEW end \in p..m
      PROVE  /\ S(end) \in Seq(Characters) /\ S(end) # << >> /\ Len(S(end)) = (end - p) + 1
             /\ S(end)[1] = c
             /\ end > p => S(end)[2] = PeekChar(l)
  <2>1. end \in l.position..(Len(l.input) + 1)
    BY <1>1
  <2>2. /\ S(end) \in Seq(Characters) /\ S(end) # << >> /\ Len(S(end)) = (end - p) + 1
        /\ S(end)[1] = c
        /\ \A i \in 1..((end - p) + 1) : S(end)[i] = CharAt(l, (p + i) - 1)
    BY <2>1, SliceHere
  <2>3. ASSUME end > p PROVE S(end)[2] = PeekChar(l)
    <3>1. 2 \in 1..((end - p) + 1) /\ (p + 2) - 1 = p + 1
      <4> HIDE DEF p, m, S, c
      <4> QED BY <1>1, <2>3
    <3>2. S(end)[2] = CharAt(l, (p + 2) - 1)
      BY <2>2, <3>1
    <3> QED BY <3>1, <3>2 DEF PeekChar
  <2> QED BY <2>2, <2>3
<1>4. ReadChar(l) = At(l, p + 1) /\ At(l, p + 1).position = p + 1
  <2>1. p + 1 \in 1..(m + 1)
    <3> HIDE DEF p, m
    <3> QED BY <1>1
  <2> QED BY <2>1, GoodLaws DEF ReadChar
<1>5. /\ p \in p..m /\ p + 1 \in (p + 1)..(m + 2) /\ p + 1 <= m + 1 /\ (p + 1) - 1 = p /\ (p - p) + 1 = 1
      /\ \A end \in (p + 1)..m : end \in p..m /\ end > p
  <2> HIDE DEF p, m, c, r, S
  <2> QED BY <1>1
<1> HIDE DEF r
<1>6. CASE c \in {"=", "!"} /\ PeekChar(l) = "="
  <2> DEFINE type == IF c = "=" THEN "==" ELSE "!="
  <2>1. p + 1 <= m
    <3>1. p # m
      <4>1. "=" # NUL
        BY KindsOfCharacter
      <4> QED BY <1>6, <4>1, FullLaws DEF PeekChar
    <3> HIDE DEF p, m
    <3> QED BY <1>1, <3>1
  <2>2. /\ p + 1 \in p..m /\ p + 2 \in (p + 1)..(m + 2) /\ p + 2 <= m + 1 /\ (p + 2) - 1 = p + 1
        /\ p + 2 \in 1..(m + 1) /\ ((p + 1) - p) + 1 = 2 /\ p + 1 > p /\ (p + 1) + 1 = p + 2
        /\ \A end \in (p + 2)..m : end \in p..m /\ (end - p) + 1 > 2
    <3> HIDE DEF p, m, c, S, type
    <3> QED BY <1>1, <2>1
  <2>3. ReadChar(ReadChar(l)) = At(l, p + 2) /\ At(l, p + 2).position = p + 2
    <3>1. At(l, p + 2).position = p + 2
      BY <2>2, GoodLaws
    <3>2. At(At(l, p + 1), p + 2) = At(l, p + 2)
      BY DEF At, Good
    <3>3. ReadChar(ReadChar(l)) = At(At(l, p + 1), p + 2)
      <4>1. ReadChar(At(l, p + 1)) = At(At(l, p + 1), p + 2)
        <5> HIDE DEF p
        <5>1. ReadChar(At(l, p + 1)) = At(At(l, p + 1), (p + 1) + 1)
          BY <1>4 DEF ReadChar
        <5> QED BY <2>2, <5>1
      <4> QED BY <1>4, <4>1
    <3> QED BY <3>1, <3>2, <3>3
  <2>4. r.token = [type |-> type, literal |-> << c, "=" >>] /\ r.l = At(l, p + 2) /\ r.l.position = p + 2
    <3>1. r = Lexed(type, << c, "=" >>, ReadChar(ReadChar(l)))
      BY <1>6 DEF Operator, r
    <3> HIDE DEF p, c, type
    <3> QED BY <2>3, <3>1 DEF Lexed
  <2> HIDE DEF p, m, c, S
  <2>5. r.token.type = type /\ r.token.literal = << c, "=" >>
    <3> HIDE DEF type
    <3> QED BY <2>4
  <2>6. Spelling(r.token) = << c, "=" >>
    <3>1. CASE c = "="
      BY <2>5, <3>1, Spellings
    <3>2. CASE c = "!"
      BY <2>5, <3>2, Spellings
    <3> QED BY <1>6, <3>1, <3>2
  <2>7. /\ S(p + 1) \in Seq(Characters) /\ S(p + 1) # << >> /\ Len(S(p + 1)) = 2
        /\ S(p + 1)[1] = c /\ S(p + 1)[2] = "="
    BY <1>3, <1>6, <2>2
  <2>8. S(p + 1) = << c, "=" >>
    <3>1. << c, "=" >> \in Seq(Characters) /\ Len(<< c, "=" >>) = 2
      BY <1>2, KindsOfCharacter
    <3> QED BY <2>7, <3>1, SeqEqual
  <2>9. c \in Symbols
    BY <1>6, KindsOfCharacter
  <2>10. IsLexeme(S(p + 1))
    BY <1>6, <2>7, <2>9, LexemeKinds
  <2>11. ASSUME NEW end \in (p + 2)..m PROVE ~ IsLexeme(S(end))
    <3>1. S(end) \in Seq(Characters) /\ S(end) # << >> /\ Len(S(end)) = (end - p) + 1 /\ S(end)[1] = c
      BY <1>3, <2>2
    <3>2. (end - p) + 1 > 2
      BY <2>2
    <3>3. ~ (Len(S(end)) = 1) /\ ~ (Len(S(end)) = 2)
      BY <3>1, <3>2
    <3> QED BY <2>9, <3>1, <3>3, LexemeKinds
  <2>12. r.token.type \notin {"EOF", "ILLEGAL"} /\ type \in Types
    BY <2>5 DEF Types
  <2> HIDE DEF type
  <2>13. r.token \in Tokens
    <3>1. << c, "=" >> \in Seq(Characters)
      BY <1>2, KindsOfCharacter
    <3> QED BY <2>4, <2>12, <3>1 DEF Tokens
  <2>14. Reads(l, r)
    BY <2>2, <2>4, <2>5, <2>6, <2>8, <2>10, <2>11, <2>12, <2>13 DEF Reads, p, m, S
  <2> QED BY <2>14 DEF r
<1>7. CASE ~ (c \in {"=", "!"} /\ PeekChar(l) = "=")
  <2> DEFINE type == IF c \in Symbols THEN c ELSE "ILLEGAL"
  <2>1. r.token = [type |-> type, literal |-> << c >>] /\ r.l = At(l, p + 1) /\ r.l.position = p + 1
    <3>1. r = Lexed(type, << c >>, ReadChar(l))
      BY <1>7, Zenon DEF Operator, r
    <3> HIDE DEF p, c, type
    <3> QED BY <1>4, <3>1 DEF Lexed
  <2> HIDE DEF p, m, c, S
  <2>2. r.token.type = type /\ r.token.literal = << c >>
    <3> HIDE DEF type
    <3> QED BY <2>1
  <2>3. r.token \in Tokens
    <3>1. type \in Types /\ << c >> \in Seq(Characters)
      BY <1>2 DEF Types
    <3> HIDE DEF type
    <3> QED BY <2>1, <3>1 DEF Tokens
  <2>4. CASE c \in Symbols
    <3>1. S(p) \in Seq(Characters) /\ S(p) # << >> /\ Len(S(p)) = 1 /\ S(p)[1] = c
      BY <1>3, <1>5
    <3>2. S(p) = << c >>
      <4>1. << c >> \in Seq(Characters) /\ Len(<< c >>) = 1
        BY <1>2
      <4> QED BY <3>1, <4>1, SeqEqual
    <3>3. Spelling(r.token) = << c >>
      BY <2>2, <2>4, Spellings
    <3>4. IsLexeme(S(p))
      BY <2>4, <3>1, LexemeKinds
    <3>5. ASSUME NEW end \in (p + 1)..m PROVE ~ IsLexeme(S(end))
      <4>1. /\ S(end) \in Seq(Characters) /\ S(end) # << >> /\ Len(S(end)) = (end - p) + 1
            /\ S(end)[1] = c /\ S(end)[2] = PeekChar(l)
        BY <1>3, <1>5
      <4>2. ~ ((end - p) + 1 = 1)
        BY <1>1
      <4> QED BY <1>7, <2>4, <4>1, <4>2, LexemeKinds
    <3>6. \A s \in Symbols : s \notin {"EOF", "ILLEGAL"}
      BY DEF Symbols, Delimiters
    <3>7. r.token.type \notin {"EOF", "ILLEGAL"}
      BY <2>2, <2>4, <3>6
    <3> HIDE DEF type
    <3>8. Reads(l, r)
      BY <1>5, <2>1, <2>2, <2>3, <3>2, <3>3, <3>4, <3>5, <3>7 DEF Reads, p, m, S
    <3> QED BY <3>8 DEF r
  <2>5. CASE c \notin Symbols
    <3>1. ASSUME NEW end \in p..m PROVE ~ IsLexeme(S(end))
      <4>1. S(end) \in Seq(Characters) /\ S(end) # << >> /\ S(end)[1] = c
        BY <1>3
      <4>2. c \notin Letters \cup Digits \cup Symbols \cup {Quote}
        BY <2>5 DEF c
      <4> QED BY <4>1, <4>2, LexemeKinds
    <3>2. r.token.type = "ILLEGAL"
      BY <2>2, <2>5
    <3> HIDE DEF type
    <3>3. Reads(l, r)
      BY <1>5, <2>1, <2>2, <2>3, <3>1, <3>2 DEF Reads, p, m, S
    <3> QED BY <3>3 DEF r
  <2> QED BY <2>4, <2>5
<1> QED BY <1>6, <1>7

(* NextToken skips the whitespace and reads what is behind it.             *)
LEMMA NextTokenReads ==
  ASSUME NEW before, Good(before)
  PROVE  LET l == Skipped(before, Whitespace)
         IN /\ Good(l) /\ l.input = before.input /\ l.position = EndOf(before, Whitespace)
            /\ l.position >= before.position
            /\ Reads(l, NextToken(before))
<1> DEFINE l == Skipped(before, Whitespace)
           e == EndOf(before, Whitespace)
<1>1. NUL \notin Whitespace
  BY KindsOfCharacter
<1>2. /\ e \in before.position..(Len(before.input) + 1)
      /\ e \in 1..(Len(before.input) + 1) /\ e >= before.position
  <2>1. e \in before.position..(Len(before.input) + 1)
    BY <1>1, EndOfLaws
  <2> HIDE DEF e
  <2> QED BY <2>1, GoodLaws
<1>3. Good(l) /\ l.input = before.input /\ l.position = e
  BY <1>2, GoodLaws DEF Skipped
<1> HIDE DEF l, e
<1>4. CASE Ch(l) = Quote
  <2>1. NextToken(before) = ReadString(l)
    BY <1>4, KindsOfCharacter DEF NextToken, l
  <2> QED BY <1>2, <1>3, <1>4, <2>1, ReadsString DEF l, e
<1>5. CASE Ch(l) = NUL
  <2>1. NextToken(before) = Lexed("EOF", << >>, ReadChar(l))
    BY <1>5, KindsOfCharacter DEF NextToken, l
  <2> QED BY <1>2, <1>3, <1>5, <2>1, ReadsEof DEF l, e
<1>6. CASE Ch(l) \in Letters
  <2>1. NextToken(before) = Word(l)
    BY <1>6, KindsOfCharacter DEF NextToken, l
  <2> QED BY <1>2, <1>3, <1>6, <2>1, ReadsWord DEF l, e
<1>7. CASE Ch(l) \in Digits
  <2>1. NextToken(before) = Number(l)
    BY <1>7, KindsOfCharacter DEF NextToken, l
  <2> QED BY <1>2, <1>3, <1>7, <2>1, ReadsNumber DEF l, e
<1>8. CASE Ch(l) \notin Letters /\ Ch(l) \notin Digits /\ Ch(l) # Quote /\ Ch(l) # NUL
  <2>1. NextToken(before) = Operator(l)
    BY <1>8 DEF NextToken, l
  <2> QED BY <1>2, <1>3, <1>8, <2>1, ReadsOperator DEF l, e
<1> QED BY <1>4, <1>5, <1>6, <1>7, <1>8

-----------------------------------------------------------------------------
(* The lexer behind a text.                                                *)

(* The lexer goes past the NUL only with EOF, and there is a character     *)
(* behind it for each token.                                               *)
Inv ==
  /\ lexer \in [input : Texts, position : Nat \ {0}]
  /\ output \in Seq(Tokens)
  /\ ~ AtEnd => lexer.position <= Len(lexer.input) + 1
  /\ lexer.position <= Len(lexer.input) + 2
  /\ Len(output) < lexer.position

(* A text is a sequence of characters.                                     *)
LEMMA InvGood ==
  ASSUME Inv
  PROVE  /\ lexer.input \in Seq(Characters) /\ Len(lexer.input) \in Nat /\ Len(output) \in Nat
         /\ lexer.position \in Nat /\ lexer.position >= 1
         /\ ~ AtEnd => Good(lexer)
<1>1. lexer.input \in Seq(Characters) /\ lexer.position \in Nat \ {0}
  BY TextsAssumption DEF Inv
<1>2. Len(lexer.input) \in Nat /\ Len(output) \in Nat
  BY <1>1, LenProperties DEF Inv
<1>3. lexer.position \in Nat /\ lexer.position >= 1
  BY <1>1
<1>4. lexer \in [input : Seq(Characters), position : Nat \ {0}]
  BY <1>1 DEF Inv
<1> QED BY <1>1, <1>2, <1>3, <1>4 DEF Inv, Good

(* What an Ask does.                                                       *)
LEMMA AskReads ==
  ASSUME Inv, Ask
  PROVE  /\ Good(Skipped(lexer, Whitespace)) /\ Skipped(lexer, Whitespace).input = lexer.input
         /\ Skipped(lexer, Whitespace).position = Begin /\ Begin >= lexer.position
         /\ Reads(Skipped(lexer, Whitespace), NextToken(lexer))
         /\ lexer' = NextToken(lexer).l /\ lexer'.input = lexer.input
         /\ NextToken(lexer).token \in Tokens
         /\ output' = Append(output, NextToken(lexer).token)
         /\ output' \in Seq(Tokens) /\ Len(output') = Len(output) + 1
         /\ output' # << >> /\ Latest' = NextToken(lexer).token
<1> DEFINE l == Skipped(lexer, Whitespace)
           r == NextToken(lexer)
<1>1. Good(lexer)
  BY InvGood DEF Ask
<1>2. Good(l) /\ l.input = lexer.input /\ l.position = Begin /\ Begin >= lexer.position /\ Reads(l, r)
  BY <1>1, NextTokenReads DEF Begin
<1>3. lexer' = r.l /\ output' = Append(output, r.token)
  BY DEF Ask
<1> HIDE DEF l, r
<1>4. r.token \in Tokens
  BY <1>2 DEF Reads
<1>5. /\ output' \in Seq(Tokens) /\ output' # << >> /\ Len(output') = Len(output) + 1
      /\ output'[Len(output) + 1] = r.token
  BY <1>3, <1>4, AppendProperties DEF Inv
<1>6. Latest' = r.token
  BY <1>5 DEF Latest
<1>7. lexer'.input = lexer.input
  <2>1. r.l = At(l, r.l.position)
    BY <1>2 DEF Reads
  <2> QED BY <1>2, <1>3, <2>1 DEF At, Good
<1> QED BY <1>2, <1>3, <1>4, <1>5, <1>6, <1>7 DEF l, r

(* The invariant is inductive.                                             *)
LEMMA InvInit == Init => Inv
<1> SUFFICES ASSUME Init PROVE Inv
  OBVIOUS
<1>1. PICK text \in Texts : lexer = NewLexer(text) /\ output = << >>
  BY DEF Init
<1>2. Len(text) \in Nat
  <2>1. text \in Seq(Characters)
    BY TextsAssumption
  <2> QED BY <2>1, LenProperties
<1>3. lexer.input = text /\ lexer.position = 1 /\ lexer \in [input : Texts, position : Nat \ {0}]
  BY <1>1 DEF NewLexer
<1>4. output \in Seq(Tokens) /\ Len(output) = 0
  BY <1>1
<1> QED BY <1>2, <1>3, <1>4 DEF Inv

(* And every step keeps it.                                                *)
LEMMA InvStep == Inv /\ [Next]_vars => Inv'
<1> SUFFICES ASSUME Inv, [Next]_vars PROVE Inv'
  OBVIOUS
<1>1. CASE Ask
  <2> DEFINE l == Skipped(lexer, Whitespace)
             r == NextToken(lexer)
             q == r.l.position
  <2>1. /\ Good(l) /\ l.input = lexer.input /\ l.position = Begin /\ Begin >= lexer.position
        /\ Reads(l, r) /\ lexer' = r.l /\ lexer'.input = lexer.input
        /\ output' \in Seq(Tokens) /\ Len(output') = Len(output) + 1
        /\ output' # << >> /\ Latest' = r.token
    BY <1>1, AskReads
  <2> HIDE DEF l, r
  <2>2. /\ q \in (Begin + 1)..(Len(lexer.input) + 2)
        /\ r.token.type # "EOF" => q <= Len(lexer.input) + 1
        /\ r.l = At(l, q)
    BY <2>1 DEF Reads
  <2>3. Begin \in Nat /\ Len(lexer.input) \in Nat /\ Len(output) \in Nat /\ lexer.position \in Nat
    BY <2>1, InvGood, GoodLaws
  <2>4. Len(output) < lexer.position
    BY DEF Inv
  <2>5. q \in Nat \ {0} /\ q <= Len(lexer.input) + 2 /\ Len(output) + 1 < q
    <3> HIDE DEF q
    <3> QED BY <2>1, <2>2, <2>3, <2>4
  <2>6. lexer' \in [input : Texts, position : Nat \ {0}] /\ lexer'.position = q
    <3>1. r.l = [l EXCEPT !.position = q]
      BY <2>2 DEF At
    <3>2. l \in [input : Seq(Characters), position : Nat \ {0}]
      BY <2>1 DEF Good
    <3>3. lexer.input \in Texts
      BY DEF Inv
    <3>4. l = [input |-> lexer.input, position |-> l.position]
      BY <2>1, <3>2
    <3> HIDE DEF q
    <3>5. r.l = [input |-> lexer.input, position |-> q]
      BY <3>1, <3>4
    <3> QED BY <2>1, <2>5, <3>3, <3>5
  <2>7. ~ AtEnd' => r.token.type # "EOF"
    BY <2>1 DEF AtEnd
  <2> QED BY <2>1, <2>2, <2>5, <2>6, <2>7 DEF Inv
<1>2. CASE UNCHANGED vars
  BY <1>2 DEF Inv, vars, AtEnd, Latest
<1> QED BY <1>1, <1>2 DEF Next, Done

(* What a lexer is and has given (lexer.go:9-14, 22-102).                  *)
THEOREM LexerInvariant == Spec => []Inv
<1> QED BY InvInit, InvStep, PTL DEF Spec

(* After as many tokens as there are characters the next one is EOF,       *)
(* whatever is wrong in the text (lexer.go:81, 100).                       *)
THEOREM EndsInTime == Spec => []EofComesInTime
<1>1. Inv => EofComesInTime
  <2> SUFFICES ASSUME Inv, TooMany, ~ AtEnd PROVE FALSE
    BY DEF EofComesInTime
  <2>1. Len(output) \in Nat /\ Len(lexer.input) \in Nat /\ lexer.position \in Nat
    BY InvGood
  <2>2. Len(output) > Len(lexer.input) /\ Len(output) < lexer.position
        /\ lexer.position <= Len(lexer.input) + 1
    BY DEF Inv, TooMany
  <2> QED BY <2>1, <2>2
<1> QED BY <1>1, LexerInvariant, PTL

(* A step that changes something is an Ask.                                *)
LEMMA OnlyAsk == Next /\ vars' # vars => Ask
BY DEF Next, Done

(* What the lexer says of the text is what stands there (lexer.go:22-102,  *)
(* 120-144).                                                               *)
THEOREM Spelled == Spec => TokensSpellTheText
<1>1. Inv /\ [Next]_vars =>
        [vars' # vars /\ Latest'.type # "ILLEGAL" => Spelling(Latest') = Text(lexer'.position - 1)]_vars
  <2> SUFFICES ASSUME Inv, Next, vars' # vars, Latest'.type # "ILLEGAL"
               PROVE  Spelling(Latest') = Text(lexer'.position - 1)
    OBVIOUS
  <2> DEFINE l == Skipped(lexer, Whitespace)
             r == NextToken(lexer)
  <2>1. /\ l.input = lexer.input /\ l.position = Begin /\ Reads(l, r)
        /\ lexer' = r.l /\ Latest' = r.token
    BY OnlyAsk, AskReads
  <2> HIDE DEF l, r
  <2>2. Spelling(r.token) = Slice(l, Begin, r.l.position - 1)
    BY <2>1 DEF Reads
  <2> QED BY <2>1, <2>2 DEF Text, Slice, Full
<1> QED BY <1>1, LexerInvariant, PTL DEF Spec, TokensSpellTheText

(* No token ends early, and no text is refused that begins with one        *)
(* (lexer.go:29, 42, 87-94, 120-144, 164).                                 *)
THEOREM Longest == Spec => TokensAreLongest
<1> DEFINE A == vars' # vars =>
                  IF Latest'.type \in {"EOF", "ILLEGAL"}
                  THEN \A end \in Begin..Len(lexer.input) : ~ IsLexeme(Text(end))
                  ELSE /\ IsLexeme(Text(lexer'.position - 1))
                       /\ \A end \in lexer'.position..Len(lexer.input) : ~ IsLexeme(Text(end))
<1>1. Inv /\ [Next]_vars => [A]_vars
  <2> SUFFICES ASSUME Inv, Next, vars' # vars PROVE A
    OBVIOUS
  <2> DEFINE l == Skipped(lexer, Whitespace)
             r == NextToken(lexer)
  <2>1. /\ l.input = lexer.input /\ l.position = Begin /\ Reads(l, r)
        /\ lexer' = r.l /\ Latest' = r.token
    BY OnlyAsk, AskReads
  <2> HIDE DEF l, r
  <2>2. IF r.token.type \in {"EOF", "ILLEGAL"}
        THEN \A end \in Begin..Len(lexer.input) : ~ IsLexeme(Slice(l, Begin, end))
        ELSE /\ IsLexeme(Slice(l, Begin, r.l.position - 1))
             /\ \A end \in r.l.position..Len(lexer.input) : ~ IsLexeme(Slice(l, Begin, end))
    BY <2>1 DEF Reads
  <2>3. \A end : Slice(l, Begin, end) = Text(end)
    BY <2>1 DEF Text, Slice, Full
  <2> QED BY <2>1, <2>2, <2>3
<1> QED BY <1>1, LexerInvariant, PTL DEF Spec, TokensAreLongest
==============================================================================
