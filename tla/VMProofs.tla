------------------------------ MODULE VMProofs ------------------------------
(***************************************************************************)
(* The machine stays in its own states whatever bytecode it is given: for  *)
(* every program, every integer width and every size of stack, globals and *)
(* frames.  What the operations of Objects come to is settled first, then  *)
(* the bytes of an instruction, then the cases of Run.                     *)
(***************************************************************************)
EXTENDS VM, Numbers, SequenceTheorems, TLAPS

(* The heap's part of TypeOK, of any heap.                                 *)
HeapOK(h) ==
  /\ h = [a \in 1..Len(h) |-> h[a]] /\ Len(h) \in Nat
  /\ \A a \in 1..Len(h) : WellFormed(h[a], a - 1)
  /\ \A a \in 1..Len(h) : Is(h, a, "CLOSURE") => Is(h, h[a].fn, "COMPILED_FUNCTION")

(* An object that may be added to a heap.                                  *)
Addable(h, o) ==
  /\ WellFormed(o, Len(h))
  /\ o.t \notin {"NULL", "BOOLEAN"}
  /\ o.t = "CLOSURE" => Is(h, o.fn, "COMPILED_FUNCTION")

(* An outcome that keeps a heap and the references to it in order.         *)
OutcomeOK(h, outcome) ==
  \/ \E a \in 0..Len(h) : outcome = Ref(a)
  \/ \E o : Addable(h, o) /\ outcome = New(o)
  \/ outcome \in {Failed, Panic}

-----------------------------------------------------------------------------
(* The fields of an object, by its type.                                   *)
LEMMA Fields ==
  ASSUME NEW o, NEW n \in Nat, WellFormed(o, n)
  PROVE  /\ o.t \in {"INTEGER", "STRING", "BOOLEAN"} => o \in Keys
         /\ o.t = "INTEGER" => o.n \in Int64
         /\ o.t = "STRING" => o.s \in Seq(STRING)
         /\ o.t = "ARRAY" => o.e \in Seq(0..n)
         /\ o.t = "HASH" => DOMAIN o.d \subseteq Keys /\ o.d \in [DOMAIN o.d -> 0..n]
         /\ o.t = "CLOSURE" => o.fn \in 1..n /\ o.free \in Seq(0..n)
         /\ o.t = "COMPILED_FUNCTION" =>
              o.ins \in Seq(ByteValues) /\ o.numLocals \in Nat /\ o.numParameters \in Nat
         /\ o.t = "BUILTIN" => o.name \in { BuiltinNames[i] : i \in 1..7 }
<1>1. CASE o \in [t : {"INTEGER"}, n : Int64]
  BY <1>1 DEF Keys
<1>2. CASE o \in [t : {"STRING"}, s : Seq(STRING)]
  BY <1>2 DEF Keys
<1>3. CASE o \in [t : {"BOOLEAN"}, b : BOOLEAN]
  BY <1>3 DEF Keys
<1>4. CASE o \in [t : {"NULL", "ERROR"}]
  BY <1>4
<1>5. CASE o \in [t : {"BUILTIN"}, name : { BuiltinNames[i] : i \in 1..7 }]
  BY <1>5
<1>6. CASE o \in [ t : {"COMPILED_FUNCTION"}, ins : Seq(ByteValues),
                   numLocals : Nat, numParameters : Nat ]
  BY <1>6
<1>7. CASE o \in [t : {"ARRAY"}, e : Seq(0..n)]
  BY <1>7
<1>8. CASE o \in [t : {"CLOSURE"}, fn : 1..n, free : Seq(0..n)]
  BY <1>8
<1>9. CASE o.t = "HASH" /\ o = Hash(o.d) /\ DOMAIN o.d \subseteq Keys
           /\ o.d \in [DOMAIN o.d -> 0..n]
  BY <1>9
<1> QED BY <1>1, <1>2, <1>3, <1>4, <1>5, <1>6, <1>7, <1>8, <1>9 DEF WellFormed, Keys

(* The objects that operations make.                                       *)
LEMMA MadeInteger ==
  ASSUME NEW h, NEW i \in Int64
  PROVE  OutcomeOK(h, New(Integer(i)))
<1>1. Integer(i) \in [t : {"INTEGER"}, n : Int64]
  BY DEF Integer
<1>2. Addable(h, Integer(i))
  BY <1>1 DEF Addable, WellFormed, Keys
<1> QED BY <1>2 DEF OutcomeOK

(* A string may be added to any heap.                                      *)
LEMMA MadeString ==
  ASSUME NEW h, NEW s \in Seq(STRING)
  PROVE  OutcomeOK(h, New(String(s)))
<1>1. String(s) \in [t : {"STRING"}, s : Seq(STRING)]
  BY DEF String
<1>2. Addable(h, String(s))
  BY <1>1 DEF Addable, WellFormed, Keys
<1> QED BY <1>2 DEF OutcomeOK

(* An array of references that exist may be added.                         *)
LEMMA MadeArray ==
  ASSUME NEW h, NEW e \in Seq(0..Len(h))
  PROVE  OutcomeOK(h, New(Array(e)))
<1>1. Array(e) \in [t : {"ARRAY"}, e : Seq(0..Len(h))]
  BY DEF Array
<1>2. Addable(h, Array(e))
  BY <1>1 DEF Addable, WellFormed
<1> QED BY <1>2 DEF OutcomeOK

(* The error object of a builtin may be added.                             *)
LEMMA MadeError ==
  ASSUME NEW h
  PROVE  OutcomeOK(h, New(Error))
<1>1. Error \in [t : {"NULL", "ERROR"}] /\ Error.t = "ERROR"
  BY DEF Error
<1>2. Addable(h, Error)
  BY <1>1 DEF Addable, WellFormed
<1> QED BY <1>2 DEF OutcomeOK

(* A hash of hashable keys and references that exist may be added.         *)
LEMMA MadeHash ==
  ASSUME NEW h, NEW d, DOMAIN d \subseteq Keys, d \in [DOMAIN d -> 0..Len(h)]
  PROVE  OutcomeOK(h, New(Hash(d)))
<1>1. Hash(d).t = "HASH" /\ Hash(d).d = d
  BY DEF Hash
<1>2. Addable(h, Hash(d))
  BY <1>1 DEF Addable, WellFormed
<1> QED BY <1>2 DEF OutcomeOK

(* A closure of a compiled function may be added.                          *)
LEMMA MadeClosure ==
  ASSUME NEW h, NEW fn \in 1..Len(h), Is(h, fn, "COMPILED_FUNCTION"),
         NEW free \in Seq(0..Len(h))
  PROVE  OutcomeOK(h, New(Closure(fn, free)))
<1>1. /\ Closure(fn, free) \in [t : {"CLOSURE"}, fn : 1..Len(h), free : Seq(0..Len(h))]
      /\ Closure(fn, free).t = "CLOSURE" /\ Closure(fn, free).fn = fn
  BY DEF Closure
<1>2. Addable(h, Closure(fn, free))
  BY <1>1 DEF Addable, WellFormed
<1> QED BY <1>2 DEF OutcomeOK

(* References that exist, errors and panics leave a heap as it is.         *)
LEMMA References ==
  ASSUME NEW h, Len(h) \in Nat, Len(h) >= 10
  PROVE  /\ \A a \in 0..Len(h) : OutcomeOK(h, Ref(a))
         /\ \A b \in BOOLEAN : OutcomeOK(h, Ref(NativeBool(b)))
         /\ OutcomeOK(h, Ref(Null)) /\ OutcomeOK(h, Failed) /\ OutcomeOK(h, Panic)
<1>1. \A a \in 0..Len(h) : OutcomeOK(h, Ref(a))
  BY DEF OutcomeOK
<1>2. Null \in 0..Len(h) /\ \A b \in BOOLEAN : NativeBool(b) \in 0..Len(h)
  BY DEF Null, NativeBool, True, False
<1>3. OutcomeOK(h, Failed) /\ OutcomeOK(h, Panic)
  BY DEF OutcomeOK
<1> QED BY <1>1, <1>2, <1>3

-----------------------------------------------------------------------------
(* int64 arithmetic.                                                       *)
LEMMA WrapInRange ==
  ASSUME NEW n \in Int
  PROVE  Wrap(n) \in Int64
<1>1. IntHalf \in Nat /\ IntHalf > 0
  BY IntHalfAssumption
<1>2. (n + IntHalf) % (2 * IntHalf) \in 0..(2 * IntHalf - 1)
  BY <1>1
<1> QED BY <1>1, <1>2 DEF Wrap, Int64

(* A division by anything but zero has an integer quotient.                *)
LEMMA QuotientIsInteger ==
  ASSUME NEW m \in Int, NEW n \in Int, n # 0
  PROVE  Quotient(m, n) \in Int
<1>1. Magnitude(m) \in Int /\ Magnitude(n) \in Int /\ Magnitude(n) > 0
  BY DEF Magnitude
<1>2. Magnitude(m) \div Magnitude(n) \in Int
  BY <1>1
<1> QED BY <1>2 DEF Quotient

-----------------------------------------------------------------------------
(* What the operations of the machine come to.                             *)
LEMMA Referent ==
  ASSUME NEW h, HeapOK(h), NEW a \in 0..Len(h), a # Nil
  PROVE  /\ a \in 1..Len(h) /\ a - 1 \in Nat /\ Len(h) \in Nat
         /\ WellFormed(h[a], a - 1)
         /\ h[a].t \in {"INTEGER", "STRING", "BOOLEAN"} => h[a] \in Keys
         /\ h[a].t = "INTEGER" => h[a].n \in Int64
         /\ h[a].t = "STRING" => h[a].s \in Seq(STRING)
         /\ h[a].t = "ARRAY" => h[a].e \in Seq(0..Len(h))
         /\ h[a].t = "HASH" => DOMAIN h[a].d \subseteq Keys /\ h[a].d \in [DOMAIN h[a].d -> 0..Len(h)]
         /\ h[a].t = "CLOSURE" =>
              /\ h[a].fn \in 1..Len(h) /\ h[a].free \in Seq(0..Len(h))
              /\ h[h[a].fn].t = "COMPILED_FUNCTION"
         /\ h[a].t = "COMPILED_FUNCTION" =>
              /\ h[a].ins \in Seq(ByteValues)
              /\ h[a].numLocals \in Nat /\ h[a].numParameters \in Nat
         /\ h[a].t = "BUILTIN" => h[a].name \in { BuiltinNames[i] : i \in 1..7 }
<1>1. a \in 1..Len(h) /\ a - 1 \in Nat /\ Len(h) \in Nat
  BY DEF HeapOK, Nil
<1>2. WellFormed(h[a], a - 1)
  BY <1>1 DEF HeapOK
<1>3. 0..(a - 1) \subseteq 0..Len(h) /\ 1..(a - 1) \subseteq 1..Len(h)
  BY <1>1
<1>4. Is(h, a, "CLOSURE") => Is(h, h[a].fn, "COMPILED_FUNCTION")
  BY <1>1 DEF HeapOK
<1>5. h[a].t = "ARRAY" => h[a].e \in Seq(0..Len(h))
  <2> SUFFICES ASSUME h[a].t = "ARRAY" PROVE h[a].e \in Seq(0..Len(h))
    OBVIOUS
  <2>1. h[a].e \in Seq(0..(a - 1))
    BY <1>1, <1>2, Fields
  <2> QED BY <1>1, <1>3, <2>1
<1>6. h[a].t = "CLOSURE" => /\ h[a].fn \in 1..Len(h) /\ h[a].free \in Seq(0..Len(h))
                            /\ h[h[a].fn].t = "COMPILED_FUNCTION"
  <2> SUFFICES ASSUME h[a].t = "CLOSURE"
               PROVE  /\ h[a].fn \in 1..Len(h) /\ h[a].free \in Seq(0..Len(h))
                      /\ h[h[a].fn].t = "COMPILED_FUNCTION"
    OBVIOUS
  <2>1. h[a].free \in Seq(0..(a - 1)) /\ h[a].fn \in 1..(a - 1)
    BY <1>1, <1>2, Fields
  <2>2. h[h[a].fn].t = "COMPILED_FUNCTION"
    BY <1>4 DEF Is
  <2> QED BY <1>1, <1>3, <2>1, <2>2
<1>7. h[a].t = "HASH" => DOMAIN h[a].d \subseteq Keys /\ h[a].d \in [DOMAIN h[a].d -> 0..Len(h)]
  <2> SUFFICES ASSUME h[a].t = "HASH"
               PROVE  DOMAIN h[a].d \subseteq Keys /\ h[a].d \in [DOMAIN h[a].d -> 0..Len(h)]
    OBVIOUS
  <2>1. DOMAIN h[a].d \subseteq Keys /\ h[a].d \in [DOMAIN h[a].d -> 0..(a - 1)]
    BY <1>1, <1>2, Fields
  <2> QED BY <1>3, <2>1
<1>8. /\ h[a].t \in {"INTEGER", "STRING", "BOOLEAN"} => h[a] \in Keys
      /\ h[a].t = "INTEGER" => h[a].n \in Int64
      /\ h[a].t = "STRING" => h[a].s \in Seq(STRING)
      /\ h[a].t = "COMPILED_FUNCTION" =>
           h[a].ins \in Seq(ByteValues) /\ h[a].numLocals \in Nat /\ h[a].numParameters \in Nat
      /\ h[a].t = "BUILTIN" => h[a].name \in { BuiltinNames[i] : i \in 1..7 }
  BY <1>1, <1>2, Fields
<1> QED BY <1>1, <1>2, <1>5, <1>6, <1>7, <1>8

(* Integer arithmetic makes an int64 or panics.                            *)
LEMMA IntegerResult ==
  ASSUME NEW h, Len(h) \in Nat, Len(h) >= 10, NEW m \in Int64, NEW n \in Int64,
         NEW op \in {"OpAdd", "OpSub", "OpMul", "OpDiv"}
  PROVE  OutcomeOK(h, IntegerOutcome(op, m, n))
<1>1. m \in Int /\ n \in Int
  BY IntHalfAssumption DEF Int64
<1>2. CASE op = "OpAdd"
  <2>1. Wrap(m + n) \in Int64
    BY <1>1, WrapInRange
  <2> QED BY <1>2, <2>1, MadeInteger DEF IntegerOutcome
<1>3. CASE op = "OpSub"
  <2>1. Wrap(m - n) \in Int64
    BY <1>1, WrapInRange
  <2> QED BY <1>3, <2>1, MadeInteger DEF IntegerOutcome
<1>4. CASE op = "OpMul"
  <2>1. Wrap(m * n) \in Int64
    <3>1. m * n \in Int
      BY <1>1
    <3> QED BY <3>1, WrapInRange
  <2> QED BY <1>4, <2>1, MadeInteger DEF IntegerOutcome
<1>5. CASE op = "OpDiv" /\ n = 0
  BY <1>5, References DEF IntegerOutcome
<1>6. CASE op = "OpDiv" /\ n # 0
  <2>1. Wrap(Quotient(m, n)) \in Int64
    BY <1>1, <1>6, QuotientIsInteger, WrapInRange
  <2> QED BY <1>6, <2>1, MadeInteger DEF IntegerOutcome
<1> QED BY <1>2, <1>3, <1>4, <1>5, <1>6

(* executeBinaryOperation keeps the heap in order.                         *)
LEMMA BinaryResult ==
  ASSUME NEW h, HeapOK(h), Len(h) >= 10, NEW left \in 0..Len(h), NEW right \in 0..Len(h),
         NEW op \in {"OpAdd", "OpSub", "OpMul", "OpDiv"}
  PROVE  OutcomeOK(h, BinaryOutcome(h, op, left, right))
<1>1. Len(h) \in Nat
  BY DEF HeapOK
<1>2. CASE left = Nil \/ right = Nil
  <2>1. BinaryOutcome(h, op, left, right) = Panic
    BY <1>2 DEF BinaryOutcome, Is
  <2> QED BY <1>1, <2>1, References
<1>3. CASE ~ (left = Nil \/ right = Nil) /\ Is(h, left, "INTEGER") /\ Is(h, right, "INTEGER")
  <2>1. h[left].n \in Int64 /\ h[right].n \in Int64
    BY <1>3, Referent DEF Is
  <2>2. BinaryOutcome(h, op, left, right) = IntegerOutcome(op, h[left].n, h[right].n)
    BY <1>3 DEF BinaryOutcome, Is
  <2> QED BY <1>1, <2>1, <2>2, IntegerResult
<1>4. CASE ~ (left = Nil \/ right = Nil) /\ Is(h, left, "STRING") /\ Is(h, right, "STRING")
  <2>1. h[left].s \in Seq(STRING) /\ h[right].s \in Seq(STRING)
    BY <1>4, Referent DEF Is
  <2>2. h[left].s \o h[right].s \in Seq(STRING)
    BY <2>1
  <2>3. BinaryOutcome(h, op, left, right) = StringOutcome(op, h[left].s, h[right].s)
    BY <1>4 DEF BinaryOutcome, Is
  <2> QED BY <1>1, <2>2, <2>3, MadeString, References DEF StringOutcome
<1>5. CASE /\ ~ (left = Nil \/ right = Nil)
           /\ ~ (Is(h, left, "INTEGER") /\ Is(h, right, "INTEGER"))
           /\ ~ (Is(h, left, "STRING") /\ Is(h, right, "STRING"))
  BY <1>1, <1>5, References DEF BinaryOutcome
<1> QED BY <1>2, <1>3, <1>4, <1>5

(* executeMinusOperator keeps the heap in order.                           *)
LEMMA MinusResult ==
  ASSUME NEW h, HeapOK(h), Len(h) >= 10, NEW right \in 0..Len(h)
  PROVE  OutcomeOK(h, MinusOutcome(h, right))
<1>1. Len(h) \in Nat
  BY DEF HeapOK
<1>2. CASE Is(h, right, "INTEGER")
  <2>1. h[right].n \in Int64
    BY <1>2, Referent DEF Is
  <2>2. -h[right].n \in Int
    BY <2>1, IntHalfAssumption DEF Int64
  <2>3. Wrap(-h[right].n) \in Int64
    BY <2>2, WrapInRange
  <2> QED BY <1>2, <2>3, MadeInteger DEF MinusOutcome
<1>3. CASE ~ Is(h, right, "INTEGER")
  BY <1>1, <1>3, References DEF MinusOutcome
<1> QED BY <1>2, <1>3

(* executeComparison gives the shared True or False, or fails.             *)
LEMMA ComparisonResult ==
  ASSUME NEW h, HeapOK(h), Len(h) >= 10, NEW left, NEW right,
         NEW op \in {"OpEqual", "OpNotEqual", "OpGreaterThan"}
  PROVE  OutcomeOK(h, ComparisonOutcome(h, op, left, right))
<1>1. \A b \in BOOLEAN : OutcomeOK(h, Ref(NativeBool(b)))
  BY References DEF HeapOK
<1>2. OutcomeOK(h, Failed) /\ OutcomeOK(h, Panic)
  BY References DEF HeapOK
<1>3. \A l, r : /\ OutcomeOK(h, Ref(NativeBool(l = r)))
               /\ OutcomeOK(h, Ref(NativeBool(l # r)))
               /\ OutcomeOK(h, Ref(NativeBool(l > r)))
  <2> TAKE l, r
  <2>1. (l = r) \in BOOLEAN /\ (l # r) \in BOOLEAN
    OBVIOUS
  <2>2. NativeBool(l > r) \in {NativeBool(TRUE), NativeBool(FALSE)}
    BY DEF NativeBool
  <2> QED BY <1>1, <2>1, <2>2
<1> QED BY <1>2, <1>3 DEF ComparisonOutcome

-----------------------------------------------------------------------------
(* Hashes, and values taken out of arrays and hashes.                      *)
LEMMA HashResult ==
  ASSUME NEW h, HeapOK(h), Len(h) >= 10, NEW elements \in Seq(0..Len(h))
  PROVE  OutcomeOK(h, HashOutcome(h, elements))
<1> DEFINE pairs == 1..(Len(elements) \div 2)
           key(i) == HashKey(h, elements[2 * i - 1])
           last(k) == CHOOSE i \in pairs : key(i) = k /\ \A j \in pairs : key(j) = k => j <= i
           data == HashData(h, elements)
<1>1. Len(h) \in Nat /\ Len(elements) \in Nat
  BY DEF HeapOK
<1>2. CASE \A i \in pairs : Hashable(h, elements[2 * i - 1])
  <2>1. ASSUME NEW i \in pairs
        PROVE  2 * i - 1 \in 1..Len(elements) /\ 2 * i \in 1..Len(elements)
    <3>1. Len(elements) \div 2 \in Nat /\ 2 * (Len(elements) \div 2) <= Len(elements)
      BY <1>1
    <3> QED BY <1>1, <3>1
  <2>2. ASSUME NEW i \in pairs
        PROVE  key(i) \in Keys /\ elements[2 * i] \in 0..Len(h)
    <3>1. /\ elements[2 * i - 1] \in 0..Len(h) /\ elements[2 * i] \in 0..Len(h)
          /\ Hashable(h, elements[2 * i - 1])
      BY SMTT(30), <1>2, <2>1
    <3> QED BY <3>1, Referent DEF Hashable, HashKey
  <2>3. ASSUME NEW k \in {key(i) : i \in pairs}
        PROVE  last(k) \in pairs
    <3> DEFINE T == {i \in pairs : key(i) = k}
    <3>1. T \subseteq 1..(Len(elements) \div 2) /\ T # {} /\ Len(elements) \div 2 \in Nat
      BY <1>1
    <3>2. PICK i \in T : \A j \in T : j <= i
      <4> HIDE DEF T
      <4> QED BY <3>1, Greatest
    <3>3. i \in pairs /\ key(i) = k /\ \A j \in pairs : key(j) = k => j <= i
      BY <3>2
    <3> HIDE DEF key, pairs
    <3> QED BY <3>3
  <2>4. data = [k \in {key(i) : i \in pairs} |-> elements[2 * last(k)]]
    BY DEF HashData
  <2> HIDE DEF key, last, pairs, data
  <2>5. {key(i) : i \in pairs} \subseteq Keys
    BY <2>2
  <2>6. \A k \in {key(i) : i \in pairs} : elements[2 * last(k)] \in 0..Len(h)
    BY <2>2, <2>3
  <2>7. DOMAIN data \subseteq Keys /\ data \in [DOMAIN data -> 0..Len(h)]
    BY <2>4, <2>5, <2>6
  <2>8. HashOutcome(h, elements) = New(Hash(data))
    BY <1>2 DEF HashOutcome, data, pairs
  <2> QED BY <2>7, <2>8, MadeHash
<1>3. CASE ~ \A i \in pairs : Hashable(h, elements[2 * i - 1])
  <2>1. HashOutcome(h, elements) = Panic
    BY <1>3 DEF HashOutcome
  <2> QED BY <1>1, <2>1, References
<1> QED BY <1>2, <1>3

(* executeIndexOperation gives an element, Null, an error or a panic.      *)
LEMMA IndexResult ==
  ASSUME NEW h, HeapOK(h), Len(h) >= 10, NEW left \in 0..Len(h), NEW index \in 0..Len(h)
  PROVE  OutcomeOK(h, IndexOutcome(h, left, index))
<1>1. /\ \A a \in 0..Len(h) : OutcomeOK(h, Ref(a))
      /\ OutcomeOK(h, Ref(Null)) /\ OutcomeOK(h, Failed) /\ OutcomeOK(h, Panic)
  BY References DEF HeapOK
<1>2. CASE left # Nil /\ Is(h, left, "ARRAY")
  <2>1. IndexOutcome(h, left, index) = ArrayIndexOutcome(h, h[left].e, index)
    BY <1>2 DEF IndexOutcome, Is
  <2>2. h[left].e \in Seq(0..Len(h))
    BY <1>2, Referent DEF Is
  <2>3. CASE ~ Is(h, index, "INTEGER")
    BY <1>1, <2>1, <2>3 DEF ArrayIndexOutcome
  <2>4. CASE Is(h, index, "INTEGER") /\ h[index].n \in 0..(Len(h[left].e) - 1)
    <3>1. ASSUME NEW e \in Seq(0..Len(h)), NEW i \in 0..(Len(e) - 1)
          PROVE  e[i + 1] \in 0..Len(h)
      OBVIOUS
    <3>2. h[left].e[h[index].n + 1] \in 0..Len(h)
      BY <2>2, <2>4, <3>1
    <3>3. IndexOutcome(h, left, index) = Ref(h[left].e[h[index].n + 1])
      BY <2>1, <2>4 DEF ArrayIndexOutcome
    <3> QED BY <1>1, <3>2, <3>3
  <2>5. CASE Is(h, index, "INTEGER") /\ h[index].n \notin 0..(Len(h[left].e) - 1)
    BY <1>1, <2>1, <2>5 DEF ArrayIndexOutcome
  <2> QED BY <2>3, <2>4, <2>5
<1>3. CASE left # Nil /\ ~ Is(h, left, "ARRAY") /\ Is(h, left, "HASH")
  <2>1. IndexOutcome(h, left, index) = HashIndexOutcome(h, h[left].d, index)
    BY <1>3 DEF IndexOutcome
  <2>2. h[left].d \in [DOMAIN h[left].d -> 0..Len(h)]
    BY <1>3, Referent DEF Is
  <2>3. CASE index # Nil /\ Hashable(h, index) /\ HashKey(h, index) \in DOMAIN h[left].d
    <3>1. HashIndexOutcome(h, h[left].d, index) = Ref(h[left].d[HashKey(h, index)])
      BY <2>3 DEF HashIndexOutcome
    <3>2. h[left].d[HashKey(h, index)] \in 0..Len(h)
      BY <2>2, <2>3
    <3> QED BY <1>1, <2>1, <3>1, <3>2
  <2>4. CASE ~ (index # Nil /\ Hashable(h, index) /\ HashKey(h, index) \in DOMAIN h[left].d)
    <3>1. HashIndexOutcome(h, h[left].d, index) \in {Panic, Failed, Ref(Null)}
      BY <2>4 DEF HashIndexOutcome
    <3> QED BY <1>1, <2>1, <3>1
  <2> QED BY <2>3, <2>4
<1>4. CASE left = Nil \/ (~ Is(h, left, "ARRAY") /\ ~ Is(h, left, "HASH"))
  <2>1. IndexOutcome(h, left, index) \in {Panic, Failed}
    BY <1>4 DEF IndexOutcome, Is
  <2> QED BY <1>1, <2>1
<1> QED BY <1>2, <1>3, <1>4

-----------------------------------------------------------------------------
(* The builtins.                                                           *)
LEMMA LenResult ==
  ASSUME NEW h, HeapOK(h), Len(h) >= 10, NEW a \in 0..Len(h)
  PROVE  OutcomeOK(h, LenOutcome(h, a))
<1>1. OutcomeOK(h, Panic) /\ OutcomeOK(h, New(Error))
  BY References, MadeError DEF HeapOK
<1>2. \A n \in Nat : OutcomeOK(h, New(Integer(Wrap(n))))
  BY WrapInRange, MadeInteger
<1>3. CASE a # Nil /\ Is(h, a, "ARRAY")
  <2>1. LenOutcome(h, a) = New(Integer(Wrap(Len(h[a].e))))
    BY <1>3 DEF LenOutcome, Is
  <2>2. Len(h[a].e) \in Nat
    BY <1>3, Referent DEF Is
  <2> QED BY <1>2, <2>1, <2>2
<1>4. CASE a # Nil /\ Is(h, a, "STRING")
  <2>1. LenOutcome(h, a) = New(Integer(Wrap(Len(h[a].s))))
    BY <1>4 DEF LenOutcome, Is
  <2>2. Len(h[a].s) \in Nat
    BY <1>4, Referent DEF Is
  <2> QED BY <1>2, <2>1, <2>2
<1>5. CASE a = Nil \/ (~ Is(h, a, "ARRAY") /\ ~ Is(h, a, "STRING"))
  <2>1. LenOutcome(h, a) \in {Panic, New(Error)}
    BY <1>5 DEF LenOutcome, Is
  <2> QED BY <1>1, <2>1
<1> QED BY <1>3, <1>4, <1>5

(* first, last, rest, push and pop on the elements of an array.            *)
LEMMA ElementsResult ==
  ASSUME NEW h, Len(h) \in Nat, Len(h) >= 10, NEW e \in Seq(0..Len(h)), NEW args,
         NEW name \in {"first", "last", "rest", "push", "pop"},
         name = "push" => args[2] \in 0..Len(h)
  PROVE  OutcomeOK(h, ElementsOutcome(name, e, args))
<1>1. /\ \A a \in 0..Len(h) : OutcomeOK(h, Ref(a))
      /\ OutcomeOK(h, Ref(Nil)) /\ OutcomeOK(h, Panic)
  BY References DEF Nil
<1>2. e # << >> => /\ e[1] \in 0..Len(h) /\ e[Len(e)] \in 0..Len(h)
                   /\ Tail(e) \in Seq(0..Len(h)) /\ SubSeq(e, 1, Len(e) - 1) \in Seq(0..Len(h))
  OBVIOUS
<1>3. CASE name = "first"
  <2>1. ElementsOutcome(name, e, args) = Ref(IF e = << >> THEN Nil ELSE e[1])
    BY <1>3 DEF ElementsOutcome
  <2> QED BY <1>1, <1>2, <2>1
<1>4. CASE name = "last"
  <2>1. ElementsOutcome(name, e, args) = Ref(IF e = << >> THEN Nil ELSE e[Len(e)])
    BY <1>4 DEF ElementsOutcome
  <2> QED BY <1>1, <1>2, <2>1
<1>5. CASE name = "rest"
  <2>1. ElementsOutcome(name, e, args) = IF e = << >> THEN Ref(Nil) ELSE New(Array(Tail(e)))
    BY <1>5 DEF ElementsOutcome
  <2> QED BY <1>1, <1>2, <2>1, MadeArray
<1>6. CASE name = "push"
  <2>1. ElementsOutcome(name, e, args) = New(Array(Append(e, args[2])))
    BY <1>6 DEF ElementsOutcome
  <2>2. Append(e, args[2]) \in Seq(0..Len(h))
    BY <1>6
  <2> QED BY <2>1, <2>2, MadeArray
<1>7. CASE name = "pop"
  <2>1. ElementsOutcome(name, e, args) =
          IF e = << >> THEN Panic ELSE New(Array(SubSeq(e, 1, Len(e) - 1)))
    BY <1>7 DEF ElementsOutcome
  <2> QED BY <1>1, <1>2, <2>1, MadeArray
<1> QED BY <1>3, <1>4, <1>5, <1>6, <1>7

(* The same on any first argument.                                         *)
LEMMA ArrayBuiltinResult ==
  ASSUME NEW h, HeapOK(h), Len(h) >= 10, NEW args \in Seq(0..Len(h)),
         NEW name \in {"first", "last", "rest", "push", "pop"}, Len(args) = Arity(name)
  PROVE  OutcomeOK(h, ArrayBuiltinOutcome(h, name, args))
<1>1. OutcomeOK(h, Panic) /\ OutcomeOK(h, New(Error)) /\ Len(h) \in Nat
  BY References, MadeError DEF HeapOK
<1>2. args[1] \in 0..Len(h) /\ (name = "push" => args[2] \in 0..Len(h))
  BY DEF Arity
<1>3. CASE args[1] # Nil /\ Is(h, args[1], "ARRAY")
  <2>1. ArrayBuiltinOutcome(h, name, args) = ElementsOutcome(name, h[args[1]].e, args)
    BY <1>3 DEF ArrayBuiltinOutcome, Is
  <2>2. h[args[1]].e \in Seq(0..Len(h))
    BY <1>2, <1>3, Referent DEF Is
  <2> QED BY <1>1, <1>2, <2>1, <2>2, ElementsResult
<1>4. CASE args[1] = Nil \/ ~ Is(h, args[1], "ARRAY")
  <2>1. ArrayBuiltinOutcome(h, name, args) \in {Panic, New(Error)}
    BY <1>4 DEF ArrayBuiltinOutcome, Is
  <2> QED BY <1>1, <2>1
<1> QED BY <1>3, <1>4

(* callBuiltin keeps the heap in order, for every builtin and arguments.   *)
LEMMA BuiltinResult ==
  ASSUME NEW h, HeapOK(h), Len(h) >= 10, NEW args \in Seq(0..Len(h)),
         NEW name, name \in { BuiltinNames[i] : i \in 1..7 }
  PROVE  OutcomeOK(h, BuiltinOutcome(h, name, args))
<1>1. /\ OutcomeOK(h, Panic) /\ OutcomeOK(h, New(Error)) /\ Len(h) \in Nat
      /\ OutcomeOK(h, Ref(Nil)) /\ OutcomeOK(h, Ref(Null))
  BY References, MadeError DEF HeapOK, Nil
<1>2. ASSUME NEW outcome, OutcomeOK(h, outcome)
      PROVE  OutcomeOK(h, OrNull(outcome))
  BY <1>1, <1>2 DEF OrNull
<1>3. name \in {"len", "puts", "first", "last", "rest", "push", "pop"}
  BY DEF BuiltinNames
<1>4. CASE name = "puts"
  <2>1. PutsOutcome(h, args) \in {Panic, Ref(Nil)}
    BY DEF PutsOutcome
  <2>2. BuiltinOutcome(h, name, args) = OrNull(PutsOutcome(h, args))
    BY <1>4 DEF BuiltinOutcome
  <2> QED BY <1>1, <1>2, <2>1, <2>2
<1>5. CASE name # "puts" /\ Len(args) # Arity(name)
  <2>1. BuiltinOutcome(h, name, args) = OrNull(New(Error))
    BY <1>5 DEF BuiltinOutcome, Arity
  <2> QED BY <1>1, <1>2, <2>1
<1>6. CASE name = "len" /\ Len(args) = Arity(name)
  <2>1. Len(args) = 1 /\ args[1] \in 0..Len(h)
    <3>1. Len(args) = 1
      BY <1>6 DEF Arity
    <3>2. 1 \in 1..Len(args)
      BY <3>1
    <3> QED BY <3>1, <3>2, ElementOfSeq
  <2>2. BuiltinOutcome(h, name, args) = OrNull(LenOutcome(h, args[1]))
    BY <1>6, <2>1 DEF BuiltinOutcome, Arity
  <2> QED BY <1>2, <2>1, <2>2, LenResult
<1>7. CASE name \notin {"puts", "len"} /\ Len(args) = Arity(name)
  <2>1. BuiltinOutcome(h, name, args) = OrNull(ArrayBuiltinOutcome(h, name, args))
    BY <1>7 DEF BuiltinOutcome
  <2> QED BY <1>2, <1>3, <1>7, <2>1, ArrayBuiltinResult
<1> QED BY <1>4, <1>5, <1>6, <1>7

-----------------------------------------------------------------------------
(* Heaps that grow, and frames over them.                                  *)
Later(h, g) ==
  Len(g) \in Nat /\ Len(g) >= Len(h) /\ \A a \in 1..Len(h) : g[a] = h[a]

Singletons(h) ==
  \A a \in 1..Len(h) :
    /\ Is(h, a, "NULL") => a = Null
    /\ Is(h, a, "BOOLEAN") => a \in {True, False}

(* An object that refers to what is below m refers to what is below n.     *)
LEMMA WellFormedLater ==
  ASSUME NEW m \in Nat, NEW n \in Nat, m <= n, NEW o, WellFormed(o, m)
  PROVE  WellFormed(o, n)
<1>1. 0..m \subseteq 0..n /\ 1..m \subseteq 1..n
  OBVIOUS
<1>2. Seq(0..m) \subseteq Seq(0..n)
  BY <1>1
<1>3. CASE o \in [t : {"ARRAY"}, e : Seq(0..m)]
  BY <1>2, <1>3 DEF WellFormed
<1>4. CASE o \in [t : {"CLOSURE"}, fn : 1..m, free : Seq(0..m)]
  <2>1. o \in [t : {"CLOSURE"}, fn : 1..n, free : Seq(0..n)]
    BY <1>1, <1>2, <1>4
  <2> QED BY <2>1 DEF WellFormed
<1>5. CASE /\ o.t = "HASH" /\ o = Hash(o.d)
           /\ DOMAIN o.d \subseteq Keys /\ o.d \in [DOMAIN o.d -> 0..m]
  <2>1. o.d \in [DOMAIN o.d -> 0..n]
    BY <1>1, <1>5
  <2> QED BY <1>5, <2>1 DEF WellFormed
<1> QED BY <1>3, <1>4, <1>5 DEF WellFormed

(* Intervals from 1 are equal only when their ends are.                    *)
LEMMA SameLength ==
  ASSUME NEW m \in Nat, NEW n \in Nat, 1..m = 1..n
  PROVE  m = n
<1>1. m >= 1 => m \in 1..n
  OBVIOUS
<1>2. n >= 1 => n \in 1..m
  OBVIOUS
<1> QED BY <1>1, <1>2

(* A heap to which an addable object is appended stays in order.           *)
LEMMA HeapGrows ==
  ASSUME NEW h, HeapOK(h), Singletons(h), NEW o, Addable(h, o), NEW g, g = Append(h, o)
  PROVE  /\ HeapOK(g) /\ Singletons(g) /\ Later(h, g)
         /\ Len(g) = Len(h) + 1
<1> DEFINE S == {h[a] : a \in 1..Len(h)} \cup {o}
<1>1. Len(h) \in Nat /\ h = [a \in 1..Len(h) |-> h[a]]
  BY DEF HeapOK
<1>2. h \in Seq(S) /\ o \in S
  <2>1. h \in [1..Len(h) -> S]
    BY <1>1
  <2> HIDE DEF S
  <2>2. h \in Seq(S)
    BY <1>1, <2>1, SeqDef
  <2> QED BY <2>2 DEF S
<1> HIDE DEF S
<1>3. /\ g \in Seq(S) /\ Len(g) = Len(h) + 1
      /\ \A a \in 1..Len(h) : g[a] = h[a]
      /\ g[Len(h) + 1] = o
  BY <1>2
<1>4. g = [a \in 1..Len(g) |-> g[a]] /\ Len(g) \in Nat
  <2>1. g \in [1..Len(g) -> S] /\ Len(g) \in Nat
    BY <1>3, LenProperties
  <2> QED BY <2>1
<1>5. ASSUME NEW a \in 1..Len(g)
      PROVE  /\ WellFormed(g[a], a - 1)
             /\ Is(g, a, "CLOSURE") => Is(g, g[a].fn, "COMPILED_FUNCTION")
             /\ Is(g, a, "NULL") => a = Null
             /\ Is(g, a, "BOOLEAN") => a \in {True, False}
  <2>1. CASE a \in 1..Len(h)
    <3>1. /\ g[a] = h[a] /\ WellFormed(h[a], a - 1) /\ a - 1 \in Nat
          /\ a \in 0..Len(h) /\ a # Nil
      BY <1>1, <1>3, <2>1 DEF HeapOK, Nil
    <3>2. Is(h, a, "CLOSURE") =>
            h[a].fn \in 1..Len(h) /\ Is(h, h[a].fn, "COMPILED_FUNCTION")
      BY <2>1, <3>1, Referent DEF HeapOK, Is
    <3>3. Is(g, a, "CLOSURE") => Is(g, g[a].fn, "COMPILED_FUNCTION")
      BY <1>3, <3>1, <3>2 DEF Is
    <3>4. /\ Is(g, a, "NULL") => a = Null
          /\ Is(g, a, "BOOLEAN") => a \in {True, False}
      BY <2>1, <3>1 DEF Is, Singletons
    <3> QED BY <3>1, <3>3, <3>4
  <2>2. CASE a = Len(h) + 1
    <3>1. g[a] = o /\ a - 1 = Len(h) /\ WellFormed(o, Len(h))
      BY <1>1, <1>3, <2>2 DEF Addable
    <3>2. Is(g, a, "CLOSURE") => Is(g, g[a].fn, "COMPILED_FUNCTION")
      <4> SUFFICES ASSUME o.t = "CLOSURE" PROVE Is(g, o.fn, "COMPILED_FUNCTION")
        BY <3>1 DEF Is
      <4>1. o.fn \in 1..Len(h)
        BY <1>1, <3>1, Fields
      <4>2. Is(h, o.fn, "COMPILED_FUNCTION")
        BY DEF Addable
      <4> QED BY <1>3, <4>1, <4>2 DEF Is
    <3>3. ~ Is(g, a, "NULL") /\ ~ Is(g, a, "BOOLEAN")
      BY <3>1 DEF Is, Addable
    <3> QED BY <3>1, <3>2, <3>3
  <2> QED BY <1>1, <1>3, <2>1, <2>2
<1>6. HeapOK(g) /\ Singletons(g)
  BY <1>4, <1>5 DEF HeapOK, Singletons
<1> QED BY <1>1, <1>3, <1>4, <1>6 DEF Later

FramesOK(h, fs) ==
  /\ fs \in Seq([cl : 1..Len(h), ip : Nat \cup {-1}, bp : Nat])
  /\ Len(fs) \in 1..MaxFrames
  /\ \A k \in 1..Len(fs) : Is(h, fs[k].cl, "CLOSURE")
  /\ \A k \in 1..Len(fs) : fs[k].bp = 0 <=> k = 1

(* Frames over a heap are frames over a later one.                         *)
LEMMA FramesLater ==
  ASSUME NEW h, Len(h) \in Nat, NEW g, Later(h, g), NEW fs, FramesOK(h, fs)
  PROVE  FramesOK(g, fs)
<1> DEFINE F(n) == [cl : 1..n, ip : Nat \cup {-1}, bp : Nat]
<1>1. Len(g) \in Nat /\ Len(g) >= Len(h) /\ \A a \in 1..Len(h) : g[a] = h[a]
  BY DEF Later
<1>2. F(Len(h)) \subseteq F(Len(g))
  <2>1. 1..Len(h) \subseteq 1..Len(g)
    BY <1>1
  <2> QED BY <2>1
<1>3. fs \in Seq(F(Len(h)))
  BY DEF FramesOK
<1>4. fs \in Seq(F(Len(g)))
  <2> HIDE DEF F
  <2> QED BY <1>2, <1>3
<1>5. ASSUME NEW k \in 1..Len(fs)
      PROVE  Is(g, fs[k].cl, "CLOSURE")
  <2>1. fs[k] \in F(Len(h))
    <3> HIDE DEF F
    <3> QED BY <1>3
  <2>2. fs[k].cl \in 1..Len(h) /\ Is(h, fs[k].cl, "CLOSURE")
    BY <2>1 DEF FramesOK
  <2> QED BY <1>1, <2>2 DEF Is
<1> QED BY <1>4, <1>5 DEF FramesOK

-----------------------------------------------------------------------------
(* The instruction that is fetched.                                        *)
WideOps   == {"OpConstant", "OpGetGlobal", "OpSetGlobal", "OpJumpNotTruthy",
              "OpJump", "OpArray", "OpHash"}
NarrowOps == {"OpGetLocal", "OpSetLocal", "OpGetBuiltin", "OpGetFree", "OpCall"}

(* The widths of operands, and the lengths they give.                      *)
LEMMA InstructionBytes ==
  ASSUME NEW op
  PROVE  /\ op \in WideOps => OperandWidths(op) = <<2>>
         /\ op \in NarrowOps => OperandWidths(op) = <<1>>
         /\ op = "OpClosure" => OperandWidths(op) = <<2, 1>>
         /\ op \notin WideOps \cup NarrowOps \cup {"OpClosure"} => OperandWidths(op) = << >>
         /\ op \in WideOps => InstructionLen(op) = 3
         /\ op \in NarrowOps => InstructionLen(op) = 2
         /\ op = "OpClosure" => InstructionLen(op) = 4
         /\ InstructionLen(op) \in 1..4
<1>1. /\ op \in WideOps => OperandWidths(op) = <<2>>
      /\ op \in NarrowOps => OperandWidths(op) = <<1>>
      /\ op = "OpClosure" => OperandWidths(op) = <<2, 1>>
      /\ op \notin WideOps \cup NarrowOps \cup {"OpClosure"} => OperandWidths(op) = << >>
  BY DEF OperandWidths, WideOps, NarrowOps
<1>2. <<2>> # <<1>> /\ <<2, 1>> # <<2>> /\ <<2, 1>> # <<1>>
      /\ << >> # <<1>> /\ << >> # <<2>> /\ << >> # <<2, 1>>
  OBVIOUS
<1> DEFINE w == OperandWidths(op)
<1>3. /\ w = <<2>> => InstructionLen(op) = 3
      /\ w = <<1>> => InstructionLen(op) = 2
      /\ w = <<2, 1>> => InstructionLen(op) = 4
      /\ w = << >> => InstructionLen(op) = 1
  BY <1>2 DEF InstructionLen
<1> QED BY <1>1, <1>3

(* The operands of a whole instruction are natural numbers.                *)
LEMMA InstructionOperands ==
  ASSUME NEW ins \in Seq(ByteValues), NEW p \in Nat, WholeInstruction(ins, p),
         NEW op, op = Opcodes[ins[p + 1] + 1]
  PROVE  /\ op \in WideOps \cup NarrowOps \cup {"OpClosure"} =>
              ReadOperands(op, ins, p)[1] \in Nat
         /\ op = "OpClosure" => ReadOperands(op, ins, p)[2] \in Nat
<1>1. p + InstructionLen(op) <= Len(ins) /\ Len(ins) \in Nat /\ Radix \in Nat
  BY RadixAssumption DEF WholeInstruction
<1>2. \A i \in 1..Len(ins) : ins[i] \in Nat
  BY <1>1 DEF ByteValues
<1>3. \A q \in Nat : q + 1 <= Len(ins) => ReadUint8(ins, q) \in Nat
  BY <1>2 DEF ReadUint8
<1>4. \A q \in Nat : q + 2 <= Len(ins) => ReadUint16(ins, q) \in Nat
  <2> TAKE q \in Nat
  <2> HAVE q + 2 <= Len(ins)
  <2>1. ins[q + 1] \in Nat /\ ins[q + 2] \in Nat
    BY <1>2
  <2>2. ins[q + 1] * Radix \in Nat
    BY <1>1, <2>1
  <2> QED BY <2>1, <2>2 DEF ReadUint16
<1>5. CASE op \in WideOps
  <2>1. OperandWidths(op) = <<2>> /\ p + 3 <= Len(ins)
    BY <1>1, <1>5, InstructionBytes
  <2>2. ReadOperands(op, ins, p) = << ReadUint16(ins, p + 1) >>
    BY <2>1 DEF ReadOperands
  <2> QED BY <1>1, <1>4, <1>5, <2>1, <2>2 DEF WideOps
<1>6. CASE op \in NarrowOps
  <2>1. OperandWidths(op) = <<1>> /\ p + 2 <= Len(ins)
    BY <1>1, <1>6, InstructionBytes
  <2>2. ReadOperands(op, ins, p) = << ReadUint8(ins, p + 1) >>
    BY <2>1 DEF ReadOperands
  <2> QED BY <1>1, <1>3, <1>6, <2>1, <2>2 DEF NarrowOps
<1>7. CASE op = "OpClosure"
  <2>1. OperandWidths(op) = <<2, 1>> /\ p + 4 <= Len(ins)
    BY <1>1, <1>7, InstructionBytes
  <2>2. ReadOperands(op, ins, p) = << ReadUint16(ins, p + 1), ReadUint8(ins, p + 3) >>
    BY <2>1 DEF ReadOperands
  <2>3. ReadUint16(ins, p + 1) \in Nat /\ ReadUint8(ins, p + 3) \in Nat
    BY <1>1, <1>3, <1>4, <2>1
  <2> QED BY <2>2, <2>3
<1> QED BY <1>5, <1>6, <1>7

-----------------------------------------------------------------------------
(* The invariant: the shared objects come first in the heap, and nothing   *)
(* makes another null, true or false.                                      *)
Inv == TypeOK /\ Len(heap) >= 10 /\ SingletonsAreShared

Slots(n, h) == [0..(n - 1) -> 0..Len(h)]

(* The invariant by its parts.                                             *)
LEMMA InvParts ==
  Inv <=> /\ HeapOK(heap) /\ Singletons(heap) /\ Len(heap) >= 10
          /\ constants \in Seq(1..Len(heap))
          /\ FramesOK(heap, frames)
          /\ stack \in Slots(StackSize, heap) /\ sp \in Nat
          /\ globals \in Slots(GlobalsSize, heap)
          /\ status \in {"running", "halted", "error", "crashed"}
BY DEF Inv, TypeOK, SingletonsAreShared, HeapOK, Singletons, FramesOK, Slots

(* The current frame.                                                      *)
LEMMA CurrentFrame ==
  ASSUME Inv
  PROVE  /\ Len(frames) \in 1..MaxFrames
         /\ frames \in Seq([cl : 1..Len(heap), ip : Nat \cup {-1}, bp : Nat])
         /\ Frame \in [cl : 1..Len(heap), ip : Nat \cup {-1}, bp : Nat]
         /\ Frame.cl \in 1..Len(heap) /\ Lip \in Nat /\ Frame.bp \in Nat
         /\ Frame.bp = 0 <=> Len(frames) = 1
         /\ Fn.ins \in Seq(ByteValues) /\ Free \in Seq(0..Len(heap))
<1>1. FramesOK(heap, frames) /\ HeapOK(heap)
  BY InvParts
<1>2. /\ Len(frames) \in 1..MaxFrames /\ Len(frames) \in 1..Len(frames)
      /\ frames \in Seq([cl : 1..Len(heap), ip : Nat \cup {-1}, bp : Nat])
  BY <1>1 DEF FramesOK
<1>3. Frame \in [cl : 1..Len(heap), ip : Nat \cup {-1}, bp : Nat]
  <2>1. frames[Len(frames)] \in [cl : 1..Len(heap), ip : Nat \cup {-1}, bp : Nat]
    BY <1>2, ElementOfSeq
  <2> QED BY <2>1 DEF Frame
<1>4. /\ Frame.cl \in 1..Len(heap) /\ Lip \in Nat /\ Frame.bp \in Nat
      /\ Frame.bp = 0 <=> Len(frames) = 1
      /\ Is(heap, Frame.cl, "CLOSURE")
  <2>1. Frame.ip \in Nat \cup {-1}
    BY <1>3
  <2>2. Lip \in Nat
    BY <2>1 DEF Lip
  <2>3. Frame.bp = 0 <=> Len(frames) = 1
    BY <1>1, <1>2 DEF FramesOK, Frame
  <2>4. Is(heap, Frame.cl, "CLOSURE")
    BY <1>1, <1>2 DEF FramesOK, Frame
  <2> QED BY <1>3, <2>2, <2>3, <2>4
<1>5. heap[Frame.cl].fn \in 1..Len(heap) /\ heap[heap[Frame.cl].fn].t = "COMPILED_FUNCTION"
      /\ heap[Frame.cl].free \in Seq(0..Len(heap))
  <2>1. Len(heap) \in Nat /\ Frame.cl \in 0..Len(heap) /\ Frame.cl # Nil
        /\ heap[Frame.cl].t = "CLOSURE"
    BY <1>1, <1>4 DEF Is, HeapOK, Nil
  <2> QED BY <1>1, <2>1, Referent
<1>6. heap[heap[Frame.cl].fn].ins \in Seq(ByteValues)
  <2>1. heap[Frame.cl].fn \in 0..Len(heap) /\ heap[Frame.cl].fn # Nil
    BY <1>1, <1>5 DEF HeapOK, Nil
  <2> QED BY <1>1, <1>5, <2>1, Referent
<1> QED BY <1>2, <1>3, <1>4, <1>5, <1>6 DEF Fn, Free

(* What is known of an instruction that is executed.                       *)
LEMMA Fetched ==
  ASSUME Inv, NEW ops, Executes(ops)
  PROVE  /\ Op \in ops /\ Running /\ InRange /\ OperandsPresent /\ FrameAvailable
         /\ status = "running"
         /\ LastByte \in Nat
         /\ /\ Op \in WideOps \cup NarrowOps \cup {"OpClosure"}
            /\ Op = "OpJumpNotTruthy" => ~ IsTruthy(Peek(1))
            => Operand \in Nat
         /\ Op = "OpClosure" => Operands[2] \in Nat
<1>1. /\ Op \in ops /\ Running /\ InRange /\ OperandsPresent /\ FrameAvailable
      /\ WholeInstruction(Fn.ins, Lip) \/ JumpsNot
      /\ status = "running"
  BY DEF Executes, CanExecute, Running
<1>2. Lip \in Nat /\ Fn.ins \in Seq(ByteValues)
  BY CurrentFrame
<1>3. LastByte \in Nat
  <2>1. InstructionLen(Op) \in 1..4
    BY InstructionBytes
  <2> QED BY <1>2, <2>1 DEF LastByte
<1>4. /\ /\ Op \in WideOps \cup NarrowOps \cup {"OpClosure"}
         /\ Op = "OpJumpNotTruthy" => ~ IsTruthy(Peek(1))
         => ReadOperands(Op, Fn.ins, Lip)[1] \in Nat
      /\ Op = "OpClosure" => ReadOperands(Op, Fn.ins, Lip)[2] \in Nat
  BY <1>1, <1>2, InstructionOperands DEF Op, JumpsNot
<1> QED BY <1>1, <1>3, <1>4 DEF Operand, Operands

-----------------------------------------------------------------------------
(* What a step reads from the stack, and what it may leave.                *)
LEMMA Peeked ==
  ASSUME Inv, NEW n \in Nat, n >= 1, n <= sp, sp - n < StackSize
  PROVE  Peek(n) \in 0..Len(heap)
<1>1. stack \in [0..(StackSize - 1) -> 0..Len(heap)] /\ sp \in Nat /\ StackSize \in Nat
  BY SizesAssumption DEF Inv, TypeOK
<1>2. sp - n \in 0..(StackSize - 1)
  BY <1>1
<1> QED BY <1>1, <1>2 DEF Peek

(* The topmost values are references that exist.                           *)
LEMMA Taken ==
  ASSUME Inv, NEW n \in Nat, n <= sp, n = 0 \/ sp <= StackSize
  PROVE  TopValues(n) \in Seq(0..Len(heap))
<1>1. stack \in [0..(StackSize - 1) -> 0..Len(heap)] /\ sp \in Nat /\ StackSize \in Nat
  BY SizesAssumption DEF Inv, TypeOK
<1>2. ASSUME NEW i \in 1..n
      PROVE  stack[sp - n - 1 + i] \in 0..Len(heap)
  <2>1. sp - n - 1 + i \in 0..(StackSize - 1)
    BY <1>1
  <2> QED BY <1>1, <2>1
<1>3. TopValues(n) \in [1..n -> 0..Len(heap)]
  BY <1>2 DEF TopValues
<1> QED BY <1>3, SeqDef

(* Moving ip leaves the frames in order.                                   *)
LEMMA GotoOK ==
  ASSUME Inv, NEW ip \in Nat \cup {-1}
  PROVE  FramesOK(heap, Goto(ip))
<1> DEFINE F == [cl : 1..Len(heap), ip : Nat \cup {-1}, bp : Nat]
           fs == Goto(ip)
           n == Len(frames)
<1>1. FramesOK(heap, frames) /\ frames \in Seq(F) /\ n \in 1..MaxFrames /\ Frame \in F
      /\ n \in 1..n
  BY CurrentFrame, InvParts
<1>2. fs = [frames EXCEPT ![n] = [frames[n] EXCEPT !.ip = ip]]
  BY DEF Goto
<1>3. [frames[n] EXCEPT !.ip = ip] \in F
  BY <1>1 DEF Frame
<1>4. fs \in Seq(F) /\ Len(fs) = n
  <2> HIDE DEF F, fs, n
  <2>1. frames \in [1..Len(frames) -> F] /\ Len(frames) \in Nat
    BY <1>1, LenProperties
  <2>2. fs \in [1..Len(frames) -> F]
    BY <1>1, <1>2, <1>3, <2>1
  <2>3. fs \in Seq(F)
    BY <2>1, <2>2, SeqDef
  <2>4. Len(fs) = Len(frames)
    BY <2>1, <2>2, <2>3, LenProperties
  <2> QED BY <2>3, <2>4 DEF n
<1>5. ASSUME NEW k \in 1..n
      PROVE  fs[k].cl = frames[k].cl /\ fs[k].bp = frames[k].bp
  <2>1. frames[k] \in F
    <3> HIDE DEF F
    <3> QED BY <1>1, ElementOfSeq
  <2>2. frames \in [1..n -> F]
    <3> HIDE DEF F
    <3> QED BY <1>1, LenProperties
  <2>3. fs[k] = IF k = n THEN [frames[n] EXCEPT !.ip = ip] ELSE frames[k]
    <3> HIDE DEF F, n, fs
    <3> QED BY <1>2, <2>2
  <2> HIDE DEF fs
  <2> QED BY <2>1, <2>3
<1> QED BY <1>1, <1>4, <1>5 DEF FramesOK

(* The parts of the invariant, put together for the next state.            *)
LEMMA InvNext ==
  ASSUME Inv, HeapOK(heap'), Singletons(heap'), Later(heap, heap'),
         FramesOK(heap', frames'), stack' \in Slots(StackSize, heap'), sp' \in Nat,
         globals' \in Slots(GlobalsSize, heap'), constants' = constants,
         status' \in {"running", "halted", "error", "crashed"}
  PROVE  Inv'
<1>1. Len(heap') \in Nat /\ Len(heap') >= Len(heap) /\ Len(heap) \in Nat /\ Len(heap) >= 10
      /\ constants \in Seq(1..Len(heap))
  BY InvParts DEF Later, HeapOK
<1>2. 1..Len(heap) \subseteq 1..Len(heap')
  BY <1>1
<1>3. constants' \in Seq(1..Len(heap'))
  BY <1>1, <1>2
<1>4. Len(heap') >= 10
  BY <1>1
<1> QED BY <1>3, <1>4
        DEF Inv, TypeOK, SingletonsAreShared, HeapOK, Singletons, FramesOK, Slots

(* A heap that stays as it is.                                             *)
LEMMA SameHeap ==
  ASSUME Inv, UNCHANGED heap
  PROVE  /\ HeapOK(heap') /\ Singletons(heap') /\ Later(heap, heap')
         /\ heap' = heap
BY InvParts DEF Later, HeapOK

(* Slots over a heap are slots over a later one.                           *)
LEMMA SlotsLater ==
  ASSUME NEW h, Len(h) \in Nat, NEW g, Later(h, g), NEW n, NEW s \in Slots(n, h)
  PROVE  s \in Slots(n, g)
<1>1. 0..Len(h) \subseteq 0..Len(g)
  BY DEF Later
<1> QED BY <1>1 DEF Slots

(* push writes inside the stack or fails.                                  *)
LEMMA Pushed ==
  ASSUME Inv, NEW p \in Nat, NEW a, a \in 0..Len(heap'), Later(heap, heap'), Push(p, a)
  PROVE  /\ stack' \in Slots(StackSize, heap') /\ sp' \in Nat
         /\ status' \in {status, "error"}
<1>1. stack \in Slots(StackSize, heap')
  BY InvParts, SlotsLater DEF HeapOK
<1>2. StackSize \in Nat
  BY SizesAssumption
<1>3. CASE p < StackSize /\ stack' = [stack EXCEPT ![p] = a] /\ sp' = p + 1 /\ UNCHANGED status
  BY <1>1, <1>2, <1>3 DEF Slots
<1>4. CASE sp' = p /\ status' = "error" /\ UNCHANGED stack
  BY <1>1, <1>4
<1> QED BY <1>3, <1>4 DEF Push

(* Whatever an operation comes to, the machine delivers it in order.       *)
LEMMA Delivered ==
  ASSUME Inv, LastByte \in Nat, NEW p \in Nat, NEW outcome, OutcomeOK(heap, outcome),
         Deliver(p, outcome), UNCHANGED << constants, globals >>
  PROVE  Inv'
<1>1. /\ HeapOK(heap) /\ Singletons(heap) /\ FramesOK(heap, frames) /\ Len(heap) \in Nat
      /\ stack \in Slots(StackSize, heap) /\ sp \in Nat
      /\ globals \in Slots(GlobalsSize, heap)
      /\ status \in {"running", "halted", "error", "crashed"}
  BY InvParts DEF HeapOK
<1>2. FramesOK(heap, Goto(LastByte))
  BY GotoOK
<1>3. \A a : Ref(a).is = "ref" /\ Ref(a).ref = a
  BY DEF Ref
<1>4. \A o : New(o).is = "new" /\ New(o).obj = o
  BY DEF New
<1>5. Failed.is = "error" /\ Panic.is = "panic"
  BY DEF Failed, Panic
<1>6. CASE outcome.is = "ref" /\ Continue /\ Push(p, outcome.ref) /\ UNCHANGED heap
  <2>1. outcome.ref \in 0..Len(heap)
    BY <1>3, <1>4, <1>5, <1>6 DEF OutcomeOK
  <2>2. /\ HeapOK(heap') /\ Singletons(heap') /\ Later(heap, heap') /\ heap' = heap
    BY <1>6, SameHeap
  <2>3. /\ stack' \in Slots(StackSize, heap') /\ sp' \in Nat /\ status' \in {status, "error"}
    BY <1>6, <2>1, <2>2, Pushed
  <2>4. FramesOK(heap', frames')
    BY <1>2, <1>6, <2>2 DEF Continue
  <2> QED BY <1>1, <2>2, <2>3, <2>4, InvNext
<1>7. CASE outcome.is = "new" /\ Continue /\ heap' = Append(heap, outcome.obj)
           /\ Push(p, Len(heap) + 1)
  <2>1. Addable(heap, outcome.obj)
    BY <1>3, <1>4, <1>5, <1>7 DEF OutcomeOK
  <2>2. /\ HeapOK(heap') /\ Singletons(heap') /\ Later(heap, heap') /\ Len(heap') = Len(heap) + 1
    BY <1>1, <1>7, <2>1, HeapGrows
  <2>3. Len(heap) + 1 \in 0..Len(heap')
    BY <1>1, <2>2
  <2>4. /\ stack' \in Slots(StackSize, heap') /\ sp' \in Nat /\ status' \in {status, "error"}
    BY <1>7, <2>2, <2>3, Pushed
  <2>5. FramesOK(heap', frames')
    BY <1>1, <1>2, <1>7, <2>2, FramesLater DEF Continue
  <2>6. globals' \in Slots(GlobalsSize, heap')
    BY <1>1, <2>2, SlotsLater
  <2> QED BY <1>1, <2>2, <2>4, <2>5, <2>6, InvNext
<1>8. CASE Continue /\ Fail(p) /\ UNCHANGED heap
  <2>1. /\ HeapOK(heap') /\ Singletons(heap') /\ Later(heap, heap') /\ heap' = heap
    BY <1>8, SameHeap
  <2> QED BY <1>1, <1>2, <1>8, <2>1, InvNext DEF Continue, Fail
<1>9. CASE status' = "crashed" /\ UNCHANGED << heap, frames, stack, sp >>
  <2>1. /\ HeapOK(heap') /\ Singletons(heap') /\ Later(heap, heap') /\ heap' = heap
    BY <1>9, SameHeap
  <2> QED BY <1>1, <1>9, <2>1, InvNext
<1> QED BY <1>6, <1>7, <1>8, <1>9 DEF Deliver

-----------------------------------------------------------------------------
(* The cases of Run, one lemma for each kind.                              *)

(* push of a reference that is at hand.                                    *)
LEMMA PushesKeepInv ==
  ASSUME Inv,
         \/ PushConstant \/ PushSingleton \/ GetGlobal \/ GetLocal
         \/ GetBuiltin \/ GetFree \/ CurrentClosure
  PROVE  Inv'
<1>1. /\ Len(heap) \in Nat /\ Len(heap) >= 10 /\ sp \in Nat
      /\ constants \in Seq(1..Len(heap))
      /\ stack \in [0..(StackSize - 1) -> 0..Len(heap)]
      /\ globals \in [0..(GlobalsSize - 1) -> 0..Len(heap)]
      /\ StackSize \in Nat /\ GlobalsSize \in Nat
  BY SizesAssumption DEF Inv, TypeOK
<1>2. \A a \in 0..Len(heap) : OutcomeOK(heap, Ref(a))
  BY <1>1, References
<1>3. CASE PushConstant
  <2>1. Executes({"OpConstant"}) /\ Deliver(sp, Ref(constants[Operand + 1]))
        /\ UNCHANGED << constants, globals >>
    BY <1>3 DEF PushConstant
  <2>2. Op = "OpConstant" /\ Operand \in Nat /\ LastByte \in Nat /\ InRange
    BY <2>1, Fetched DEF WideOps
  <2>3. Operand < Len(constants)
    BY <2>2 DEF InRange
  <2>4. constants[Operand + 1] \in 0..Len(heap)
    BY <1>1, <2>2, <2>3
  <2> QED BY <1>1, <1>2, <2>1, <2>2, <2>4, Delivered
<1>4. CASE PushSingleton
  <2> DEFINE a == CASE Op = "OpTrue" -> True
                    [] Op = "OpFalse" -> False
                    [] Op = "OpNull" -> Null
  <2>1. Executes({"OpTrue", "OpFalse", "OpNull"}) /\ Deliver(sp, Ref(a))
        /\ UNCHANGED << constants, globals >>
    BY <1>4 DEF PushSingleton
  <2>2. Op \in {"OpTrue", "OpFalse", "OpNull"} /\ LastByte \in Nat
    BY <2>1, Fetched
  <2>3. a \in 0..Len(heap)
    BY <1>1, <2>2 DEF True, False, Null
  <2> HIDE DEF a
  <2> QED BY <1>1, <1>2, <2>1, <2>2, <2>3, Delivered
<1>5. CASE GetGlobal
  <2>1. Executes({"OpGetGlobal"}) /\ Deliver(sp, Ref(globals[Operand]))
        /\ UNCHANGED << constants, globals >>
    BY <1>5 DEF GetGlobal
  <2>2. Op = "OpGetGlobal" /\ Operand \in Nat /\ LastByte \in Nat /\ InRange
    BY <2>1, Fetched DEF WideOps
  <2>3. Operand < GlobalsSize
    BY <2>2 DEF InRange
  <2>4. globals[Operand] \in 0..Len(heap)
    BY <1>1, <2>2, <2>3
  <2> QED BY <1>1, <1>2, <2>1, <2>2, <2>4, Delivered
<1>6. CASE GetLocal
  <2>1. Executes({"OpGetLocal"}) /\ Deliver(sp, Ref(stack[LocalSlot(Operand)]))
        /\ UNCHANGED << constants, globals >>
    BY <1>6 DEF GetLocal
  <2>2. Op = "OpGetLocal" /\ Operand \in Nat /\ LastByte \in Nat /\ InRange
    BY <2>1, Fetched DEF NarrowOps
  <2>3. LocalSlot(Operand) \in 0..(StackSize - 1)
    <3>1. LocalSlot(Operand) < StackSize
      BY <2>2 DEF InRange
    <3>2. LocalSlot(Operand) \in Nat
      BY <2>2, CurrentFrame DEF LocalSlot
    <3> QED BY <1>1, <3>1, <3>2
  <2>4. stack[LocalSlot(Operand)] \in 0..Len(heap)
    BY <1>1, <2>3
  <2> QED BY <1>1, <1>2, <2>1, <2>2, <2>4, Delivered
<1>7. CASE GetBuiltin
  <2>1. Executes({"OpGetBuiltin"}) /\ Deliver(sp, Ref(BuiltinRef(Operand)))
        /\ UNCHANGED << constants, globals >>
    BY <1>7 DEF GetBuiltin
  <2>2. Op = "OpGetBuiltin" /\ Operand \in Nat /\ LastByte \in Nat /\ InRange
    BY <2>1, Fetched DEF NarrowOps
  <2>3. Operand < 7
    BY <2>2 DEF InRange, BuiltinNames
  <2>4. BuiltinRef(Operand) \in 0..Len(heap)
    BY <1>1, <2>2, <2>3 DEF BuiltinRef
  <2> QED BY <1>1, <1>2, <2>1, <2>2, <2>4, Delivered
<1>8. CASE GetFree
  <2>1. Executes({"OpGetFree"}) /\ Deliver(sp, Ref(Free[Operand + 1]))
        /\ UNCHANGED << constants, globals >>
    BY <1>8 DEF GetFree
  <2>2. Op = "OpGetFree" /\ Operand \in Nat /\ LastByte \in Nat /\ InRange
    BY <2>1, Fetched DEF NarrowOps
  <2>3. Operand < Len(Free) /\ Free \in Seq(0..Len(heap))
    BY <2>2, CurrentFrame DEF InRange
  <2>4. Free[Operand + 1] \in 0..Len(heap)
    BY <2>2, <2>3
  <2> QED BY <1>1, <1>2, <2>1, <2>2, <2>4, Delivered
<1>9. CASE CurrentClosure
  <2>1. Executes({"OpCurrentClosure"}) /\ Deliver(sp, Ref(Frame.cl))
        /\ UNCHANGED << constants, globals >>
    BY <1>9 DEF CurrentClosure
  <2>2. LastByte \in Nat /\ Frame.cl \in 0..Len(heap)
    BY <1>1, <2>1, Fetched, CurrentFrame
  <2> QED BY <1>1, <1>2, <2>1, <2>2, Delivered
<1> QED BY <1>3, <1>4, <1>5, <1>6, <1>7, <1>8, <1>9

(* Operations on the topmost values.                                       *)
LEMMA OneOrTwoRead ==
  ASSUME Inv, OperandsPresent
  PROVE  /\ Op \in {"OpAdd", "OpSub", "OpMul", "OpDiv", "OpEqual", "OpNotEqual",
                    "OpGreaterThan", "OpIndex"} =>
              /\ sp - 2 \in Nat /\ Peek(2) \in 0..Len(heap) /\ Peek(1) \in 0..Len(heap)
         /\ Op \in {"OpSetGlobal", "OpSetLocal", "OpPop", "OpMinus", "OpBang",
                    "OpJumpNotTruthy", "OpReturnValue"} =>
              sp - 1 \in Nat /\ Peek(1) \in 0..Len(heap)
<1>1. sp \in Nat /\ StackSize \in Nat
  BY SizesAssumption DEF Inv, TypeOK
<1>2. CASE Op \in {"OpAdd", "OpSub", "OpMul", "OpDiv", "OpEqual", "OpNotEqual",
                   "OpGreaterThan", "OpIndex"}
  <2>1. Reads = 2
    BY <1>2 DEF Reads
  <2>2. 2 <= sp /\ sp <= StackSize
    BY <1>1, <1>2, <2>1 DEF OperandsPresent
  <2>3. Peek(2) \in 0..Len(heap) /\ Peek(1) \in 0..Len(heap)
    BY <1>1, <2>2, Peeked
  <2> QED BY <1>1, <1>2, <2>2, <2>3
<1>3. CASE Op \in {"OpSetGlobal", "OpSetLocal", "OpPop", "OpMinus", "OpBang",
                   "OpJumpNotTruthy", "OpReturnValue"}
  <2>1. Reads = 1
    BY <1>3 DEF Reads
  <2>2. 1 <= sp /\ sp <= StackSize
    BY <1>1, <1>3, <2>1 DEF OperandsPresent
  <2>3. Peek(1) \in 0..Len(heap)
    BY <1>1, <2>2, Peeked
  <2> QED BY <1>1, <1>3, <2>2, <2>3
<1> QED BY <1>2, <1>3

(* Operators pop their operands and push what came of them.                *)
LEMMA OperationsKeepInv ==
  ASSUME Inv,
         BinaryOperation \/ Comparison \/ MinusOperator \/ BangOperator \/ Index
  PROVE  Inv'
<1>1. HeapOK(heap) /\ Len(heap) \in Nat /\ Len(heap) >= 10
  BY InvParts DEF HeapOK
<1>2. CASE BinaryOperation
  <2>1. Executes({"OpAdd", "OpSub", "OpMul", "OpDiv"})
        /\ Deliver(sp - 2, BinaryOutcome(heap, Op, Peek(2), Peek(1)))
        /\ UNCHANGED << constants, globals >>
    BY <1>2 DEF BinaryOperation
  <2>2. Op \in {"OpAdd", "OpSub", "OpMul", "OpDiv"} /\ LastByte \in Nat /\ OperandsPresent
    BY <2>1, Fetched
  <2>3. sp - 2 \in Nat /\ Peek(2) \in 0..Len(heap) /\ Peek(1) \in 0..Len(heap)
    BY <2>2, OneOrTwoRead
  <2>4. OutcomeOK(heap, BinaryOutcome(heap, Op, Peek(2), Peek(1)))
    BY <1>1, <2>2, <2>3, BinaryResult
  <2> QED BY <2>1, <2>2, <2>3, <2>4, Delivered
<1>3. CASE Comparison
  <2>1. Executes({"OpEqual", "OpNotEqual", "OpGreaterThan"})
        /\ Deliver(sp - 2, ComparisonOutcome(heap, Op, Peek(2), Peek(1)))
        /\ UNCHANGED << constants, globals >>
    BY <1>3 DEF Comparison
  <2>2. Op \in {"OpEqual", "OpNotEqual", "OpGreaterThan"} /\ LastByte \in Nat /\ OperandsPresent
    BY <2>1, Fetched
  <2>3. sp - 2 \in Nat
    BY <2>2, OneOrTwoRead
  <2>4. OutcomeOK(heap, ComparisonOutcome(heap, Op, Peek(2), Peek(1)))
    BY <1>1, <2>2, ComparisonResult
  <2> QED BY <2>1, <2>2, <2>3, <2>4, Delivered
<1>4. CASE MinusOperator
  <2>1. Executes({"OpMinus"}) /\ Deliver(sp - 1, MinusOutcome(heap, Peek(1)))
        /\ UNCHANGED << constants, globals >>
    BY <1>4 DEF MinusOperator
  <2>2. Op = "OpMinus" /\ LastByte \in Nat /\ OperandsPresent
    BY <2>1, Fetched
  <2>3. sp - 1 \in Nat /\ Peek(1) \in 0..Len(heap)
    BY <2>2, OneOrTwoRead
  <2>4. OutcomeOK(heap, MinusOutcome(heap, Peek(1)))
    BY <1>1, <2>3, MinusResult
  <2> QED BY <2>1, <2>2, <2>3, <2>4, Delivered
<1>5. CASE BangOperator
  <2>1. Executes({"OpBang"}) /\ Deliver(sp - 1, Ref(NativeBool(~ IsTruthy(Peek(1)))))
        /\ UNCHANGED << constants, globals >>
    BY <1>5 DEF BangOperator
  <2>2. Op = "OpBang" /\ LastByte \in Nat /\ OperandsPresent
    BY <2>1, Fetched
  <2>3. sp - 1 \in Nat
    BY <2>2, OneOrTwoRead
  <2>4. (~ IsTruthy(Peek(1))) \in BOOLEAN
    BY DEF IsTruthy
  <2>5. OutcomeOK(heap, Ref(NativeBool(~ IsTruthy(Peek(1)))))
    BY <1>1, <2>4, References
  <2> QED BY <2>1, <2>2, <2>3, <2>5, Delivered
<1>6. CASE Index
  <2>1. Executes({"OpIndex"}) /\ Deliver(sp - 2, IndexOutcome(heap, Peek(2), Peek(1)))
        /\ UNCHANGED << constants, globals >>
    BY <1>6 DEF Index
  <2>2. Op = "OpIndex" /\ LastByte \in Nat /\ OperandsPresent
    BY <2>1, Fetched
  <2>3. sp - 2 \in Nat /\ Peek(2) \in 0..Len(heap) /\ Peek(1) \in 0..Len(heap)
    BY <2>2, OneOrTwoRead
  <2>4. OutcomeOK(heap, IndexOutcome(heap, Peek(2), Peek(1)))
    BY <1>1, <2>3, IndexResult
  <2> QED BY <2>1, <2>2, <2>3, <2>4, Delivered
<1> QED BY <1>2, <1>3, <1>4, <1>5, <1>6

(* The turns of the loop that only move ip, apart.                         *)
Jumped  == MoveIp /\ Jump
Skipped == MoveIp /\ Skip

(* Instructions that make no object and push none.                         *)
LEMMA MovesKeepInv ==
  ASSUME Inv,
         \/ SetGlobal \/ SetLocal \/ Pop \/ Jumped \/ JumpNotTruthy
         \/ Skipped \/ Halt \/ Crash \/ Stopped
  PROVE  Inv'
<1>1. /\ FramesOK(heap, frames)
      /\ stack \in Slots(StackSize, heap) /\ sp \in Nat
      /\ globals \in Slots(GlobalsSize, heap)
      /\ status \in {"running", "halted", "error", "crashed"}
      /\ StackSize \in Nat /\ GlobalsSize \in Nat
  BY InvParts, SizesAssumption
<1>2. UNCHANGED heap /\ constants' = constants
  BY DEF SetGlobal, SetLocal, Pop, Jumped, MoveIp, Jump, JumpNotTruthy, Skipped, Skip, Halt, Crash, Stopped, vars
<1>3. HeapOK(heap') /\ Singletons(heap') /\ Later(heap, heap') /\ heap' = heap
  BY <1>2, SameHeap
<1>4. \A ip \in Nat \cup {-1} : FramesOK(heap, Goto(ip))
  BY GotoOK
<1>5. CASE SetGlobal
  <2>1. Executes({"OpSetGlobal"}) /\ globals' = [globals EXCEPT ![Operand] = Peek(1)]
        /\ sp' = sp - 1 /\ frames' = Goto(LastByte) /\ UNCHANGED << stack, status >>
    BY <1>5 DEF SetGlobal, Continue
  <2>2. Op = "OpSetGlobal" /\ LastByte \in Nat /\ OperandsPresent
    BY <2>1, Fetched
  <2>3. sp - 1 \in Nat /\ Peek(1) \in 0..Len(heap)
    BY <2>2, OneOrTwoRead
  <2>4. globals' \in Slots(GlobalsSize, heap)
    BY <1>1, <2>1, <2>3 DEF Slots
  <2> QED BY <1>1, <1>2, <1>3, <1>4, <2>1, <2>2, <2>3, <2>4, InvNext
<1>6. CASE SetLocal
  <2>1. Executes({"OpSetLocal"}) /\ stack' = [stack EXCEPT ![LocalSlot(Operand)] = Peek(1)]
        /\ sp' = sp - 1 /\ frames' = Goto(LastByte) /\ UNCHANGED << globals, status >>
    BY <1>6 DEF SetLocal, Continue
  <2>2. Op = "OpSetLocal" /\ LastByte \in Nat /\ OperandsPresent
    BY <2>1, Fetched
  <2>3. sp - 1 \in Nat /\ Peek(1) \in 0..Len(heap)
    BY <2>2, OneOrTwoRead
  <2>4. stack' \in Slots(StackSize, heap)
    BY <1>1, <2>1, <2>3 DEF Slots
  <2> QED BY <1>1, <1>2, <1>3, <1>4, <2>1, <2>2, <2>3, <2>4, InvNext
<1>7. CASE Pop
  <2>1. Executes({"OpPop"}) /\ sp' = sp - 1 /\ frames' = Goto(LastByte)
        /\ UNCHANGED << stack, globals, status >>
    BY <1>7 DEF Pop, Continue
  <2>2. Op = "OpPop" /\ LastByte \in Nat /\ OperandsPresent
    BY <2>1, Fetched
  <2>3. sp - 1 \in Nat
    BY <2>2, OneOrTwoRead
  <2> QED BY <1>1, <1>2, <1>3, <1>4, <2>1, <2>2, <2>3, InvNext
<1>8. CASE Jumped
  <2>1. Executes({"OpJump"}) /\ frames' = Goto(Operand - 1)
        /\ UNCHANGED << stack, sp, globals, status >>
    BY <1>8 DEF Jumped, MoveIp, Jump
  <2>2. Operand \in Nat
    BY <2>1, Fetched DEF WideOps
  <2>3. Operand - 1 \in Nat \cup {-1}
    BY <2>2
  <2> QED BY <1>1, <1>2, <1>3, <1>4, <2>1, <2>3, InvNext
<1>9. CASE JumpNotTruthy
  <2>1. Executes({"OpJumpNotTruthy"})
        /\ frames' = Goto(IF IsTruthy(Peek(1)) THEN LastByte ELSE Operand - 1)
        /\ sp' = sp - 1 /\ UNCHANGED << stack, globals, status >>
    BY <1>9 DEF JumpNotTruthy
  <2>2. /\ Op = "OpJumpNotTruthy" /\ LastByte \in Nat /\ OperandsPresent
        /\ IsTruthy(Peek(1)) \/ Operand \in Nat
    BY <2>1, Fetched DEF WideOps
  <2>3. sp - 1 \in Nat
    BY <2>2, OneOrTwoRead
  <2>4. (IF IsTruthy(Peek(1)) THEN LastByte ELSE Operand - 1) \in Nat \cup {-1}
    BY <2>2
  <2> QED BY <1>1, <1>2, <1>3, <1>4, <2>1, <2>3, <2>4, InvNext
<1>10. CASE Skipped
  <2>1. frames' = Goto(Lip) /\ UNCHANGED << stack, sp, globals, status >>
    BY <1>10 DEF Skipped, MoveIp, Skip
  <2>2. Lip \in Nat
    BY CurrentFrame
  <2> QED BY <1>1, <1>2, <1>3, <1>4, <2>1, <2>2, InvNext
<1>11. CASE Halt \/ Crash \/ Stopped
  <2>1. /\ UNCHANGED << frames, stack, sp, globals >>
        /\ status' \in {"running", "halted", "error", "crashed"}
    BY <1>1, <1>11 DEF Halt, Crash, Stopped, vars
  <2> QED BY <1>1, <1>2, <1>3, <2>1, InvNext
<1> QED BY <1>5, <1>6, <1>7, <1>8, <1>9, <1>10, <1>11

(* Instructions that make an object of the topmost values.                 *)
LEMMA BuildsKeepInv ==
  ASSUME Inv, BuildArray \/ BuildHash \/ PushClosure
  PROVE  Inv'
<1>1. /\ HeapOK(heap) /\ Len(heap) \in Nat /\ Len(heap) >= 10 /\ sp \in Nat
      /\ StackSize \in Nat /\ constants \in Seq(1..Len(heap))
  BY InvParts, SizesAssumption DEF HeapOK
<1>2. CASE BuildArray
  <2>1. Executes({"OpArray"}) /\ Deliver(sp - Operand, New(Array(TopValues(Operand))))
        /\ UNCHANGED << constants, globals >>
    BY <1>2 DEF BuildArray
  <2>2. Op = "OpArray" /\ Operand \in Nat /\ LastByte \in Nat /\ OperandsPresent
    BY <2>1, Fetched DEF WideOps
  <2>3. Reads = Operand
    BY <2>2 DEF Reads
  <2>4. Operand <= sp /\ sp <= StackSize
    BY <2>2, <2>3 DEF OperandsPresent, TakesSlice
  <2>5. sp - Operand \in Nat /\ TopValues(Operand) \in Seq(0..Len(heap))
    BY <1>1, <2>2, <2>4, Taken
  <2>6. OutcomeOK(heap, New(Array(TopValues(Operand))))
    BY <2>5, MadeArray
  <2> QED BY <2>1, <2>2, <2>5, <2>6, Delivered
<1>3. CASE BuildHash
  <2>1. Executes({"OpHash"}) /\ Deliver(sp - Operand, HashOutcome(heap, TopValues(Operand)))
        /\ UNCHANGED << constants, globals >>
    BY <1>3 DEF BuildHash
  <2>2. Op = "OpHash" /\ Operand \in Nat /\ LastByte \in Nat /\ OperandsPresent
    BY <2>1, Fetched DEF WideOps
  <2>3. Reads = Operand
    BY <2>2 DEF Reads
  <2>4. Operand <= sp /\ (Operand = 0 \/ sp <= StackSize)
    BY <2>2, <2>3 DEF OperandsPresent
  <2>5. sp - Operand \in Nat /\ TopValues(Operand) \in Seq(0..Len(heap))
    BY <1>1, <2>2, <2>4, Taken
  <2>6. OutcomeOK(heap, HashOutcome(heap, TopValues(Operand)))
    BY <1>1, <2>5, HashResult
  <2> QED BY <2>1, <2>2, <2>5, <2>6, Delivered
<1>4. CASE PushClosure
  <2>1. Executes({"OpClosure"}) /\ UNCHANGED << constants, globals >>
    BY <1>4 DEF PushClosure
  <2>2. Op = "OpClosure" /\ Operand \in Nat /\ Operands[2] \in Nat /\ LastByte \in Nat
        /\ OperandsPresent /\ InRange
    BY <2>1, Fetched
  <2>3. CASE IsFunctionConstant
             /\ Deliver(sp - Operands[2],
                        New(Closure(constants[Operand + 1], TopValues(Operands[2]))))
    <3>1. Reads = Operands[2]
      BY <2>2, <2>3 DEF Reads
    <3>2. Operands[2] <= sp /\ sp <= StackSize
      BY <2>2, <2>3, <3>1 DEF OperandsPresent, TakesSlice
    <3>3. sp - Operands[2] \in Nat /\ TopValues(Operands[2]) \in Seq(0..Len(heap))
      BY <1>1, <2>2, <3>2, Taken
    <3>4. constants[Operand + 1] \in 1..Len(heap)
      <4>1. Operand < Len(constants)
        BY <2>2 DEF InRange
      <4> QED BY <1>1, <2>2, <4>1
    <3>5. Is(heap, constants[Operand + 1], "COMPILED_FUNCTION")
      BY <2>3, <3>4 DEF IsFunctionConstant, Is, Nil
    <3>6. OutcomeOK(heap, New(Closure(constants[Operand + 1], TopValues(Operands[2]))))
      BY <3>3, <3>4, <3>5, MadeClosure
    <3> QED BY <2>1, <2>2, <2>3, <3>3, <3>6, Delivered
  <2>4. CASE Deliver(sp, Failed)
    <3>1. OutcomeOK(heap, Failed)
      BY <1>1, References
    <3> QED BY <1>1, <2>1, <2>2, <2>4, <3>1, Delivered
  <2> QED BY <1>4, <2>3, <2>4 DEF PushClosure
<1> QED BY <1>2, <1>3, <1>4

(* A call opens a frame, a return drops one.                               *)
LEMMA FrameOpened ==
  ASSUME Inv, NEW ip \in Nat, NEW cl, cl \in 1..Len(heap), Is(heap, cl, "CLOSURE"),
         NEW bp, bp \in Nat, bp > 0, Len(frames) < MaxFrames
  PROVE  FramesOK(heap, Append(Goto(ip), NewFrame(cl, bp)))
<1> DEFINE F == [cl : 1..Len(heap), ip : Nat \cup {-1}, bp : Nat]
           fs == Goto(ip)
           gs == Append(fs, NewFrame(cl, bp))
<1>1. FramesOK(heap, fs) /\ Len(heap) \in Nat /\ MaxFrames \in Nat
  BY GotoOK, InvParts, SizesAssumption DEF HeapOK
<1>2. Len(fs) = Len(frames) /\ Len(fs) \in 1..MaxFrames /\ fs \in Seq(F)
  <2>1. frames \in [1..Len(frames) -> F] /\ Len(frames) \in Nat
    <3>1. frames \in Seq(F)
      BY CurrentFrame
    <3> HIDE DEF F
    <3> QED BY <3>1, LenProperties
  <2>2. DOMAIN fs = DOMAIN frames
    BY <2>1 DEF Goto
  <2>3. fs \in Seq(F) /\ Len(fs) \in 1..MaxFrames
    BY <1>1 DEF FramesOK
  <2>4. DOMAIN fs = 1..Len(fs)
    <3> HIDE DEF F, fs
    <3> QED BY <2>3, LenProperties
  <2>5. Len(fs) = Len(frames)
    <3> HIDE DEF F, fs
    <3> QED BY <2>1, <2>2, <2>3, <2>4, SameLength, LenProperties
  <2> QED BY <2>3, <2>5
<1>3. /\ NewFrame(cl, bp) \in F
      /\ NewFrame(cl, bp).cl = cl /\ NewFrame(cl, bp).bp = bp
  BY DEF NewFrame
<1>4. /\ gs \in Seq(F) /\ Len(gs) = Len(fs) + 1
      /\ \A k \in 1..Len(fs) : gs[k] = fs[k]
      /\ gs[Len(fs) + 1] = NewFrame(cl, bp)
  <2> HIDE DEF F, fs
  <2> QED BY <1>2, <1>3
<1> HIDE DEF fs, gs
<1>5. ASSUME NEW k \in 1..Len(gs)
      PROVE  Is(heap, gs[k].cl, "CLOSURE") /\ (gs[k].bp = 0 <=> k = 1)
  <2>1. CASE k \in 1..Len(fs)
    BY <1>1, <1>4, <2>1 DEF FramesOK
  <2>2. CASE k = Len(fs) + 1
    BY <1>2, <1>3, <1>4, <2>2
  <2> QED BY <1>2, <1>4, <2>1, <2>2
<1>6. Len(gs) \in 1..MaxFrames
  BY <1>1, <1>2, <1>4
<1>7. FramesOK(heap, gs)
  BY <1>4, <1>5, <1>6 DEF FramesOK
<1> QED BY <1>7 DEF gs, fs

(* A return in a called function leaves its caller on top.                 *)
LEMMA FrameDropped ==
  ASSUME Inv, Frame.bp > 0
  PROVE  FramesOK(heap, SubSeq(frames, 1, Len(frames) - 1))
<1> DEFINE F == [cl : 1..Len(heap), ip : Nat \cup {-1}, bp : Nat]
           gs == SubSeq(frames, 1, Len(frames) - 1)
<1>1. FramesOK(heap, frames) /\ MaxFrames \in Nat /\ Len(frames) \in 1..MaxFrames
      /\ frames \in Seq(F) /\ Len(frames) # 1
  BY InvParts, CurrentFrame, SizesAssumption
<1>2. /\ gs \in Seq(F) /\ Len(gs) = Len(frames) - 1
      /\ \A k \in 1..Len(gs) : gs[k] = frames[k]
  <2> HIDE DEF F
  <2>1. Len(frames) - 1 \in Int /\ 1 <= Len(frames) - 1
    <3>1. \A m \in Nat : \A k \in 1..m : k # 1 => k - 1 \in Int /\ 1 <= k - 1
      OBVIOUS
    <3> QED BY <1>1, <3>1
  <2>2. \A i \in 1..(Len(frames) - 1) : frames[i] \in F
    BY <1>1, ElementOfSeq
  <2> QED BY <1>1, <2>1, <2>2, SubSeqProperties
<1> HIDE DEF gs
<1>3. Len(gs) \in 1..MaxFrames /\ 1..Len(gs) \subseteq 1..Len(frames)
  BY <1>1, <1>2
<1>4. FramesOK(heap, gs)
  BY <1>1, <1>2, <1>3 DEF FramesOK
<1> QED BY <1>4 DEF gs

(* Calls of closures and builtins, failed calls, and returns.              *)
LEMMA CallsKeepInv ==
  ASSUME Inv, CallClosure \/ CallBuiltin \/ CallFails \/ Return
  PROVE  Inv'
<1>1. /\ HeapOK(heap) /\ Len(heap) \in Nat /\ Len(heap) >= 10 /\ sp \in Nat
      /\ StackSize \in Nat /\ stack \in Slots(StackSize, heap)
      /\ globals \in Slots(GlobalsSize, heap)
      /\ status \in {"running", "halted", "error", "crashed"}
  BY InvParts, SizesAssumption DEF HeapOK
<1>2. ASSUME Executes({"OpCall"})
      PROVE  /\ Op = "OpCall" /\ Operand \in Nat /\ LastByte \in Nat
             /\ Operand + 1 <= sp
             /\ Callee \in 0..Len(heap)
             /\ OperandsPresent /\ FrameAvailable
  <2>1. Op = "OpCall" /\ Operand \in Nat /\ LastByte \in Nat /\ OperandsPresent /\ FrameAvailable
    BY <1>2, Fetched DEF NarrowOps
  <2>2. Reads = Operand + 1
    BY <2>1 DEF Reads
  <2>3. Operand + 1 <= sp /\ sp - (Operand + 1) < StackSize
    BY <2>1, <2>2 DEF OperandsPresent
  <2>4. Callee \in 0..Len(heap)
    BY <2>1, <2>3, Peeked DEF Callee
  <2> QED BY <2>1, <2>3, <2>4
<1>3. CASE CallClosure
  <2>1. /\ Executes({"OpCall"}) /\ CallsClosure
        /\ frames' = Append(Goto(LastByte), NewFrame(Callee, sp - Operand))
        /\ sp' = sp - Operand + heap[heap[Callee].fn].numLocals
        /\ UNCHANGED << heap, constants, stack, globals, status >>
    BY <1>3 DEF CallClosure
  <2>2. Is(heap, Callee, "CLOSURE") /\ Callee # Nil /\ heap[Callee].t = "CLOSURE"
    BY <2>1 DEF CallsClosure, Is
  <2>3. Callee \in 1..Len(heap) /\ heap[Callee].fn \in 1..Len(heap)
        /\ heap[heap[Callee].fn].t = "COMPILED_FUNCTION"
    BY <1>1, <1>2, <2>1, <2>2, Referent
  <2>4. heap[heap[Callee].fn].numLocals \in Nat
    <3>1. heap[Callee].fn \in 0..Len(heap) /\ heap[Callee].fn # Nil
      BY <1>1, <2>3 DEF Nil
    <3> QED BY <1>1, <2>3, <3>1, Referent
  <2>5. Len(frames) < MaxFrames
    BY <1>2, <2>1 DEF FrameAvailable
  <2>6. sp - Operand \in Nat /\ sp - Operand > 0
    BY <1>1, <1>2, <2>1
  <2>7. FramesOK(heap, frames')
    BY <1>2, <2>1, <2>2, <2>3, <2>5, <2>6, FrameOpened
  <2>8. HeapOK(heap') /\ Singletons(heap') /\ Later(heap, heap') /\ heap' = heap
    BY <2>1, SameHeap
  <2>9. sp' \in Nat
    BY <2>1, <2>4, <2>6
  <2> QED BY <1>1, <2>1, <2>7, <2>8, <2>9, InvNext
<1>4. CASE CallBuiltin
  <2>1. /\ Executes({"OpCall"}) /\ CallsBuiltin /\ UNCHANGED << constants, globals >>
        /\ Deliver(sp - Operand - 1,
                   BuiltinOutcome(heap, heap[Callee].name, TopValues(Operand)))
    BY <1>4 DEF CallBuiltin
  <2>2. sp <= StackSize
    BY <1>2, <2>1 DEF OperandsPresent, TakesSlice
  <2>3. sp - Operand - 1 \in Nat /\ TopValues(Operand) \in Seq(0..Len(heap))
    BY <1>1, <1>2, <2>1, <2>2, Taken
  <2>4. heap[Callee].name \in { BuiltinNames[i] : i \in 1..7 }
    BY <1>1, <1>2, <2>1, Referent DEF CallsBuiltin, Is
  <2>5. OutcomeOK(heap, BuiltinOutcome(heap, heap[Callee].name, TopValues(Operand)))
    BY <1>1, <2>3, <2>4, BuiltinResult
  <2> QED BY <1>2, <2>1, <2>3, <2>5, Delivered
<1>5. CASE CallFails
  <2>1. Executes({"OpCall"}) /\ Deliver(sp, Failed) /\ UNCHANGED << constants, globals >>
    BY <1>5 DEF CallFails
  <2>2. OutcomeOK(heap, Failed)
    BY <1>1, References
  <2> QED BY <1>1, <1>2, <2>1, <2>2, Delivered
<1>6. CASE Return
  <2> DEFINE a == IF Op = "OpReturnValue" THEN Peek(1) ELSE Null
  <2>1. /\ Executes({"OpReturnValue", "OpReturn"}) /\ UNCHANGED << heap, constants, globals >>
        /\ frames' = SubSeq(frames, 1, Len(frames) - 1) /\ Push(ReturnSlot, a)
    BY <1>6 DEF Return
  <2>2. Op \in {"OpReturnValue", "OpReturn"} /\ InRange /\ OperandsPresent
    BY <2>1, Fetched
  <2>3. a \in 0..Len(heap)
    BY <1>1, <2>2, OneOrTwoRead DEF Null
  <2>4. Frame.bp > 0
    BY <2>2 DEF InRange
  <2>5. ReturnSlot \in Nat
    BY <2>4, CurrentFrame DEF ReturnSlot
  <2>6. HeapOK(heap') /\ Singletons(heap') /\ Later(heap, heap') /\ heap' = heap
    BY <2>1, SameHeap
  <2> HIDE DEF a
  <2>7. stack' \in Slots(StackSize, heap') /\ sp' \in Nat /\ status' \in {status, "error"}
    BY <2>1, <2>3, <2>5, <2>6, Pushed
  <2>8. FramesOK(heap', frames')
    BY <2>1, <2>4, <2>6, FrameDropped
  <2> QED BY <1>1, <2>1, <2>6, <2>7, <2>8, InvNext
<1> QED BY <1>3, <1>4, <1>5, <1>6

(* Every step keeps the invariant.                                         *)
LEMMA NextKeepsInv ==
  ASSUME Inv, [Next]_vars
  PROVE  Inv'
<1>1. CASE PushConstant \/ PushSingleton \/ GetGlobal \/ GetLocal
           \/ GetBuiltin \/ GetFree \/ CurrentClosure
  BY <1>1, PushesKeepInv
<1>2. CASE BinaryOperation \/ Comparison \/ MinusOperator \/ BangOperator \/ Index
  BY <1>2, OperationsKeepInv
<1>3. CASE SetGlobal \/ SetLocal \/ Pop \/ Jumped \/ JumpNotTruthy
           \/ Skipped \/ Halt \/ Crash \/ Stopped
  BY <1>3, MovesKeepInv
<1>4. CASE BuildArray \/ BuildHash \/ PushClosure
  BY <1>4, BuildsKeepInv
<1>5. CASE CallClosure \/ CallBuiltin \/ CallFails \/ Return
  BY <1>5, CallsKeepInv
<1>6. CASE UNCHANGED vars
  BY <1>6 DEF vars, Inv, TypeOK, SingletonsAreShared
<1> QED BY <1>1, <1>2, <1>3, <1>4, <1>5, <1>6 DEF Next, Jumped, Skipped, MoveIp

-----------------------------------------------------------------------------
(* The machine that New makes.                                             *)
LEMMA Shared ==
  /\ Len(SharedObjects) = 10
  /\ \A S : (\A i \in 1..10 : SharedObjects[i] \in S) => SharedObjects \in Seq(S)
  /\ SharedObjects[1] = [t |-> "NULL"]
  /\ SharedObjects[2] = [t |-> "BOOLEAN", b |-> TRUE]
  /\ SharedObjects[3] = [t |-> "BOOLEAN", b |-> FALSE]
  /\ \A i \in 4..10 : SharedObjects[i] = [t |-> "BUILTIN", name |-> BuiltinNames[i - 3]]
<1> DEFINE n == [t |-> "NULL"]
           t == [t |-> "BOOLEAN", b |-> TRUE]
           f == [t |-> "BOOLEAN", b |-> FALSE]
           bs == [i \in 1..7 |-> [t |-> "BUILTIN", name |-> BuiltinNames[i]]]
           T == {n, t, f} \cup {bs[i] : i \in 1..7}
           s == << n, t, f >>
<1>1. SharedObjects = s \o bs
  BY DEF SharedObjects
<1>2. s \in Seq(T) /\ Len(s) = 3 /\ s[1] = n /\ s[2] = t /\ s[3] = f
  <2> HIDE DEF n, t, f, bs
  <2> QED OBVIOUS
<1>3. bs \in [1..7 -> T]
  <2> DEFINE b(i) == [t |-> "BUILTIN", name |-> BuiltinNames[i]]
  <2>1. \A i \in 1..7 : bs[i] \in T
    OBVIOUS
  <2>2. bs = [i \in 1..7 |-> bs[i]]
    OBVIOUS
  <2> HIDE DEF bs, T
  <2> QED BY <2>1, <2>2
<1>4. bs \in Seq(T) /\ Len(bs) = 7
  <2> HIDE DEF bs, T
  <2>1. bs \in Seq(T)
    BY <1>3, SeqDef
  <2>2. DOMAIN bs = 1..7 /\ DOMAIN bs = 1..Len(bs) /\ Len(bs) \in Nat
    BY <1>3, <2>1, LenProperties
  <2> QED BY <2>1, <2>2, SameLength
<1>5. /\ Len(s \o bs) = 10
      /\ \A i \in 1..10 : (s \o bs)[i] = IF i <= 3 THEN s[i] ELSE bs[i - 3]
      /\ s \o bs \in Seq(T)
  <2> HIDE DEF s, bs, T
  <2>1. /\ s \o bs \in Seq(T) /\ Len(s \o bs) = Len(s) + Len(bs)
        /\ \A i \in 1..(Len(s) + Len(bs)) :
             (s \o bs)[i] = IF i <= Len(s) THEN s[i] ELSE bs[i - Len(s)]
    BY <1>2, <1>4, ConcatProperties
  <2>2. Len(s) = 3 /\ Len(bs) = 7 /\ Len(s) + Len(bs) = 10
    BY <1>2, <1>4
  <2> QED BY <2>1, <2>2
<1>6. \A i \in 4..10 : (s \o bs)[i] = [t |-> "BUILTIN", name |-> BuiltinNames[i - 3]]
  <2> TAKE i \in 4..10
  <2>1. (s \o bs)[i] = bs[i - 3] /\ i - 3 \in 1..7
    <3> HIDE DEF s, bs, T
    <3>1. i \in 1..10 /\ ~ (i <= 3) /\ i - 3 \in 1..7
      OBVIOUS
    <3>2. (s \o bs)[i] = IF i <= 3 THEN s[i] ELSE bs[i - 3]
      BY <1>5, <3>1
    <3> QED BY <3>1, <3>2
  <2> QED BY <2>1
<1>7. ASSUME NEW S, \A i \in 1..10 : SharedObjects[i] \in S
      PROVE  SharedObjects \in Seq(S)
  <2>1. SharedObjects \in [1..10 -> T]
    <3> HIDE DEF s, bs, T
    <3> QED BY <1>1, <1>5, LenProperties
  <2>2. SharedObjects \in [1..10 -> S]
    <3> HIDE DEF s, bs, T
    <3> QED BY <1>7, <2>1
  <2> QED BY <2>2, SeqDef
<1>8. (s \o bs)[1] = n /\ (s \o bs)[2] = t /\ (s \o bs)[3] = f
  <2> HIDE DEF s, bs, n, t, f
  <2> QED BY SMTT(30), <1>2, <1>5
<1> QED BY <1>1, <1>5, <1>6, <1>7, <1>8

(* Constants refer to nothing, and none is null, true or false.            *)
LEMMA ConstantWellFormed ==
  ASSUME NEW o \in ConstantObjects, NEW n
  PROVE  WellFormed(o, n) /\ o.t \in {"INTEGER", "STRING", "COMPILED_FUNCTION"}
<1>1. CASE o \in [t : {"INTEGER"}, n : Int64]
  BY <1>1 DEF WellFormed, Keys
<1>2. CASE o \in [t : {"STRING"}, s : Seq(STRING)]
  BY <1>2 DEF WellFormed, Keys
<1>3. CASE o \in [ t : {"COMPILED_FUNCTION"}, ins : Seq(ByteValues),
                   numLocals : Nat, numParameters : Nat ]
  BY <1>3 DEF WellFormed
<1> QED BY <1>1, <1>2, <1>3 DEF ConstantObjects

(* Where the objects of the first heap are.                                *)
Listed(h) == h = [a \in 1..Len(h) |-> h[a]]

FirstObjects(c, fn, cl) == SharedObjects \o c \o << fn, cl >>

FirstLayout(h, c, fn, cl) ==
  /\ Listed(h)
  /\ Len(c) \in Nat /\ Len(h) = Len(c) + 12
  /\ \A a \in 1..10 : h[a] = SharedObjects[a]
  /\ \A a \in 11..(Len(c) + 10) : h[a] \in ConstantObjects
  /\ h[Len(c) + 11] = fn /\ h[Len(c) + 12] = cl

(* The heap of New, position by position.                                  *)
LEMMA FirstHeap ==
  ASSUME NEW c \in Seq(ConstantObjects), NEW fn, NEW cl,
         NEW h, h = FirstObjects(c, fn, cl)
  PROVE  FirstLayout(h, c, fn, cl)
<1> DEFINE T == {SharedObjects[i] : i \in 1..10} \cup ConstantObjects \cup {fn, cl}
           s == SharedObjects
           e == << fn, cl >>
<1>1. s \in Seq(T) /\ Len(s) = 10
  <2>1. \A i \in 1..10 : SharedObjects[i] \in T
    OBVIOUS
  <2> HIDE DEF T
  <2> QED BY <2>1, Shared
<1>2. c \in Seq(T) /\ Len(c) \in Nat /\ \A i \in 1..Len(c) : c[i] \in ConstantObjects
  <2>1. ConstantObjects \subseteq T
    OBVIOUS
  <2> HIDE DEF T
  <2> QED BY <2>1, ElementOfSeq
<1>3. e \in Seq(T) /\ Len(e) = 2 /\ e[1] = fn /\ e[2] = cl
  OBVIOUS
<1> HIDE DEF T, s, e
<1>4. /\ s \o c \in Seq(T) /\ Len(s \o c) = Len(s) + Len(c)
      /\ \A i \in 1..(Len(s) + Len(c)) :
           (s \o c)[i] = IF i <= Len(s) THEN s[i] ELSE c[i - Len(s)]
  BY <1>1, <1>2, ConcatProperties
<1> DEFINE sc == s \o c
<1>5. h = sc \o e
  BY DEF s, e, FirstObjects
<1>6. sc \in Seq(T) /\ Len(sc) = Len(c) + 10
  BY <1>1, <1>2, <1>4
<1>7. /\ \A i \in 1..10 : sc[i] = s[i]
      /\ \A i \in 11..(Len(c) + 10) : sc[i] \in ConstantObjects
  <2>1. ASSUME NEW i \in 1..10 PROVE sc[i] = s[i]
    <3>1. i \in 1..(10 + Len(c)) /\ i <= 10
      BY <1>2
    <3> QED BY <1>1, <1>4, <3>1
  <2>2. ASSUME NEW i \in 11..(Len(c) + 10) PROVE sc[i] \in ConstantObjects
    <3>1. i \in 1..(10 + Len(c)) /\ ~ (i <= 10) /\ i - 10 \in 1..Len(c)
      BY <1>2
    <3>2. sc[i] = c[i - 10]
      BY <1>1, <1>4, <3>1
    <3> QED BY <1>2, <3>1, <3>2
  <2> QED BY <2>1, <2>2
<1> HIDE DEF sc
<1>8. /\ h \in Seq(T) /\ Len(h) = Len(sc) + Len(e)
      /\ \A i \in 1..(Len(sc) + Len(e)) :
           h[i] = IF i <= Len(sc) THEN sc[i] ELSE e[i - Len(sc)]
  <2>1. /\ sc \o e \in Seq(T) /\ Len(sc \o e) = Len(sc) + Len(e)
        /\ \A i \in 1..(Len(sc) + Len(e)) :
             (sc \o e)[i] = IF i <= Len(sc) THEN sc[i] ELSE e[i - Len(sc)]
    BY <1>3, <1>6, ConcatProperties
  <2> QED BY <1>5, <2>1
<1>9. Len(h) = Len(c) + 12
  BY <1>2, <1>3, <1>6, <1>8
<1>10. \A i \in 1..(Len(c) + 10) : h[i] = sc[i]
  <2> TAKE i \in 1..(Len(c) + 10)
  <2>1. i \in 1..(Len(sc) + Len(e)) /\ i <= Len(sc)
    BY <1>2, <1>3, <1>6
  <2> QED BY <1>8, <2>1
<1>11. h[Len(c) + 11] = fn
  <2> DEFINE i == Len(c) + 11
  <2>1. i \in 1..(Len(sc) + Len(e)) /\ ~ (i <= Len(sc)) /\ i - Len(sc) = 1
    BY <1>2, <1>3, <1>6
  <2> QED BY <1>3, <1>8, <2>1
<1>12. h[Len(c) + 12] = cl
  <2> DEFINE i == Len(c) + 12
  <2>1. i \in 1..(Len(sc) + Len(e)) /\ ~ (i <= Len(sc)) /\ i - Len(sc) = 2
    BY <1>2, <1>3, <1>6
  <2> QED BY <1>3, <1>8, <2>1
<1>13. Listed(h)
  <2>1. h \in [1..Len(h) -> T]
    BY <1>8, LenProperties
  <2> QED BY <2>1 DEF Listed
<1>14. \A a \in 1..10 : h[a] = SharedObjects[a]
  <2> TAKE a \in 1..10
  <2>1. a \in 1..(Len(c) + 10)
    BY <1>2
  <2> QED BY <1>7, <1>10, <2>1 DEF s
<1>15. \A a \in 11..(Len(c) + 10) : h[a] \in ConstantObjects
  <2> TAKE a \in 11..(Len(c) + 10)
  <2>1. a \in 1..(Len(c) + 10)
    BY <1>2
  <2> QED BY <1>7, <1>10, <2>1
<1> QED BY <1>2, <1>9, <1>11, <1>12, <1>13, <1>14, <1>15 DEF FirstLayout

(* A heap with these objects at these positions is in order.               *)
LEMMA LaidOut ==
  ASSUME NEW h, NEW n \in Nat, Len(h) = n + 12, Listed(h),
         \A a \in 1..10 : h[a] = SharedObjects[a],
         \A a \in 11..(n + 10) : h[a] \in ConstantObjects,
         h[n + 11] \in [ t : {"COMPILED_FUNCTION"}, ins : Seq(ByteValues),
                         numLocals : Nat, numParameters : Nat ],
         h[n + 12] \in [t : {"CLOSURE"}, fn : 1..(n + 11), free : Seq(0..(n + 11))],
         h[n + 12].fn = n + 11
  PROVE  HeapOK(h) /\ Singletons(h) /\ Is(h, Len(h), "CLOSURE")
<1>1. h[n + 11].t = "COMPILED_FUNCTION" /\ h[n + 12].t = "CLOSURE"
  OBVIOUS
<1>2. ASSUME NEW a \in 1..Len(h)
      PROVE  /\ WellFormed(h[a], a - 1)
             /\ Is(h, a, "CLOSURE") => Is(h, h[a].fn, "COMPILED_FUNCTION")
             /\ Is(h, a, "NULL") => a = Null
             /\ Is(h, a, "BOOLEAN") => a \in {True, False}
  <2>1. CASE a \in {1, 2, 3}
    <3>1. h[1] = [t |-> "NULL"] /\ h[2] = [t |-> "BOOLEAN", b |-> TRUE]
          /\ h[3] = [t |-> "BOOLEAN", b |-> FALSE]
      <4>1. h[1] = SharedObjects[1] /\ h[2] = SharedObjects[2] /\ h[3] = SharedObjects[3]
        OBVIOUS
      <4> QED BY <4>1, Shared, Zenon
    <3>2. h[1].t = "NULL" /\ h[2].t = "BOOLEAN" /\ h[3].t = "BOOLEAN"
      BY <3>1
    <3>3. /\ h[1] \in [t : {"NULL", "ERROR"}]
          /\ h[2] \in [t : {"BOOLEAN"}, b : BOOLEAN] /\ h[3] \in [t : {"BOOLEAN"}, b : BOOLEAN]
      BY <3>1
    <3>4. WellFormed(h[1], a - 1) /\ WellFormed(h[2], a - 1) /\ WellFormed(h[3], a - 1)
      BY <3>3 DEF WellFormed, Keys
    <3> QED BY <2>1, <3>2, <3>4 DEF Is, Null, True, False
  <2>2. CASE a \in 4..10
    <3>1. h[a] = [t |-> "BUILTIN", name |-> BuiltinNames[a - 3]] /\ a - 3 \in 1..7
      BY <2>2, Shared
    <3>2. h[a] \in [t : {"BUILTIN"}, name : { BuiltinNames[i] : i \in 1..7 }]
          /\ h[a].t = "BUILTIN"
      <4> DEFINE x == BuiltinNames[a - 3]
                 X == { BuiltinNames[i] : i \in 1..7 }
      <4>1. x \in X
        BY <3>1
      <4>2. h[a] = [t |-> "BUILTIN", name |-> x]
        BY <3>1
      <4> HIDE DEF x, X
      <4>3. h[a] \in [t : {"BUILTIN"}, name : X] /\ h[a].t = "BUILTIN"
        BY <4>1, <4>2
      <4> QED BY <4>3 DEF X
    <3>3. WellFormed(h[a], a - 1)
      BY <3>2 DEF WellFormed
    <3> QED BY <3>2, <3>3 DEF Is
  <2>3. CASE a \in 11..(n + 10)
    BY <2>3, ConstantWellFormed DEF Is
  <2>4. CASE a = n + 11
    <3>1. WellFormed(h[a], a - 1) /\ h[a].t = "COMPILED_FUNCTION"
      BY <2>4 DEF WellFormed
    <3> QED BY <3>1 DEF Is
  <2>5. CASE a = n + 12
    <3>1. a - 1 = n + 11 /\ h[a].fn = n + 11 /\ h[a].t = "CLOSURE" /\ h[n + 11].t = "COMPILED_FUNCTION"
          /\ n + 11 # Nil
      BY <1>1, <2>5 DEF Nil
    <3>2. WellFormed(h[a], a - 1)
      BY <3>1 DEF WellFormed
    <3> QED BY <3>1, <3>2 DEF Is
  <2>6. a \in {1, 2, 3} \/ a \in 4..10 \/ a \in 11..(n + 10) \/ a = n + 11 \/ a = n + 12
    OBVIOUS
  <2> QED BY <2>1, <2>2, <2>3, <2>4, <2>5, <2>6, Zenon
<1>3. Len(h) \in Nat
  OBVIOUS
<1>4. HeapOK(h) /\ Singletons(h)
  BY <1>2, <1>3 DEF HeapOK, Singletons, Listed
<1>5. Is(h, Len(h), "CLOSURE")
  BY <1>1 DEF Is, Nil
<1> QED BY <1>4, <1>5

(* The heap that New makes of a program is in order.                       *)
LEMMA FirstHeapOK ==
  ASSUME NEW p \in Programs, NEW h,
         h = SharedObjects \o p.constants
               \o << CompiledFunction(p.instructions, 0, 0),
                     Closure(Len(p.constants) + 11, << >>) >>
  PROVE  /\ HeapOK(h) /\ Singletons(h) /\ Len(h) = Len(p.constants) + 12
         /\ Is(h, Len(h), "CLOSURE")
<1> DEFINE c == p.constants
           fn == CompiledFunction(p.instructions, 0, 0)
           cl == Closure(Len(c) + 11, << >>)
<1>1. c \in Seq(ConstantObjects) /\ p.instructions \in Seq(ByteValues)
  BY ProgramsAssumption
<1>2. h = FirstObjects(c, fn, cl)
  BY DEF FirstObjects
<1>3. fn \in [ t : {"COMPILED_FUNCTION"}, ins : Seq(ByteValues),
               numLocals : Nat, numParameters : Nat ]
  BY <1>1 DEF CompiledFunction
<1>4. Len(c) \in Nat
  BY <1>1
<1>5. /\ cl \in [t : {"CLOSURE"}, fn : 1..(Len(c) + 11), free : Seq(0..(Len(c) + 11))]
      /\ cl.fn = Len(c) + 11
  BY <1>4 DEF Closure
<1> HIDE DEF c, fn, cl
<1>6. FirstLayout(h, c, fn, cl)
  BY <1>1, <1>2, FirstHeap
<1>7. HeapOK(h) /\ Singletons(h) /\ Is(h, Len(h), "CLOSURE")
  BY <1>3, <1>4, <1>5, <1>6, LaidOut DEF FirstLayout
<1> QED BY <1>6, <1>7 DEF c, FirstLayout

(* Every machine that New makes satisfies the invariant.                   *)
LEMMA InitEstablishesInv == Init => Inv
<1> SUFFICES ASSUME NEW p \in Programs, InitWith(p) PROVE Inv
  BY DEF Init
<1> DEFINE c == p.constants
<1>1. c \in Seq(ConstantObjects) /\ Len(c) \in Nat /\ Len(SharedObjects) = 10
      /\ StackSize \in Nat /\ GlobalsSize \in Nat /\ MaxFrames \in Nat /\ MaxFrames > 0
  BY ProgramsAssumption, SizesAssumption, Shared
<1>2. /\ heap = SharedObjects \o c
                 \o << CompiledFunction(p.instructions, 0, 0), Closure(Len(c) + 11, << >>) >>
      /\ constants = [i \in 1..Len(c) |-> 10 + i]
      /\ frames = << NewFrame(Len(c) + 12, 0) >>
      /\ stack = [i \in 0..(StackSize - 1) |-> Nil]
      /\ sp = 0
      /\ globals = [i \in 0..(GlobalsSize - 1) |-> Nil]
      /\ status = "running"
  <2>1. 10 + Len(c) + 1 = Len(c) + 11 /\ 10 + Len(c) + 2 = Len(c) + 12
    BY <1>1
  <2> QED BY <1>1, <2>1 DEF InitWith
<1>3. HeapOK(heap) /\ Singletons(heap) /\ Len(heap) = Len(c) + 12 /\ Is(heap, Len(heap), "CLOSURE")
  BY <1>2, FirstHeapOK
<1>4. constants \in Seq(1..Len(heap))
  <2>1. constants \in [1..Len(c) -> 1..Len(heap)]
    BY <1>1, <1>2, <1>3
  <2> QED BY <1>1, <2>1, SeqDef
<1>5. FramesOK(heap, frames)
  <2> DEFINE f == NewFrame(Len(c) + 12, 0)
             F == [cl : 1..Len(heap), ip : Nat \cup {-1}, bp : Nat]
  <2>1. f \in F /\ f.cl = Len(heap) /\ f.bp = 0
    BY <1>1, <1>3 DEF NewFrame
  <2> HIDE DEF F, f
  <2>2. frames = << f >>
    BY <1>2 DEF f
  <2>3. frames \in Seq(F) /\ Len(frames) = 1 /\ frames[1] = f
    BY <2>1, <2>2
  <2> QED BY <1>1, <1>3, <2>1, <2>3 DEF FramesOK, F
<1>6. stack \in Slots(StackSize, heap) /\ globals \in Slots(GlobalsSize, heap) /\ sp \in Nat
  BY <1>1, <1>2, <1>3 DEF Slots, Nil
<1> QED BY <1>1, <1>2, <1>3, <1>4, <1>5, <1>6, InvParts

-----------------------------------------------------------------------------
(* The invariant holds of every behavior.                                  *)
THEOREM Invariance == Spec => []Inv
<1>1. Init => Inv
  BY InitEstablishesInv
<1>2. Inv /\ [Next]_vars => Inv'
  BY NextKeepsInv
<1> QED BY <1>1, <1>2, PTL DEF Spec

(* The machine stays in its own states whatever bytecode it runs: every    *)
(* reference in the stack, the globals, the frames and the objects is that *)
(* of an object or nil, objects hold older objects only, and the frames    *)
(* are within MaxFrames.                                                   *)
THEOREM TypeCorrect == Spec => []TypeOK
<1>1. Inv => TypeOK
  BY DEF Inv
<1> QED BY <1>1, Invariance, PTL

(* Nothing that runs makes a second null, true or false, so that isTruthy  *)
(* and ==, which compare references, are right about them.                 *)
THEOREM OneNullOneTrueOneFalse == Spec => []SingletonsAreShared
<1>1. Inv => SingletonsAreShared
  BY DEF Inv
<1> QED BY <1>1, Invariance, PTL
=============================================================================
