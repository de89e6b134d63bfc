------------------------------- MODULE Objects -------------------------------
(***************************************************************************)
(* Package object as the virtual machine uses it.  Objects live in a heap, *)
(* a sequence of records, and a reference is a position of the heap; 0 is  *)
(* Go's nil.  References matter because == of the VM compares pointers.    *)
(*                                                                         *)
(* What an operation on objects comes to is an outcome: a reference that   *)
(* exists, an object to allocate, an error the VM returns, or a Go panic.  *)
(* Texts of errors are left out; a string is a sequence of characters of   *)
(* one byte.  The FNV hash of a string is taken to be injective.           *)
(***************************************************************************)
EXTENDS Integers, Sequences

CONSTANT IntHalf        \* int64 is -IntHalf .. IntHalf - 1: 2^63 in the program

ASSUME IntHalfAssumption == IntHalf \in Nat \ {0}

Int64 == (-IntHalf)..(IntHalf - 1)

Integer(n) == [t |-> "INTEGER", n |-> n]
String(s)  == [t |-> "STRING", s |-> s]
Array(e)   == [t |-> "ARRAY", e |-> e]
Hash(d)    == [t |-> "HASH", d |-> d]
Error      == [t |-> "ERROR"]

CompiledFunction(ins, numLocals, numParameters) ==
  [ t |-> "COMPILED_FUNCTION", ins |-> ins,
    numLocals |-> numLocals, numParameters |-> numParameters ]

Closure(fn, free) == [t |-> "CLOSURE", fn |-> fn, free |-> free]

(* object.Builtins, in the order that OpGetBuiltin's operand counts.       *)
BuiltinNames == << "len", "puts", "first", "last", "rest", "push", "pop" >>

(* The objects every run shares: Null, True and False of vm.go, Builtins.  *)
SharedObjects ==
  << [t |-> "NULL"], [t |-> "BOOLEAN", b |-> TRUE], [t |-> "BOOLEAN", b |-> FALSE] >>
  \o [i \in 1..7 |-> [t |-> "BUILTIN", name |-> BuiltinNames[i]]]

Nil   == 0
Null  == 1
True  == 2
False == 3

BuiltinRef(i) == 4 + i      \* the i-th element of Builtins, counted from 0

NativeBool(b) == IF b THEN True ELSE False

Outcomes(Obj) == [is : {"ref"}, ref : Nat] \cup [is : {"new"}, obj : Obj]
                   \cup [is : {"error", "panic"}]

Ref(a)  == [is |-> "ref", ref |-> a]
New(o)  == [is |-> "new", obj |-> o]
Failed  == [is |-> "error"]
Panic   == [is |-> "panic"]

Is(heap, a, type) == a # Nil /\ heap[a].t = type

-----------------------------------------------------------------------------
(* int64 arithmetic: results wrap around, a quotient is truncated.         *)

(* Mutant of Wrap: integers without bounds.                                *)
Unbounded(n) == n

Wrap(n) == ((n + IntHalf) % (2 * IntHalf)) - IntHalf

Magnitude(n) == IF n < 0 THEN -n ELSE n

Quotient(m, n) ==
  IF (m < 0) = (n < 0) THEN Magnitude(m) \div Magnitude(n)
                       ELSE -(Magnitude(m) \div Magnitude(n))

IntegerOutcome(op, m, n) ==
  CASE op = "OpAdd"           -> New(Integer(Wrap(m + n)))
    [] op = "OpSub"           -> New(Integer(Wrap(m - n)))
    [] op = "OpMul"           -> New(Integer(Wrap(m * n)))
    [] op = "OpDiv" /\ n = 0  -> Panic
    [] op = "OpDiv" /\ n # 0  -> New(Integer(Wrap(Quotient(m, n))))

StringOutcome(op, s, t) == IF op = "OpAdd" THEN New(String(s \o t)) ELSE Failed

(* Type() of a nil operand is a panic.                                     *)
BinaryOutcome(heap, op, left, right) ==
  CASE left = Nil \/ right = Nil -> Panic
    [] Is(heap, left, "INTEGER") /\ Is(heap, right, "INTEGER") ->
         IntegerOutcome(op, heap[left].n, heap[right].n)
    [] Is(heap, left, "STRING") /\ Is(heap, right, "STRING") ->
         StringOutcome(op, heap[left].s, heap[right].s)
    [] OTHER -> Failed

MinusOutcome(heap, right) ==
  IF Is(heap, right, "INTEGER") THEN New(Integer(Wrap(-heap[right].n))) ELSE Failed

(* nil is neither False nor Null, and so it is truthy.                     *)
IsTruthy(a) == a \notin {False, Null}

(* Integers compare by value, anything else by reference, and only ==, !=. *)
(* The right operand's type is looked at when the left one is an integer.  *)
ComparisonOutcome(heap, op, left, right) ==
  IF left = Nil \/ (right = Nil /\ (heap[left].t = "INTEGER" \/ op = "OpGreaterThan"))
  THEN Panic
  ELSE IF Is(heap, left, "INTEGER") /\ Is(heap, right, "INTEGER")
  THEN Ref(NativeBool(CASE op = "OpEqual"       -> heap[left].n = heap[right].n
                        [] op = "OpNotEqual"    -> heap[left].n # heap[right].n
                        [] op = "OpGreaterThan" -> heap[left].n > heap[right].n))
  ELSE CASE op = "OpEqual"    -> Ref(NativeBool(left = right))
         [] op = "OpNotEqual" -> Ref(NativeBool(left # right))
         [] OTHER             -> Failed

-----------------------------------------------------------------------------
(* Hashes: the pairs by HashKey, which is the key's type and value.        *)
Hashable(heap, a) == a # Nil /\ heap[a].t \in {"INTEGER", "STRING", "BOOLEAN"}

HashKey(heap, a) == heap[a]

(* elements alternates keys and values; the last pair of a key counts.     *)
HashData(heap, elements) ==
  LET pairs     == 1..(Len(elements) \div 2)
      key(i)    == HashKey(heap, elements[2 * i - 1])
      lastOf(k) == CHOOSE i \in pairs : key(i) = k /\ \A j \in pairs : key(j) = k => j <= i
  IN [k \in { key(i) : i \in pairs } |-> elements[2 * lastOf(k)]]

(* The failed type assertion leaves key nil, and key.Type() panics.        *)
HashOutcome(heap, elements) ==
  IF \A i \in 1..(Len(elements) \div 2) : Hashable(heap, elements[2 * i - 1])
  THEN New(Hash(HashData(heap, elements)))
  ELSE Panic

ArrayIndexOutcome(heap, elements, index) ==
  IF ~ Is(heap, index, "INTEGER") THEN Failed
  ELSE IF heap[index].n \in 0..(Len(elements) - 1)
  THEN Ref(elements[heap[index].n + 1])
  ELSE Ref(Null)

HashIndexOutcome(heap, data, index) ==
  CASE index = Nil                            -> Panic
    [] index # Nil /\ ~ Hashable(heap, index) -> Failed
    [] OTHER -> Ref(IF HashKey(heap, index) \in DOMAIN data
                    THEN data[HashKey(heap, index)] ELSE Null)

IndexOutcome(heap, left, index) ==
  CASE left = Nil              -> Panic
    [] Is(heap, left, "ARRAY") -> ArrayIndexOutcome(heap, heap[left].e, index)
    [] Is(heap, left, "HASH")  -> HashIndexOutcome(heap, heap[left].d, index)
    [] OTHER                   -> Failed

-----------------------------------------------------------------------------
(* Inspect reaches every element of an array and every value of a hash: a  *)
(* nil among them is a panic.  Elements are older than what holds them.    *)
Inspectable(heap) ==
  LET ok[a \in 0..Len(heap)] ==
        CASE a = Nil              -> FALSE
          [] Is(heap, a, "ARRAY") -> \A i \in DOMAIN heap[a].e : ok[heap[a].e[i]]
          [] Is(heap, a, "HASH")  -> \A k \in DOMAIN heap[a].d : ok[heap[a].d[k]]
          [] OTHER                -> TRUE
  IN ok

LenOutcome(heap, a) ==
  CASE a = Nil               -> Panic
    [] Is(heap, a, "ARRAY")  -> New(Integer(Wrap(Len(heap[a].e))))
    [] Is(heap, a, "STRING") -> New(Integer(Wrap(Len(heap[a].s))))
    [] OTHER                 -> New(Error)

(* The builtins whose first argument has to be an array; e are its         *)
(* elements, and a reference to Nil is the result nil.                     *)
ElementsOutcome(name, e, args) ==
  CASE name = "first" -> Ref(IF e = << >> THEN Nil ELSE e[1])
    [] name = "last"  -> Ref(IF e = << >> THEN Nil ELSE e[Len(e)])
    [] name = "rest"  -> IF e = << >> THEN Ref(Nil) ELSE New(Array(Tail(e)))
    [] name = "push"  -> New(Array(Append(e, args[2])))
    [] name = "pop"   -> IF e = << >> THEN Panic      \* make of a negative length
                         ELSE New(Array(SubSeq(e, 1, Len(e) - 1)))

ArrayBuiltinOutcome(heap, name, args) ==
  CASE args[1] = Nil              -> Panic
    [] Is(heap, args[1], "ARRAY") -> ElementsOutcome(name, heap[args[1]].e, args)
    [] OTHER                      -> New(Error)

PutsOutcome(heap, args) ==
  IF \A i \in 1..Len(args) : Inspectable(heap)[args[i]] THEN Ref(Nil) ELSE Panic

(* Mutants of OrNull: a nil result pushed as it is, or as a new Null.      *)
NilToo(outcome)    == outcome
FreshNull(outcome) == IF outcome = Ref(Nil) THEN New([t |-> "NULL"]) ELSE outcome

(* callBuiltin pushes Null for a result that is nil.                       *)
OrNull(outcome) == IF outcome = Ref(Nil) THEN Ref(Null) ELSE outcome

Arity(name) == IF name = "push" THEN 2 ELSE 1

BuiltinOutcome(heap, name, args) ==
  OrNull(CASE name = "puts"             -> PutsOutcome(heap, args)
           [] name # "puts" /\ Len(args) # Arity(name) -> New(Error)
           [] name = "len" /\ Len(args) = 1 -> LenOutcome(heap, args[1])
           [] OTHER                     -> ArrayBuiltinOutcome(heap, name, args))
=============================================================================
