--------------------------- MODULE VerifierProofs ---------------------------
(***************************************************************************)
(* Code that is certified runs as the compiler means it to, for every      *)
(* program and every size of stack, globals and frames: what it takes from *)
(* the stack is its own, its frames lie one above the other, and it panics *)
(* for known reasons only.  The invariant is RunsCertified: the depth of   *)
(* the stack is at every moment the one that the certificate has computed. *)
(***************************************************************************)
EXTENDS Verifier, VMProofs

-----------------------------------------------------------------------------
(* The function of a frame over a heap, and the depth it has reached.      *)
FnOf(h, f)    == h[h[f.cl].fn]
FloorOf(h, f) == f.bp + FnOf(h, f).numLocals
DepthOf(h, f) == Depths(FnOf(h, f).ins)[f.ip + 1]

FrameSet(h) == [cl : 1..Len(h), ip : Nat \cup {-1}, bp : Nat]

(* Frame f waits for frame g over the stack s.                             *)
WaitsFor(h, s, f, g) ==
  LET ins == FnOf(h, f).ins IN
  /\ f.ip \in 1..(Len(ins) - 1)
  /\ ins[f.ip] = OpcodeByte("OpCall") /\ ins[f.ip + 1] = FnOf(h, g).numParameters
  /\ f.ip + 1 \in DOMAIN Depths(ins) /\ DepthOf(h, f) >= 1
  /\ g.bp = FloorOf(h, f) + DepthOf(h, f)
  /\ g.bp <= StackSize
  /\ s[g.bp - 1] = g.cl

(* Frame f goes on with the next free slot at p.                           *)
GoesOn(h, f, p) ==
  /\ f.ip + 1 \in DOMAIN Depths(FnOf(h, f).ins)
  /\ p = FloorOf(h, f) + DepthOf(h, f)
  /\ DepthOf(h, f) > 0 => p <= StackSize

(* A closure that code with these constants may run.                       *)
MayRun(h, cs, cl) ==
  /\ \E i \in 1..Len(cs) : cs[i] = cl.fn
  /\ FreeSuffices(h[cl.fn].ins, Len(cl.free))

(* The same words for the variables.                                       *)
LEMMA Words ==
  /\ Fn = FnOf(heap, Frame)
  /\ \A k : /\ FunctionOf(k) = FnOf(heap, frames[k])
            /\ Floor(k) = FloorOf(heap, frames[k])
            /\ Waits(k) <=> WaitsFor(heap, stack, frames[k], frames[k + 1])
  /\ Proceeds <=> GoesOn(heap, Frame, sp)
BY DEF Fn, FnOf, FunctionOf, Floor, FloorOf, Waits, WaitsFor, DepthOf, Proceeds, GoesOn, Frame, Lip

(* And for their next values.                                              *)
LEMMA NextWords ==
  /\ \A k : /\ FunctionOf(k)' = FnOf(heap', frames'[k])
            /\ Floor(k)' = FloorOf(heap', frames'[k])
            /\ Waits(k)' <=> WaitsFor(heap', stack', frames'[k], frames'[k + 1])
  /\ Proceeds' <=> GoesOn(heap', frames'[Len(frames')], sp')
BY DEF Fn, FnOf, FunctionOf, Floor, FloorOf, Waits, WaitsFor, DepthOf, Proceeds, GoesOn, Frame, Lip

(* A frame in use has a closure of a compiled function.                    *)
LEMMA FrameFields ==
  ASSUME NEW h, HeapOK(h), NEW fs, FramesOK(h, fs), NEW k \in 1..Len(fs)
  PROVE  /\ fs[k] \in FrameSet(h) /\ fs[k].cl \in 1..Len(h) /\ fs[k].bp \in Nat
         /\ fs[k].ip \in Nat \cup {-1}
         /\ Is(h, fs[k].cl, "CLOSURE")
         /\ h[fs[k].cl].fn \in 1..Len(h) /\ Is(h, h[fs[k].cl].fn, "COMPILED_FUNCTION")
         /\ h[fs[k].cl].free \in Seq(0..Len(h))
         /\ FnOf(h, fs[k]).ins \in Seq(ByteValues) /\ FnOf(h, fs[k]).numLocals \in Nat
         /\ FloorOf(h, fs[k]) \in Nat /\ FloorOf(h, fs[k]) >= fs[k].bp
<1>1. fs[k] \in FrameSet(h)
  BY ElementOfSeq DEF FramesOK, FrameSet
<1>2. fs[k].cl \in 1..Len(h) /\ fs[k].bp \in Nat /\ fs[k].ip \in Nat \cup {-1}
  BY <1>1 DEF FrameSet
<1>3. Is(h, fs[k].cl, "CLOSURE") /\ h[fs[k].cl].t = "CLOSURE"
  BY DEF FramesOK, Is
<1>4. h[fs[k].cl].fn \in 1..Len(h) /\ h[h[fs[k].cl].fn].t = "COMPILED_FUNCTION"
      /\ h[fs[k].cl].free \in Seq(0..Len(h))
  <2>1. fs[k].cl \in 0..Len(h) /\ fs[k].cl # Nil
    BY <1>2 DEF HeapOK, Nil
  <2> QED BY <1>3, <2>1, Referent
<1>5. FnOf(h, fs[k]).ins \in Seq(ByteValues) /\ FnOf(h, fs[k]).numLocals \in Nat
  <2>1. h[fs[k].cl].fn \in 0..Len(h) /\ h[fs[k].cl].fn # Nil
    BY <1>4 DEF HeapOK, Nil
  <2> QED BY <1>4, <2>1, Referent DEF FnOf
<1>6. FloorOf(h, fs[k]) \in Nat /\ FloorOf(h, fs[k]) >= fs[k].bp
  BY <1>2, <1>5 DEF FloorOf
<1>7. Is(h, h[fs[k].cl].fn, "COMPILED_FUNCTION")
  BY <1>4 DEF Is, HeapOK, Nil
<1> QED BY <1>1, <1>2, <1>3, <1>4, <1>5, <1>6, <1>7

(* Its function is the same over a later heap.                             *)
LEMMA FnLater ==
  ASSUME NEW h, HeapOK(h), NEW fs, FramesOK(h, fs), NEW k \in 1..Len(fs),
         NEW g, Later(h, g), NEW f, f.cl = fs[k].cl
  PROVE  FnOf(g, f) = FnOf(h, fs[k]) /\ g[f.cl] = h[fs[k].cl]
BY FrameFields DEF Later, FnOf

-----------------------------------------------------------------------------
(* What the certificate says of the instruction that is next.              *)

(* The code of every frame is certified: of a called one because its       *)
(* closure was made of a constant, of the first one as the program.        *)
LEMMA FrameCertified ==
  ASSUME Inv, RunsCertified, NEW k \in 1..Len(frames)
  PROVE  /\ CertifiedCode(heap, constants, FunctionOf(k))
         /\ k = 1 => CertifiedProgram(heap, constants, FunctionOf(k))
         /\ k > 1 => /\ CertifiedFunction(heap, constants, FunctionOf(k))
                     /\ MayRun(heap, constants, heap[frames[k].cl])
<1>1. HeapOK(heap) /\ FramesOK(heap, frames)
  BY InvParts
<1>2. CASE k = 1
  <2>1. CertifiedProgram(heap, constants, FunctionOf(k))
    BY <1>2 DEF RunsCertified, CodeIsCertified
  <2> QED BY <1>2, <2>1 DEF CertifiedProgram
<1>3. CASE k # 1
  <2>1. /\ frames[k].cl \in 1..Len(heap) /\ Is(heap, frames[k].cl, "CLOSURE")
        /\ Is(heap, heap[frames[k].cl].fn, "COMPILED_FUNCTION")
    BY <1>1, FrameFields
  <2>2. k \in 2..Len(frames)
    BY <1>1, <1>3 DEF FramesOK
  <2>3. frames[k].cl # MainClosure
    BY <2>2 DEF RunsCertified, MainIsPrivate
  <2>4. MayRun(heap, constants, heap[frames[k].cl])
    BY <2>1, <2>3 DEF RunsCertified, ClosuresAreCertified, MayRun
  <2>5. PICK i \in 1..Len(constants) : constants[i] = heap[frames[k].cl].fn
    BY <2>4 DEF MayRun
  <2>6. CertifiedFunction(heap, constants, heap[constants[i]])
    BY <2>1, <2>5 DEF RunsCertified, CodeIsCertified
  <2>7. CertifiedFunction(heap, constants, FunctionOf(k))
    BY <2>5, <2>6 DEF FunctionOf
  <2> QED BY <1>3, <2>4, <2>7 DEF CertifiedFunction
<1> QED BY <1>2, <1>3

(* What an instruction takes is what Run reads of the stack.               *)
LEMMA TakesIsReads ==
  ASSUME Op = "OpClosure" => IsFunctionConstant
  PROVE  Takes(Fn.ins, Lip) = Reads
<1>1. OpAt(Fn.ins, Lip) = Op /\ ArgsAt(Fn.ins, Lip) = Operands
  BY DEF OpAt, ArgsAt, Op, Operands
<1>2. CASE Op \in {"OpAdd", "OpSub", "OpMul", "OpDiv", "OpEqual", "OpNotEqual",
                   "OpGreaterThan", "OpIndex"}
  BY <1>1, <1>2 DEF Takes, TakenBy, Reads
<1>3. CASE Op \in {"OpSetGlobal", "OpSetLocal", "OpPop", "OpMinus", "OpBang",
                   "OpJumpNotTruthy", "OpReturnValue"}
  BY <1>1, <1>3 DEF Takes, TakenBy, Reads
<1>4. CASE Op \in {"OpArray", "OpHash", "OpCall", "OpClosure"}
  BY <1>1, <1>4 DEF Takes, TakenBy, Reads, Operand
<1>5. CASE Op \notin {"OpAdd", "OpSub", "OpMul", "OpDiv", "OpEqual", "OpNotEqual",
                      "OpGreaterThan", "OpIndex", "OpSetGlobal", "OpSetLocal", "OpPop",
                      "OpMinus", "OpBang", "OpJumpNotTruthy", "OpReturnValue",
                      "OpArray", "OpHash", "OpCall", "OpClosure"}
  BY <1>1, <1>5 DEF Takes, TakenBy, Reads
<1> QED BY <1>2, <1>3, <1>4, <1>5

Depth == DepthOf(heap, Frame)

(* The facts of the instruction that is next, in a machine that runs.      *)
LEMMA Standing ==
  ASSUME Inv, RunsCertified, Running
  PROVE  /\ IsOpcode /\ WholeInstruction(Fn.ins, Lip) /\ Lip \in Nat
         /\ Lip \in Reached(Fn.ins) /\ Lip \in DOMAIN Depths(Fn.ins)
         /\ Addresses(heap, constants, Fn, Lip)
         /\ Op \in WideOps \cup NarrowOps \cup {"OpClosure"} => Operand \in Nat
         /\ Op = "OpClosure" =>
              /\ Operands[2] \in Nat /\ IsFunctionConstant
              /\ Is(heap, constants[Operand + 1], "COMPILED_FUNCTION")
              /\ FreeSuffices(heap[constants[Operand + 1]].ins, Operands[2])
         /\ Takes(Fn.ins, Lip) = Reads /\ Reads \in Nat
         /\ Depth \in Nat /\ Depth = Depths(Fn.ins)[Lip] /\ Reads <= Depth
         /\ sp = Floor(Len(frames)) + Depth /\ (Depth > 0 => sp <= StackSize)
         /\ Floor(Len(frames)) \in Nat /\ Frame.bp <= Floor(Len(frames))
         /\ \A q \in Successors(Fn.ins, Lip) :
              /\ q \in DOMAIN Depths(Fn.ins)
              /\ Depths(Fn.ins)[q] = Depth - Reads + Leaves(Fn.ins, Lip)
<1> DEFINE n == Len(frames)
           ins == Fn.ins
           d == Depths(ins)
<1>1. /\ HeapOK(heap) /\ FramesOK(heap, frames) /\ n \in 1..MaxFrames /\ n \in 1..n
      /\ Lip \in Nat /\ ins \in Seq(ByteValues) /\ Frame.bp \in Nat /\ status = "running"
  BY InvParts, CurrentFrame DEF Running
<1>2. /\ Fn = FunctionOf(n) /\ Fn = FnOf(heap, Frame) /\ Frame = frames[n]
      /\ Floor(n) = FloorOf(heap, Frame) /\ GoesOn(heap, Frame, sp)
  BY <1>1, Words DEF Frame, RunsCertified
<1>3. CertifiedCode(heap, constants, Fn)
  BY <1>1, <1>2, FrameCertified
<1>4. Balanced(ins, d)
  BY <1>3 DEF CertifiedCode
<1>5. Lip \in DOMAIN d /\ Lip < Len(ins) /\ Depth = d[Lip]
  <2>1. Frame.ip \in Nat \cup {-1} /\ Frame.ip < Len(ins) - 1 /\ Len(ins) \in Nat
    BY <1>1, CurrentFrame DEF Running
  <2>2. Lip \in DOMAIN d /\ Depth = d[Lip]
    BY <1>2 DEF GoesOn, Lip, Depth, DepthOf
  <2> QED BY <2>1, <2>2 DEF Lip
<1>6. WholeInstruction(ins, Lip)
  BY <1>4, <1>5 DEF Balanced
<1>7. IsOpcode
  <2>1. ins[Lip + 1] \in 0..29
    BY <1>6 DEF WholeInstruction
  <2> QED BY <2>1 DEF IsOpcode
<1>8. Lip \in Reached(ins) /\ Addresses(heap, constants, Fn, Lip)
  BY <1>3, <1>5 DEF Reached, CertifiedCode
<1>9. /\ Op \in WideOps \cup NarrowOps \cup {"OpClosure"} => Operand \in Nat
      /\ Op = "OpClosure" => Operands[2] \in Nat
  BY <1>1, <1>6, InstructionOperands DEF Op, Operand, Operands
<1>10. ASSUME Op = "OpClosure"
       PROVE  /\ Is(heap, constants[Operand + 1], "COMPILED_FUNCTION") /\ IsFunctionConstant
              /\ FreeSuffices(heap[constants[Operand + 1]].ins, Operands[2])
  <2>1. OpAt(ins, Lip) = "OpClosure" /\ ArgsAt(ins, Lip) = Operands
    BY <1>10 DEF OpAt, ArgsAt, Op, Operands
  <2>2. /\ Is(heap, constants[Operand + 1], "COMPILED_FUNCTION")
        /\ FreeSuffices(heap[constants[Operand + 1]].ins, Operands[2])
    BY <1>8, <2>1 DEF Addresses, Operand
  <2> QED BY <2>2 DEF IsFunctionConstant, Is
<1>11. Takes(ins, Lip) = Reads
  BY <1>10, TakesIsReads
<1>12. Reads \in Nat
  <2>1. CASE Op \in {"OpArray", "OpHash"}
    BY <1>9, <2>1 DEF Reads, WideOps
  <2>2. CASE Op = "OpCall"
    BY <1>9, <2>2 DEF Reads, NarrowOps
  <2>3. CASE Op = "OpClosure"
    BY <1>9, <1>10, <2>3 DEF Reads
  <2>4. CASE Op \notin {"OpArray", "OpHash", "OpCall", "OpClosure"}
    BY <2>4 DEF Reads
  <2> QED BY <2>1, <2>2, <2>3, <2>4
<1>13. d[Lip] \in Nat /\ Takes(ins, Lip) <= d[Lip]
  <2> HIDE DEF d
  <2> QED BY <1>4, <1>5 DEF Balanced
<1>14. \A q \in Successors(ins, Lip) :
         q \in DOMAIN d /\ d[q] = d[Lip] - Takes(ins, Lip) + Leaves(ins, Lip)
  BY <1>4, <1>5 DEF Balanced, DepthAfter
<1>15. sp = Floor(n) + Depth /\ (Depth > 0 => sp <= StackSize)
  BY <1>2 DEF GoesOn, Depth
<1>16. Floor(n) \in Nat /\ Frame.bp <= Floor(n)
  BY <1>1, <1>2, FrameFields
<1> HIDE DEF n, ins, d
<1>17. Depth \in Nat /\ Reads <= Depth
  BY <1>5, <1>11, <1>13
<1>18. \A q \in Successors(ins, Lip) :
         q \in DOMAIN d /\ d[q] = Depth - Reads + Leaves(ins, Lip)
  BY <1>5, <1>11, <1>14
<1> QED BY <1>1, <1>5, <1>6, <1>7, <1>8, <1>9, <1>10, <1>11, <1>12, <1>15, <1>16, <1>17, <1>18
        DEF n, ins, d

-----------------------------------------------------------------------------
(* What an operation comes to hands on the references it was given, those  *)
(* inside objects, and the singletons: no other one.                       *)
Spares(outcome, x) ==
  /\ outcome.is = "ref" => outcome.ref # x
  /\ outcome.is = "new" => Avoids(outcome.obj, x)

AllAvoid(h, x) == \A a \in 1..Len(h) : Avoids(h[a], x)

MakesClosure(outcome) == outcome.is = "new" /\ outcome.obj.t = "CLOSURE"

(* An operation that may panic only because of cause, and that hands on no *)
(* x it was not given.                                                     *)
Tame(outcome, x, cause) ==
  /\ x \notin {Null, True, False} => Spares(outcome, x)
  /\ ~ MakesClosure(outcome)
  /\ outcome.is = "panic" => cause

(* Objects that hold no references, singletons and errors are tame.        *)
LEMMA Plain ==
  ASSUME NEW x, NEW cause \in BOOLEAN
  PROVE  /\ \A o : o.t \notin {"ARRAY", "HASH", "CLOSURE"} => Tame(New(o), x, cause)
         /\ \A b \in BOOLEAN : Tame(Ref(NativeBool(b)), x, cause)
         /\ Tame(Ref(Null), x, cause) /\ Tame(Failed, x, cause)
         /\ cause => Tame(Panic, x, cause)
<1>1. \A o : o.t \notin {"ARRAY", "HASH", "CLOSURE"} => Tame(New(o), x, cause)
  BY DEF Tame, Spares, Avoids, MakesClosure, New
<1>2. \A b \in BOOLEAN : NativeBool(b) \in {True, False}
  BY DEF NativeBool
<1>3. \A a \in {Null, True, False} : Tame(Ref(a), x, cause)
  BY DEF Tame, Spares, MakesClosure, Ref
<1>4. Tame(Failed, x, cause) /\ (cause => Tame(Panic, x, cause))
  BY DEF Tame, Spares, MakesClosure, Failed, Panic
<1> QED BY <1>1, <1>2, <1>3, <1>4

(* Arithmetic panics at a nil and at a division by zero.                   *)
LEMMA BinaryTame ==
  ASSUME NEW h, HeapOK(h), NEW left \in 0..Len(h), NEW right \in 0..Len(h),
         NEW op \in {"OpAdd", "OpSub", "OpMul", "OpDiv"}, NEW x
  PROVE  Tame(BinaryOutcome(h, op, left, right), x,
              left = Nil \/ right = Nil \/ (op = "OpDiv" /\ h[right] = Integer(0)))
<1> DEFINE cause == left = Nil \/ right = Nil \/ (op = "OpDiv" /\ h[right] = Integer(0))
           outcome == BinaryOutcome(h, op, left, right)
<1>0. cause \in BOOLEAN /\ \A i : Integer(i).t = "INTEGER" /\ \A s : String(s).t = "STRING"
  BY DEF Integer, String
<1>1. CASE left = Nil \/ right = Nil
  <2>1. outcome = Panic /\ cause
    BY <1>1 DEF BinaryOutcome, Is
  <2> HIDE DEF cause, outcome
  <2>2. Tame(outcome, x, cause)
    BY <1>0, <2>1, Plain
  <2> QED BY <2>2 DEF cause, outcome
<1>2. CASE left # Nil /\ right # Nil /\ h[left].t = "INTEGER" /\ h[right].t = "INTEGER"
  <2> DEFINE m == h[left].n
             n == h[right].n
  <2>1. outcome = IntegerOutcome(op, m, n)
    BY <1>2 DEF BinaryOutcome, Is
  <2>2. CASE op = "OpDiv" /\ n = 0
    <3>1. h[right] \in Keys /\ h[right].t = "INTEGER"
      BY <1>2, Referent
    <3>2. h[right] \in [t : {"INTEGER"}, n : Int64]
      BY <3>1 DEF Keys
    <3>3. h[right] = Integer(0)
      BY <2>2, <3>2 DEF Integer
    <3>4. cause
      BY <2>2, <3>3
    <3>5. outcome = Panic
      BY <2>1, <2>2 DEF IntegerOutcome
    <3> HIDE DEF cause, outcome
    <3>6. Tame(outcome, x, cause)
      BY <1>0, <3>4, <3>5, Plain
    <3> QED BY <3>6 DEF cause, outcome
  <2>3. CASE ~ (op = "OpDiv" /\ n = 0)
    <3>1. \E i : outcome = New(Integer(i))
      BY <2>1, <2>3 DEF IntegerOutcome
    <3> HIDE DEF cause, outcome
    <3>2. Tame(outcome, x, cause)
      BY <1>0, <3>1, Plain
    <3> QED BY <3>2 DEF cause, outcome
  <2> QED BY <2>2, <2>3
<1>3. CASE left # Nil /\ right # Nil /\ ~ (h[left].t = "INTEGER" /\ h[right].t = "INTEGER")
  <2>1. outcome = Failed \/ \E s : outcome = New(String(s))
    BY <1>3 DEF BinaryOutcome, Is, StringOutcome
  <2> HIDE DEF cause, outcome
  <2>2. Tame(outcome, x, cause)
    BY <1>0, <2>1, Plain
  <2> QED BY <2>2 DEF cause, outcome
<1> QED BY <1>1, <1>2, <1>3

(* Negation does not panic.                                                *)
LEMMA MinusTame ==
  ASSUME NEW h, NEW right, NEW x
  PROVE  Tame(MinusOutcome(h, right), x, FALSE)
<1>1. \A i : Integer(i).t = "INTEGER"
  BY DEF Integer
<1>2. MinusOutcome(h, right) = Failed \/ \E i : MinusOutcome(h, right) = New(Integer(i))
  BY DEF MinusOutcome
<1> QED BY <1>1, <1>2, Plain

(* A comparison panics at a nil only.                                      *)
LEMMA ComparisonTame ==
  ASSUME NEW h, NEW left, NEW right, NEW x,
         NEW op \in {"OpEqual", "OpNotEqual", "OpGreaterThan"}
  PROVE  Tame(ComparisonOutcome(h, op, left, right), x, left = Nil \/ right = Nil)
<1> DEFINE cause == left = Nil \/ right = Nil
           T(o) == Tame(o, x, cause)
<1>1. \A b \in BOOLEAN : T(Ref(NativeBool(b)))
  BY Plain
<1>2. T(Failed) /\ (left = Nil => T(Panic)) /\ (right = Nil => T(Panic))
  BY Plain
<1>3. \A l, r : T(Ref(NativeBool(l = r))) /\ T(Ref(NativeBool(l # r))) /\ T(Ref(NativeBool(l > r)))
  <2> TAKE l, r
  <2>1. (l = r) \in BOOLEAN /\ (l # r) \in BOOLEAN
    OBVIOUS
  <2>2. NativeBool(l > r) \in {NativeBool(TRUE), NativeBool(FALSE)}
    BY DEF NativeBool
  <2> HIDE DEF T
  <2> QED BY <1>1, <2>1, <2>2
<1> HIDE DEF T
<1>4. T(ComparisonOutcome(h, op, left, right))
  BY <1>2, <1>3 DEF ComparisonOutcome
<1> QED BY <1>4 DEF T

(* The values of a hash are among the elements it is made of.              *)
LEMMA HashValues ==
  ASSUME NEW h, NEW S, NEW elements \in Seq(S)
  PROVE  \A k \in DOMAIN HashData(h, elements) : HashData(h, elements)[k] \in S
<1> DEFINE pairs == 1..(Len(elements) \div 2)
           key(i) == HashKey(h, elements[2 * i - 1])
           last(k) == CHOOSE i \in pairs : key(i) = k /\ \A j \in pairs : key(j) = k => j <= i
<1>1. Len(elements) \in Nat /\ Len(elements) \div 2 \in Nat
      /\ 2 * (Len(elements) \div 2) <= Len(elements)
  OBVIOUS
<1>2. ASSUME NEW i \in pairs PROVE elements[2 * i] \in S
  <2>1. 2 * i \in 1..Len(elements)
    BY <1>1
  <2> QED BY <2>1, ElementOfSeq
<1>3. ASSUME NEW k \in {key(i) : i \in pairs}
      PROVE  last(k) \in pairs
  <2> DEFINE T == {i \in pairs : key(i) = k}
  <2>1. T \subseteq 1..(Len(elements) \div 2) /\ T # {} /\ Len(elements) \div 2 \in Nat
    BY <1>1
  <2>2. PICK i \in T : \A j \in T : j <= i
    <3> HIDE DEF T
    <3> QED BY <2>1, Greatest
  <2>3. i \in pairs /\ key(i) = k /\ \A j \in pairs : key(j) = k => j <= i
    BY <2>2
  <2> HIDE DEF key, pairs
  <2> QED BY <2>3
<1>4. HashData(h, elements) = [k \in {key(i) : i \in pairs} |-> elements[2 * last(k)]]
  BY DEF HashData
<1> HIDE DEF key, last, pairs
<1> QED BY <1>2, <1>3, <1>4

(* A hash literal panics at a key that is not hashable.                    *)
LEMMA HashTame ==
  ASSUME NEW h, NEW S, NEW elements \in Seq(S), NEW x, x \notin S
  PROVE  Tame(HashOutcome(h, elements), x,
              \E i \in 1..(Len(elements) \div 2) : ~ Hashable(h, elements[2 * i - 1]))
<1> DEFINE cause == \E i \in 1..(Len(elements) \div 2) : ~ Hashable(h, elements[2 * i - 1])
           d == HashData(h, elements)
<1>1. CASE cause
  <2>1. HashOutcome(h, elements) = Panic
    BY <1>1 DEF HashOutcome
  <2> HIDE DEF cause
  <2>2. Tame(HashOutcome(h, elements), x, cause)
    BY <1>1, <2>1 DEF Tame, Spares, MakesClosure, Panic
  <2> QED BY <2>2 DEF cause
<1>2. CASE ~ cause
  <2>1. HashOutcome(h, elements) = New(Hash(d))
    BY <1>2 DEF HashOutcome
  <2>2. \A k \in DOMAIN d : d[k] # x
    BY HashValues
  <2> HIDE DEF cause, d
  <2>3. Hash(d).t = "HASH" /\ Hash(d).d = d
    BY DEF Hash
  <2>4. Avoids(Hash(d), x)
    BY <2>2, <2>3 DEF Avoids
  <2>5. Tame(New(Hash(d)), x, cause)
    BY <2>3, <2>4 DEF Tame, Spares, MakesClosure, New
  <2> QED BY <2>1, <2>5 DEF cause
<1> QED BY <1>1, <1>2

(* An index panics when the collection or the index is nil.                *)
LEMMA IndexTame ==
  ASSUME NEW h, HeapOK(h), NEW left \in 0..Len(h), NEW index \in 0..Len(h),
         NEW x, AllAvoid(h, x)
  PROVE  Tame(IndexOutcome(h, left, index), x, left = Nil \/ index = Nil)
<1> DEFINE cause == left = Nil \/ index = Nil
           outcome == IndexOutcome(h, left, index)
<1>1. CASE outcome \in {Failed, Ref(Null)}
  <2> HIDE DEF cause, outcome
  <2>1. Tame(outcome, x, cause)
    BY <1>1 DEF Tame, Spares, MakesClosure, Failed, Ref
  <2> QED BY <2>1 DEF cause, outcome
<1>2. CASE outcome = Panic /\ cause
  <2> HIDE DEF cause, outcome
  <2>1. Tame(outcome, x, cause)
    BY <1>2 DEF Tame, Spares, MakesClosure, Panic
  <2> QED BY <2>1 DEF cause, outcome
<1>3. CASE \E a : a # x /\ outcome = Ref(a)
  <2> HIDE DEF cause, outcome
  <2>1. Tame(outcome, x, cause)
    BY <1>3 DEF Tame, Spares, MakesClosure, Ref
  <2> QED BY <2>1 DEF cause, outcome
<1>4. left # Nil => Avoids(h[left], x)
  BY Referent DEF AllAvoid
<1>5. CASE left # Nil /\ Is(h, left, "ARRAY")
  <2>1. outcome = ArrayIndexOutcome(h, h[left].e, index)
    BY <1>5 DEF IndexOutcome, Is
  <2>2. h[left].e \in Seq(0..Len(h)) /\ \A i \in DOMAIN h[left].e : h[left].e[i] # x
    BY <1>4, <1>5, Referent DEF Is, Avoids
  <2>3. CASE Is(h, index, "INTEGER") /\ h[index].n \in 0..(Len(h[left].e) - 1)
    <3>1. \A e \in Seq(0..Len(h)) : \A i \in 0..(Len(e) - 1) : i + 1 \in DOMAIN e
      OBVIOUS
    <3>2. h[index].n + 1 \in DOMAIN h[left].e
      BY <2>2, <2>3, <3>1
    <3>3. outcome = Ref(h[left].e[h[index].n + 1])
      BY <2>1, <2>3 DEF ArrayIndexOutcome
    <3> QED BY <1>3, <2>2, <3>2, <3>3
  <2>4. CASE ~ (Is(h, index, "INTEGER") /\ h[index].n \in 0..(Len(h[left].e) - 1))
    <3>1. outcome \in {Failed, Ref(Null)}
      BY <2>1, <2>4 DEF ArrayIndexOutcome
    <3> QED BY <1>1, <3>1
  <2> QED BY <2>3, <2>4
<1>6. CASE left # Nil /\ ~ Is(h, left, "ARRAY") /\ Is(h, left, "HASH")
  <2>1. outcome = HashIndexOutcome(h, h[left].d, index)
    BY <1>6 DEF IndexOutcome
  <2>2. \A k \in DOMAIN h[left].d : h[left].d[k] # x
    BY <1>4, <1>6 DEF Is, Avoids
  <2>3. CASE index # Nil /\ Hashable(h, index) /\ HashKey(h, index) \in DOMAIN h[left].d
    <3>1. outcome = Ref(h[left].d[HashKey(h, index)])
      BY <2>1, <2>3 DEF HashIndexOutcome
    <3> QED BY <1>3, <2>2, <2>3, <3>1
  <2>4. CASE index = Nil
    <3>1. outcome = Panic
      BY <2>1, <2>4 DEF HashIndexOutcome
    <3> QED BY <1>2, <2>4, <3>1
  <2>5. CASE index # Nil /\ ~ (Hashable(h, index) /\ HashKey(h, index) \in DOMAIN h[left].d)
    <3>1. outcome \in {Failed, Ref(Null)}
      BY <2>1, <2>5 DEF HashIndexOutcome
    <3> QED BY <1>1, <3>1
  <2> QED BY <2>3, <2>4, <2>5
<1>7. CASE left = Nil
  <2>1. outcome = Panic
    BY <1>7 DEF IndexOutcome, Is
  <2> QED BY <1>2, <1>7, <2>1
<1>8. CASE left # Nil /\ ~ Is(h, left, "ARRAY") /\ ~ Is(h, left, "HASH")
  <2>1. outcome = Failed
    BY <1>8 DEF IndexOutcome
  <2> QED BY <1>1, <2>1
<1> QED BY <1>5, <1>6, <1>7, <1>8

(* len panics at a nil only.                                               *)
LEMMA LenTame ==
  ASSUME NEW h, NEW a, NEW x
  PROVE  Tame(LenOutcome(h, a), x, a = Nil)
<1> DEFINE cause == a = Nil
           outcome == LenOutcome(h, a)
<1>1. \A i : Integer(i).t = "INTEGER"
  BY DEF Integer
<1>2. CASE a = Nil
  <2>1. outcome = Panic
    BY <1>2 DEF LenOutcome, Is
  <2> HIDE DEF cause, outcome
  <2>2. cause /\ cause \in BOOLEAN
    BY <1>2 DEF cause
  <2>3. Tame(outcome, x, cause)
    BY <2>1, <2>2, Plain
  <2> QED BY <2>3 DEF cause, outcome
<1>3. CASE a # Nil
  <2>1. outcome = New(Error) \/ \E i : outcome = New(Integer(i))
    BY <1>3 DEF LenOutcome
  <2>2. Error.t = "ERROR" /\ cause \in BOOLEAN
    BY DEF Error
  <2> HIDE DEF cause, outcome
  <2>3. Tame(outcome, x, cause)
    BY <1>1, <2>1, <2>2, Plain
  <2> QED BY <2>3 DEF cause, outcome
<1> QED BY <1>2, <1>3

(* An array of values other than x avoids x.                               *)
LEMMA ArrayTame ==
  ASSUME NEW S, NEW e \in Seq(S), NEW x, x \notin S, NEW cause
  PROVE  Tame(New(Array(e)), x, cause)
<1>1. Array(e).t = "ARRAY" /\ Array(e).e = e
  BY DEF Array
<1>2. \A i \in DOMAIN e : e[i] # x
  BY ElementOfSeq, LenProperties
<1>3. Avoids(Array(e), x)
  BY <1>1, <1>2 DEF Avoids
<1> QED BY <1>1, <1>3 DEF Tame, Spares, MakesClosure, New

(* first, last, rest, push and pop panic at pop of an empty array only.    *)
LEMMA ElementsTame ==
  ASSUME NEW S, NEW e \in Seq(S), NEW x, x \notin S, NEW args,
         NEW name \in {"first", "last", "rest", "push", "pop"},
         name = "push" => args[2] \in S
  PROVE  \/ ElementsOutcome(name, e, args) = Ref(Nil)
         \/ Tame(ElementsOutcome(name, e, args), x, name = "pop" /\ e = << >>)
<1> DEFINE outcome == ElementsOutcome(name, e, args)
           cause == name = "pop" /\ e = << >>
<1>1. e # << >> => /\ e[1] \in S /\ e[Len(e)] \in S
                   /\ Tail(e) \in Seq(S) /\ SubSeq(e, 1, Len(e) - 1) \in Seq(S)
  OBVIOUS
<1>2. \A a \in S : Tame(Ref(a), x, cause)
  BY DEF Tame, Spares, MakesClosure, Ref
<1>3. \A s \in Seq(S) : Tame(New(Array(s)), x, cause)
  BY ArrayTame
<1>4. CASE name = "first"
  <2>1. outcome = Ref(IF e = << >> THEN Nil ELSE e[1])
    BY <1>4 DEF ElementsOutcome
  <2> HIDE DEF outcome, cause
  <2>2. outcome = Ref(Nil) \/ Tame(outcome, x, cause)
    BY <1>1, <1>2, <2>1
  <2> QED BY <2>2 DEF outcome, cause
<1>5. CASE name = "last"
  <2>1. outcome = Ref(IF e = << >> THEN Nil ELSE e[Len(e)])
    BY <1>5 DEF ElementsOutcome
  <2> HIDE DEF outcome, cause
  <2>2. outcome = Ref(Nil) \/ Tame(outcome, x, cause)
    BY <1>1, <1>2, <2>1
  <2> QED BY <2>2 DEF outcome, cause
<1>6. CASE name = "rest"
  <2>1. outcome = IF e = << >> THEN Ref(Nil) ELSE New(Array(Tail(e)))
    BY <1>6 DEF ElementsOutcome
  <2> HIDE DEF outcome, cause
  <2>2. outcome = Ref(Nil) \/ Tame(outcome, x, cause)
    BY <1>1, <1>3, <2>1
  <2> QED BY <2>2 DEF outcome, cause
<1>7. CASE name = "push"
  <2>1. outcome = New(Array(Append(e, args[2])))
    BY <1>7 DEF ElementsOutcome
  <2>2. Append(e, args[2]) \in Seq(S)
    BY <1>7
  <2> HIDE DEF outcome, cause
  <2>3. Tame(outcome, x, cause)
    BY <1>3, <2>1, <2>2
  <2> QED BY <2>3 DEF outcome, cause
<1>8. CASE name = "pop"
  <2>1. outcome = IF e = << >> THEN Panic ELSE New(Array(SubSeq(e, 1, Len(e) - 1)))
    BY <1>8 DEF ElementsOutcome
  <2>2. e = << >> => cause
    BY <1>8
  <2>3. cause => Tame(Panic, x, cause)
    BY DEF Tame, Spares, MakesClosure, Panic
  <2> HIDE DEF outcome, cause
  <2>4. Tame(outcome, x, cause)
    BY <1>1, <1>3, <2>1, <2>2, <2>3
  <2> QED BY <2>4 DEF outcome, cause
<1> QED BY <1>4, <1>5, <1>6, <1>7, <1>8

(* A builtin panics at a nil, at pop of an empty array, and when puts      *)
(* meets a nil inside an argument; none hands on a nil.                    *)
BuiltinPanics(h, name, args) ==
  \/ \E i \in 1..Len(args) : args[i] = Nil
  \/ name = "pop" /\ Len(args) = 1 /\ h[args[1]] = Array(<< >>)
  \/ name = "puts" /\ \E i \in 1..Len(args) : ~ Inspectable(h)[args[i]]

(* What a builtin returns holds no reference that was to be avoided and is *)
(* no new closure, and it panics for these reasons only.                   *)
LEMMA BuiltinTame ==
  ASSUME NEW h, HeapOK(h), NEW x, AllAvoid(h, x),
         NEW args \in Seq(0..Len(h)), \A i \in 1..Len(args) : args[i] # x,
         NEW name, name \in { BuiltinNames[i] : i \in 1..7 }
  PROVE  Tame(BuiltinOutcome(h, name, args), x, BuiltinPanics(h, name, args))
<1> DEFINE cause == BuiltinPanics(h, name, args)
           S == (0..Len(h)) \ {x}
<1>1. ASSUME NEW outcome, outcome = Ref(Nil) \/ Tame(outcome, x, cause)
      PROVE  Tame(OrNull(outcome), x, cause)
  <2>1. Tame(Ref(Null), x, cause)
    BY DEF Tame, Spares, MakesClosure, Ref
  <2> HIDE DEF cause
  <2> QED BY <1>1, <2>1 DEF OrNull
<1>2. name \in {"len", "puts", "first", "last", "rest", "push", "pop"}
  BY DEF BuiltinNames
<1>3. Error.t = "ERROR"
  BY DEF Error
<1>4. Tame(New(Error), x, cause)
  BY <1>3 DEF Tame, Spares, MakesClosure, New, Avoids
<1>5. cause => Tame(Panic, x, cause)
  BY DEF Tame, Spares, MakesClosure, Panic
<1>6. CASE name = "puts"
  <2>1. BuiltinOutcome(h, name, args) = OrNull(PutsOutcome(h, args))
    BY <1>6 DEF BuiltinOutcome
  <2>2. PutsOutcome(h, args) = Ref(Nil) \/ (PutsOutcome(h, args) = Panic /\ cause)
    BY <1>6 DEF PutsOutcome, BuiltinPanics
  <2> HIDE DEF cause
  <2>3. Tame(BuiltinOutcome(h, name, args), x, cause)
    BY <1>1, <1>5, <2>1, <2>2
  <2> QED BY <2>3 DEF cause
<1>7. CASE name # "puts" /\ Len(args) # Arity(name)
  <2>1. BuiltinOutcome(h, name, args) = OrNull(New(Error))
    BY <1>7 DEF BuiltinOutcome, Arity
  <2> HIDE DEF cause
  <2>2. Tame(BuiltinOutcome(h, name, args), x, cause)
    BY <1>1, <1>4, <2>1
  <2> QED BY <2>2 DEF cause
<1>8. CASE name = "len" /\ Len(args) = Arity(name)
  <2>1. Len(args) = 1
    BY <1>8 DEF Arity
  <2>2. BuiltinOutcome(h, name, args) = OrNull(LenOutcome(h, args[1]))
    BY <1>8, <2>1 DEF BuiltinOutcome, Arity
  <2>3. args[1] = Nil => cause
    BY <2>1 DEF BuiltinPanics
  <2>4. Tame(LenOutcome(h, args[1]), x, args[1] = Nil)
    BY LenTame
  <2> HIDE DEF cause
  <2>5. Tame(LenOutcome(h, args[1]), x, cause)
    BY <2>3, <2>4 DEF Tame
  <2>6. Tame(BuiltinOutcome(h, name, args), x, cause)
    BY <1>1, <2>2, <2>5
  <2> QED BY <2>6 DEF cause
<1>9. CASE name \notin {"puts", "len"} /\ Len(args) = Arity(name)
  <2>1. BuiltinOutcome(h, name, args) = OrNull(ArrayBuiltinOutcome(h, name, args))
    BY <1>9 DEF BuiltinOutcome
  <2>2. 1 \in 1..Len(args) /\ args[1] \in 0..Len(h) /\ args[1] # x
        /\ (name = "push" => args[2] \in S) /\ (name # "push" => Len(args) = 1)
    BY <1>9 DEF Arity
  <2>3. CASE args[1] = Nil
    <3>1. ArrayBuiltinOutcome(h, name, args) = Panic
      BY <2>3 DEF ArrayBuiltinOutcome, Is
    <3>2. cause
      BY <2>2, <2>3 DEF BuiltinPanics
    <3> HIDE DEF cause
    <3>3. Tame(BuiltinOutcome(h, name, args), x, cause)
      BY <1>1, <1>5, <2>1, <3>1, <3>2
    <3> QED BY <3>3 DEF cause
  <2>4. CASE args[1] # Nil /\ h[args[1]].t # "ARRAY"
    <3>1. ArrayBuiltinOutcome(h, name, args) = New(Error)
      BY <2>4 DEF ArrayBuiltinOutcome, Is
    <3> HIDE DEF cause
    <3>2. Tame(BuiltinOutcome(h, name, args), x, cause)
      BY <1>1, <1>4, <2>1, <3>1
    <3> QED BY <3>2 DEF cause
  <2>5. CASE args[1] # Nil /\ h[args[1]].t = "ARRAY"
    <3> DEFINE e == h[args[1]].e
               outcome == ElementsOutcome(name, e, args)
    <3>1. ArrayBuiltinOutcome(h, name, args) = outcome
      BY <2>5 DEF ArrayBuiltinOutcome, Is
    <3>2. e \in Seq(0..Len(h)) /\ args[1] \in 1..Len(h) /\ Avoids(h[args[1]], x)
          /\ WellFormed(h[args[1]], args[1] - 1)
      <4>1. args[1] \in 1..Len(h) /\ WellFormed(h[args[1]], args[1] - 1)
        BY <2>2, <2>5, Referent
      <4>2. h[args[1]].t = "ARRAY" => h[args[1]].e \in Seq(0..Len(h))
        BY <2>2, <2>5, Referent
      <4> QED BY <2>5, <4>1, <4>2 DEF AllAvoid
    <3>3. e \in Seq(S)
      <4>1. \A i \in 1..Len(e) : e[i] \in S
        <5>1. e \in [1..Len(e) -> 0..Len(h)] /\ DOMAIN e = 1..Len(e)
          <6> HIDE DEF e
          <6> QED BY <3>2, LenProperties
        <5>2. \A i \in DOMAIN e : e[i] # x
          BY <2>5, <3>2 DEF Avoids
        <5> HIDE DEF e
        <5> QED BY <5>1, <5>2
      <4>2. e \in [1..Len(e) -> 0..Len(h)] /\ Len(e) \in Nat
        BY <3>2, LenProperties
      <4>3. e \in [1..Len(e) -> S]
        <5> HIDE DEF e, S
        <5> QED BY <4>1, <4>2
      <4> HIDE DEF e, S
      <4> QED BY <4>2, <4>3, SeqDef
    <3>4. name = "pop" /\ e = << >> => cause
      <4> SUFFICES ASSUME name = "pop", e = << >> PROVE cause
        OBVIOUS
      <4>1. h[args[1]] = Array(<< >>)
        <5>1. h[args[1]] \in [t : {"ARRAY"}, e : Seq(0..(args[1] - 1))]
          BY <2>5, <3>2 DEF WellFormed, Keys
        <5> QED BY <5>1 DEF Array
      <4> QED BY <2>2, <4>1 DEF BuiltinPanics
    <3>5. outcome = Ref(Nil) \/ Tame(outcome, x, name = "pop" /\ e = << >>)
      <4> HIDE DEF e, S
      <4>1. x \notin S
        BY DEF S
      <4> QED BY <1>2, <1>9, <2>2, <3>3, <4>1, ElementsTame
    <3> HIDE DEF cause, outcome, e
    <3>6. outcome = Ref(Nil) \/ Tame(outcome, x, cause)
      BY <3>4, <3>5 DEF Tame
    <3>7. Tame(BuiltinOutcome(h, name, args), x, cause)
      BY <1>1, <2>1, <3>1, <3>6
    <3> QED BY <3>7 DEF cause
  <2> QED BY <2>3, <2>4, <2>5
<1> QED BY <1>2, <1>6, <1>7, <1>8, <1>9

-----------------------------------------------------------------------------
(* The instructions that deliver a value.                                  *)

(* No reference that the instruction can get hold of is x.                 *)
Clear(x) ==
  /\ x \notin {Null, True, False}
  /\ AllAvoid(heap, x)
  /\ \A i \in 1..Reads : Peek(i) # x
  /\ \A i \in 1..Len(constants) : constants[i] # x
  /\ Op = "OpGetLocal" => stack[LocalSlot(Operand)] # x
  /\ Op = "OpGetGlobal" => globals[Operand] # x
  /\ Op = "OpGetBuiltin" => BuiltinRef(Operand) # x
  /\ Op = "OpCurrentClosure" => Frame.cl # x

(* A step that delivers outcome at p and goes on to the next instruction.  *)
Delivers(p, outcome) ==
  /\ Deliver(p, outcome) /\ UNCHANGED << constants, globals >>
  /\ p \in Nat /\ Floor(Len(frames)) <= p /\ p <= sp
  /\ outcome.is \in {"ref", "new"} => p = sp - Reads
  /\ Successors(Fn.ins, Lip) = {LastByte + 1} /\ Leaves(Fn.ins, Lip) = 1
  /\ LastByte \in Nat
  /\ \A x : Clear(x) => Spares(outcome, x)
  /\ MakesClosure(outcome) => MayRun(heap, constants, outcome.obj)
  /\ outcome.is = "panic" => KnownPanic

(* The closure of the program is out of reach of every instruction.        *)
LEMMA MainIsClear ==
  ASSUME Inv, RunsCertified, Running, InRange
  PROVE  Clear(MainClosure)
<1> DEFINE n == Len(frames)
<1>1. MainIsPrivate /\ MainClosure > 10
  BY Shared DEF RunsCertified, MainIsPrivate
<1>2. /\ Op \in WideOps \cup NarrowOps \cup {"OpClosure"} => Operand \in Nat
      /\ Reads \in Nat /\ Depth \in Nat /\ Reads <= Depth
      /\ Floor(n) \in Nat /\ sp = Floor(n) + Depth /\ (Depth > 0 => sp <= StackSize)
      /\ Lip \in Reached(Fn.ins)
  BY Standing
<1>3. StackSize \in Nat /\ GlobalsSize \in Nat /\ Frame.bp \in Nat /\ n \in 1..MaxFrames
      /\ MaxFrames \in Nat
  BY CurrentFrame, SizesAssumption
<1>4. MainClosure \notin {Null, True, False}
  <2>1. MainClosure \in 1..Len(heap)
    <3>1. HeapOK(heap) /\ FramesOK(heap, frames) /\ 1 \in 1..n
      BY <1>3, InvParts
    <3> QED BY <3>1, FrameFields DEF MainClosure
  <2> QED BY <1>1, <2>1 DEF Null, True, False
<1>5. AllAvoid(heap, MainClosure) /\ \A i \in 1..Len(constants) : constants[i] # MainClosure
  BY <1>1 DEF MainIsPrivate, AllAvoid
<1>6. ASSUME NEW i \in 1..Reads PROVE Peek(i) # MainClosure
  <2>1. sp - i \in 0..(StackSize - 1)
    BY <1>2, <1>3
  <2> QED BY <1>1, <2>1 DEF MainIsPrivate, Peek
<1>7. ASSUME Op = "OpGetLocal" PROVE stack[LocalSlot(Operand)] # MainClosure
  <2>1. LocalSlot(Operand) < StackSize
    BY <1>7 DEF InRange
  <2>2. LocalSlot(Operand) \in 0..(StackSize - 1)
    BY <1>2, <1>3, <1>7, <2>1 DEF LocalSlot, NarrowOps
  <2> QED BY <1>1, <2>2 DEF MainIsPrivate
<1>8. ASSUME Op = "OpGetGlobal" PROVE globals[Operand] # MainClosure
  <2>1. Operand < GlobalsSize
    BY <1>8 DEF InRange
  <2>2. Operand \in 0..(GlobalsSize - 1)
    BY <1>2, <1>3, <1>8, <2>1 DEF WideOps
  <2> QED BY <1>1, <2>2 DEF MainIsPrivate
<1>9. ASSUME Op = "OpGetBuiltin" PROVE BuiltinRef(Operand) # MainClosure
  <2>1. Operand < 7 /\ Operand \in Nat
    BY <1>2, <1>9 DEF InRange, BuiltinNames, NarrowOps
  <2>2. BuiltinRef(Operand) <= 10 /\ BuiltinRef(Operand) \in Nat
    BY <2>1 DEF BuiltinRef
  <2>3. MainClosure \in Nat
    <3>1. HeapOK(heap) /\ FramesOK(heap, frames) /\ 1 \in 1..n
      BY <1>3, InvParts
    <3>2. MainClosure \in 1..Len(heap)
      BY <3>1, FrameFields DEF MainClosure
    <3> QED BY <3>2
  <2> QED BY <1>1, <2>2, <2>3
<1>10. ASSUME Op = "OpCurrentClosure" PROVE Frame.cl # MainClosure
  <2>1. OpAt(Fn.ins, Lip) = "OpCurrentClosure"
    BY <1>10 DEF OpAt, Op
  <2>2. CASE n = 1
    <3>1. Fn = FunctionOf(1) /\ 1 \in 1..n
      BY <2>2, Words DEF Frame
    <3>2. CertifiedProgram(heap, constants, Fn)
      BY <3>1, FrameCertified
    <3> QED BY <1>2, <2>1, <3>2 DEF CertifiedProgram
  <2>3. CASE n # 1
    <3>1. \A m \in 1..MaxFrames : m # 1 => m \in 2..m
      BY <1>3
    <3>2. n \in 2..n
      BY <1>3, <2>3, <3>1
    <3> QED BY <1>1, <3>2 DEF MainIsPrivate, Frame
  <2> QED BY <2>2, <2>3
<1> QED BY <1>4, <1>5, <1>6, <1>7, <1>8, <1>9, <1>10 DEF Clear

(* An instruction that neither jumps nor returns leads to the next one.    *)
LEMMA Straight ==
  ASSUME Inv, Op \notin {"OpJump", "OpJumpNotTruthy", "OpReturnValue", "OpReturn"}
  PROVE  Successors(Fn.ins, Lip) = {LastByte + 1} /\ LastByte \in Nat
<1>1. OpAt(Fn.ins, Lip) = Op /\ Lip \in Nat /\ InstructionLen(Op) \in 1..4
  BY CurrentFrame, InstructionBytes DEF OpAt, Op
<1>2. After(Fn.ins, Lip) = LastByte + 1 /\ LastByte \in Nat
  BY <1>1 DEF After, LastByte
<1>3. Successors(Fn.ins, Lip) = {After(Fn.ins, Lip)}
  BY <1>1 DEF Successors
<1> QED BY <1>2, <1>3

(* What a tame outcome needs, to be delivered below the values taken.      *)
LEMMA TameDelivers ==
  ASSUME Inv, RunsCertified, Running, InRange, NEW outcome, NEW cause, cause => KnownPanic,
         \A x : Clear(x) => Tame(outcome, x, cause),
         Op \notin {"OpJump", "OpJumpNotTruthy", "OpReturnValue", "OpReturn",
                    "OpSetGlobal", "OpSetLocal", "OpPop"},
         NEW p, p = sp - Reads \/ (p = sp /\ outcome = Failed),
         Deliver(p, outcome), UNCHANGED << constants, globals >>
  PROVE  Delivers(p, outcome)
<1>1. Reads \in Nat /\ Depth \in Nat /\ Reads <= Depth /\ Floor(Len(frames)) \in Nat
      /\ sp = Floor(Len(frames)) + Depth
  BY Standing
<1>2. p \in Nat /\ Floor(Len(frames)) <= p /\ p <= sp
  BY <1>1
<1>3. outcome.is \in {"ref", "new"} => p = sp - Reads
  BY DEF Failed
<1>4. Successors(Fn.ins, Lip) = {LastByte + 1} /\ LastByte \in Nat
  BY Straight
<1>5. Leaves(Fn.ins, Lip) = 1
  BY DEF Leaves, LeftBy, OpAt, Op
<1>6. Tame(outcome, MainClosure, cause)
  BY MainIsClear
<1>7. ~ MakesClosure(outcome) /\ (outcome.is = "panic" => KnownPanic)
  BY <1>6 DEF Tame
<1>8. \A x : Clear(x) => Spares(outcome, x)
  BY DEF Clear, Tame
<1> QED BY <1>2, <1>3, <1>4, <1>5, <1>7, <1>8 DEF Delivers

Pushes == \/ PushConstant \/ PushSingleton \/ GetGlobal \/ GetLocal
          \/ GetBuiltin \/ GetFree \/ CurrentClosure

(* A push delivers a reference that is at hand.                            *)
LEMMA PushesDeliver ==
  ASSUME Inv, RunsCertified, Pushes
  PROVE  \E p, outcome : Delivers(p, outcome)
<1>1. ASSUME NEW op \in {"OpConstant", "OpTrue", "OpFalse", "OpNull", "OpGetGlobal",
                         "OpGetLocal", "OpGetBuiltin", "OpGetFree", "OpCurrentClosure"},
             NEW ops, Executes(ops), Op = op, NEW a, \A x : Clear(x) => a # x,
             Deliver(sp, Ref(a)), UNCHANGED << constants, globals >>
      PROVE  Delivers(sp, Ref(a))
  <2>1. Running /\ InRange
    BY <1>1, Fetched
  <2>2. Reads = 0 /\ sp = sp - Reads
    <3>1. Reads = 0
      BY <1>1 DEF Reads
    <3>2. sp \in Nat
      BY InvParts
    <3> QED BY <3>1, <3>2
  <2>3. \A x : Clear(x) => Tame(Ref(a), x, FALSE)
    BY <1>1 DEF Tame, Spares, MakesClosure, Ref
  <2> QED BY <1>1, <2>1, <2>2, <2>3, TameDelivers
<1>2. ASSUME NEW ops, Executes(ops) PROVE Op \in ops /\ Running /\ InRange /\ Lip \in Reached(Fn.ins)
  BY <1>2, Fetched, Standing
<1>3. CASE PushConstant
  <2>1. Executes({"OpConstant"}) /\ Deliver(sp, Ref(constants[Operand + 1]))
        /\ UNCHANGED << constants, globals >>
    BY <1>3 DEF PushConstant
  <2>2. Op = "OpConstant" /\ InRange /\ Operand \in Nat
    BY <2>1, Fetched DEF WideOps
  <2>3. Operand + 1 \in 1..Len(constants)
    <3>1. Operand < Len(constants) /\ Len(constants) \in Nat
      BY <2>2, InvParts DEF InRange
    <3> QED BY <2>2, <3>1
  <2>4. \A x : Clear(x) => constants[Operand + 1] # x
    BY <2>3 DEF Clear
  <2> QED BY <1>1, <2>1, <2>2, <2>4
<1>4. CASE PushSingleton
  <2> DEFINE a == CASE Op = "OpTrue" -> True
                    [] Op = "OpFalse" -> False
                    [] Op = "OpNull" -> Null
  <2>1. Executes({"OpTrue", "OpFalse", "OpNull"}) /\ Deliver(sp, Ref(a))
        /\ UNCHANGED << constants, globals >>
    BY <1>4 DEF PushSingleton
  <2>2. Op \in {"OpTrue", "OpFalse", "OpNull"}
    BY <1>2, <2>1
  <2>3. a \in {True, False, Null}
    BY <2>2
  <2> HIDE DEF a
  <2>4. \A x : Clear(x) => a # x
    BY <2>3 DEF Clear
  <2> QED BY <1>1, <2>1, <2>2, <2>4
<1>5. CASE GetGlobal
  <2>1. Executes({"OpGetGlobal"}) /\ Deliver(sp, Ref(globals[Operand]))
        /\ UNCHANGED << constants, globals >>
    BY <1>5 DEF GetGlobal
  <2>2. Op = "OpGetGlobal"
    BY <1>2, <2>1
  <2>3. \A x : Clear(x) => globals[Operand] # x
    BY <2>2 DEF Clear
  <2> QED BY <1>1, <2>1, <2>2, <2>3
<1>6. CASE GetLocal
  <2>1. Executes({"OpGetLocal"}) /\ Deliver(sp, Ref(stack[LocalSlot(Operand)]))
        /\ UNCHANGED << constants, globals >>
    BY <1>6 DEF GetLocal
  <2>2. Op = "OpGetLocal"
    BY <1>2, <2>1
  <2>3. \A x : Clear(x) => stack[LocalSlot(Operand)] # x
    BY <2>2 DEF Clear
  <2> QED BY <1>1, <2>1, <2>2, <2>3
<1>7. CASE GetBuiltin
  <2>1. Executes({"OpGetBuiltin"}) /\ Deliver(sp, Ref(BuiltinRef(Operand)))
        /\ UNCHANGED << constants, globals >>
    BY <1>7 DEF GetBuiltin
  <2>2. Op = "OpGetBuiltin"
    BY <1>2, <2>1
  <2>3. \A x : Clear(x) => BuiltinRef(Operand) # x
    BY <2>2 DEF Clear
  <2> QED BY <1>1, <2>1, <2>2, <2>3
<1>8. CASE GetFree
  <2>1. Executes({"OpGetFree"}) /\ Deliver(sp, Ref(Free[Operand + 1]))
        /\ UNCHANGED << constants, globals >>
    BY <1>8 DEF GetFree
  <2>2. Op = "OpGetFree" /\ InRange /\ Operand \in Nat
    BY <2>1, Fetched DEF NarrowOps
  <2>3. Operand + 1 \in DOMAIN Free
    <3>1. Operand < Len(Free) /\ Free \in Seq(0..Len(heap))
      BY <2>2, CurrentFrame DEF InRange
    <3> QED BY <2>2, <3>1
  <2>4. Frame.cl \in 1..Len(heap) /\ heap[Frame.cl].t = "CLOSURE"
    <3>1. HeapOK(heap) /\ FramesOK(heap, frames) /\ Len(frames) \in 1..Len(frames)
      BY InvParts, CurrentFrame
    <3> QED BY <3>1, FrameFields DEF Frame, Is
  <2>5. \A x : Clear(x) => Free[Operand + 1] # x
    BY <2>3, <2>4 DEF Clear, AllAvoid, Avoids, Free
  <2> QED BY <1>1, <2>1, <2>2, <2>5
<1>9. CASE CurrentClosure
  <2>1. Executes({"OpCurrentClosure"}) /\ Deliver(sp, Ref(Frame.cl))
        /\ UNCHANGED << constants, globals >>
    BY <1>9 DEF CurrentClosure
  <2>2. Op = "OpCurrentClosure"
    BY <1>2, <2>1
  <2>3. \A x : Clear(x) => Frame.cl # x
    BY <2>2 DEF Clear
  <2> QED BY <1>1, <2>1, <2>2, <2>3
<1> QED BY <1>3, <1>4, <1>5, <1>6, <1>7, <1>8, <1>9 DEF Pushes

Operations == BinaryOperation \/ Comparison \/ MinusOperator \/ BangOperator \/ Index

(* A nil among the values taken is a known panic.                          *)
LEMMA NilIsKnown ==
  ASSUME Inv, RunsCertified, Running, NEW i \in 1..Reads, Peek(i) = Nil
  PROVE  KnownPanic
<1>1. Reads <= sp
  <2>1. Reads \in Nat /\ Depth \in Nat /\ Reads <= Depth /\ Floor(Len(frames)) \in Nat
        /\ sp = Floor(Len(frames)) + Depth
    BY Standing
  <2> QED BY <2>1
<1> QED BY <1>1 DEF KnownPanic

(* An operator delivers what it comes to in the place of its operands.     *)
LEMMA OperationsDeliver ==
  ASSUME Inv, RunsCertified, Operations
  PROVE  \E p, outcome : Delivers(p, outcome)
<1>1. ASSUME NEW ops, Executes(ops)
      PROVE  Op \in ops /\ Running /\ InRange /\ OperandsPresent
  BY <1>1, Fetched
<1>2. HeapOK(heap)
  BY InvParts
<1>3. CASE BinaryOperation
  <2> DEFINE outcome == BinaryOutcome(heap, Op, Peek(2), Peek(1))
             cause == Peek(2) = Nil \/ Peek(1) = Nil \/ (Op = "OpDiv" /\ heap[Peek(1)] = Integer(0))
  <2>1. Executes({"OpAdd", "OpSub", "OpMul", "OpDiv"}) /\ Deliver(sp - 2, outcome)
        /\ UNCHANGED << constants, globals >>
    BY <1>3 DEF BinaryOperation
  <2>2. Op \in {"OpAdd", "OpSub", "OpMul", "OpDiv"} /\ Running /\ InRange /\ OperandsPresent
    BY <1>1, <2>1
  <2>3. Reads = 2
    BY <2>2 DEF Reads
  <2>4. Peek(2) \in 0..Len(heap) /\ Peek(1) \in 0..Len(heap) /\ sp - 2 \in Nat
    BY <2>2, OneOrTwoRead
  <2>5. \A x : Clear(x) => Tame(outcome, x, cause)
    BY <1>2, <2>2, <2>4, BinaryTame
  <2>6. cause => KnownPanic
    <3>1. 1 \in 1..Reads /\ 2 \in 1..Reads
      BY <2>3
    <3>2. Reads <= sp
      BY <2>2 DEF OperandsPresent
    <3> QED BY <2>2, <3>1, <3>2, NilIsKnown DEF KnownPanic
  <2> HIDE DEF outcome, cause
  <2> QED BY <2>1, <2>2, <2>3, <2>5, <2>6, TameDelivers
<1>4. CASE Comparison
  <2> DEFINE outcome == ComparisonOutcome(heap, Op, Peek(2), Peek(1))
             cause == Peek(2) = Nil \/ Peek(1) = Nil
  <2>1. Executes({"OpEqual", "OpNotEqual", "OpGreaterThan"}) /\ Deliver(sp - 2, outcome)
        /\ UNCHANGED << constants, globals >>
    BY <1>4 DEF Comparison
  <2>2. Op \in {"OpEqual", "OpNotEqual", "OpGreaterThan"} /\ Running /\ InRange
    BY <1>1, <2>1
  <2>3. Reads = 2
    BY <2>2 DEF Reads
  <2>4. \A x : Clear(x) => Tame(outcome, x, cause)
    BY <2>2, ComparisonTame
  <2>5. cause => KnownPanic
    <3>1. 1 \in 1..Reads /\ 2 \in 1..Reads
      BY <2>3
    <3> QED BY <2>2, <3>1, NilIsKnown
  <2> HIDE DEF outcome, cause
  <2> QED BY <2>1, <2>2, <2>3, <2>4, <2>5, TameDelivers
<1>5. CASE MinusOperator
  <2> DEFINE outcome == MinusOutcome(heap, Peek(1))
  <2>1. Executes({"OpMinus"}) /\ Deliver(sp - 1, outcome) /\ UNCHANGED << constants, globals >>
    BY <1>5 DEF MinusOperator
  <2>2. Op = "OpMinus" /\ Running /\ InRange
    BY <1>1, <2>1
  <2>3. Reads = 1
    BY <2>2 DEF Reads
  <2>4. \A x : Clear(x) => Tame(outcome, x, FALSE)
    BY MinusTame
  <2> HIDE DEF outcome
  <2> QED BY <2>1, <2>2, <2>3, <2>4, TameDelivers
<1>6. CASE BangOperator
  <2> DEFINE outcome == Ref(NativeBool(~ IsTruthy(Peek(1))))
  <2>1. Executes({"OpBang"}) /\ Deliver(sp - 1, outcome) /\ UNCHANGED << constants, globals >>
    BY <1>6 DEF BangOperator
  <2>2. Op = "OpBang" /\ Running /\ InRange
    BY <1>1, <2>1
  <2>3. Reads = 1
    BY <2>2 DEF Reads
  <2>4. \A x : Clear(x) => Tame(outcome, x, FALSE)
    <3>1. (~ IsTruthy(Peek(1))) \in BOOLEAN
      BY DEF IsTruthy
    <3> QED BY <3>1, Plain
  <2> HIDE DEF outcome
  <2> QED BY <2>1, <2>2, <2>3, <2>4, TameDelivers
<1>7. CASE Index
  <2> DEFINE outcome == IndexOutcome(heap, Peek(2), Peek(1))
             cause == Peek(2) = Nil \/ Peek(1) = Nil
  <2>1. Executes({"OpIndex"}) /\ Deliver(sp - 2, outcome) /\ UNCHANGED << constants, globals >>
    BY <1>7 DEF Index
  <2>2. Op = "OpIndex" /\ Running /\ InRange /\ OperandsPresent
    BY <1>1, <2>1
  <2>3. Reads = 2
    BY <2>2 DEF Reads
  <2>4. Peek(2) \in 0..Len(heap) /\ Peek(1) \in 0..Len(heap)
    BY <2>2, OneOrTwoRead
  <2>5. \A x : Clear(x) => Tame(outcome, x, cause)
    BY <1>2, <2>4, IndexTame DEF Clear
  <2>6. cause => KnownPanic
    <3>1. 1 \in 1..Reads /\ 2 \in 1..Reads
      BY <2>3
    <3> QED BY <2>2, <3>1, NilIsKnown
  <2> HIDE DEF outcome, cause
  <2> QED BY <2>1, <2>2, <2>3, <2>5, <2>6, TameDelivers
<1> QED BY <1>3, <1>4, <1>5, <1>6, <1>7 DEF Operations

(* The topmost values are those below the top, one by one.                 *)
LEMMA TopIsPeek ==
  ASSUME Inv, NEW n \in Nat
  PROVE  \A i \in 1..n : n + 1 - i \in 1..n /\ TopValues(n)[i] = Peek(n + 1 - i)
<1> SUFFICES ASSUME NEW i \in 1..n
             PROVE  n + 1 - i \in 1..n /\ TopValues(n)[i] = Peek(n + 1 - i)
  OBVIOUS
<1>1. sp \in Nat
  BY InvParts
<1>2. sp - n - 1 + i = sp - (n + 1 - i)
  BY <1>1
<1>3. TopValues(n)[i] = stack[sp - n - 1 + i]
  BY DEF TopValues
<1> QED BY <1>2, <1>3 DEF Peek

(* They are no x that is clear.                                            *)
LEMMA TopIsClear ==
  ASSUME Inv, NEW n \in Nat, Reads \in Nat, n <= Reads, n <= sp, n = 0 \/ sp <= StackSize,
         NEW x, Clear(x)
  PROVE  /\ TopValues(n) \in Seq((0..Len(heap)) \ {x}) /\ Len(TopValues(n)) = n
         /\ TopValues(n) \in Seq(0..Len(heap))
         /\ \A i \in 1..n : TopValues(n)[i] # x
<1> DEFINE e == TopValues(n)
           S == (0..Len(heap)) \ {x}
<1>1. e \in Seq(0..Len(heap))
  BY Taken
<1>2. e \in [1..n -> 0..Len(heap)]
  <2>1. DOMAIN e = 1..n
    BY DEF TopValues
  <2>2. e \in [1..Len(e) -> 0..Len(heap)]
    BY <1>1, LenProperties
  <2> HIDE DEF e
  <2> QED BY <2>1, <2>2
<1>3. \A i \in 1..n : e[i] # x
  <2>1. \A j \in 1..n : j \in 1..Reads
    OBVIOUS
  <2> QED BY <2>1, TopIsPeek DEF Clear
<1> HIDE DEF e
<1>4. e \in [1..n -> S]
  BY <1>2, <1>3
<1>5. e \in Seq(S)
  BY <1>4, SeqDef
<1>6. Len(e) = n
  <2>1. DOMAIN e = 1..n /\ DOMAIN e = 1..Len(e) /\ Len(e) \in Nat
    BY <1>1, <1>2, LenProperties
  <2> QED BY <2>1, SameLength
<1> QED BY <1>1, <1>3, <1>5, <1>6 DEF e

(* The values an instruction takes, all or some.                           *)
LEMMA TakenIsClear ==
  ASSUME Inv, RunsCertified, Running, InRange,
         NEW n \in Nat, n <= Reads, n = 0 \/ sp <= StackSize
  PROVE  /\ TopValues(n) \in Seq(0..Len(heap)) /\ Len(TopValues(n)) = n
         /\ \A x : Clear(x) => /\ TopValues(n) \in Seq((0..Len(heap)) \ {x})
                               /\ \A i \in 1..n : TopValues(n)[i] # x
<1>1. Reads \in Nat /\ n <= sp
  <2>1. Reads \in Nat /\ Depth \in Nat /\ Reads <= Depth /\ Floor(Len(frames)) \in Nat
        /\ sp = Floor(Len(frames)) + Depth
    BY Standing
  <2> QED BY <2>1
<1>2. ASSUME NEW x, Clear(x)
      PROVE  /\ TopValues(n) \in Seq((0..Len(heap)) \ {x}) /\ Len(TopValues(n)) = n
             /\ TopValues(n) \in Seq(0..Len(heap))
             /\ \A i \in 1..n : TopValues(n)[i] # x
  BY <1>1, <1>2, TopIsClear
<1>3. Clear(MainClosure)
  BY MainIsClear
<1> QED BY <1>2, <1>3

Builds == BuildArray \/ BuildHash \/ PushClosure

(* Literals and closures are built of the values taken.                    *)
LEMMA BuildsDeliver ==
  ASSUME Inv, RunsCertified, Builds
  PROVE  \E p, outcome : Delivers(p, outcome)
<1>1. ASSUME NEW ops, Executes(ops)
      PROVE  Op \in ops /\ Running /\ InRange /\ OperandsPresent
  BY <1>1, Fetched
<1>2. CASE BuildArray
  <2> DEFINE outcome == New(Array(TopValues(Operand)))
  <2>1. Executes({"OpArray"}) /\ Deliver(sp - Operand, outcome) /\ UNCHANGED << constants, globals >>
    BY <1>2 DEF BuildArray
  <2>2. Op = "OpArray" /\ Running /\ InRange /\ OperandsPresent
    BY <1>1, <2>1
  <2>3. Reads = Operand /\ Operand \in Nat
    BY <2>1, <2>2, Fetched DEF Reads, WideOps
  <2>4. sp <= StackSize /\ Operand <= Reads
    BY <2>2, <2>3 DEF OperandsPresent, TakesSlice
  <2>6. \A x : Clear(x) => TopValues(Operand) \in Seq((0..Len(heap)) \ {x})
    BY <2>2, <2>3, <2>4, TakenIsClear
  <2>5. \A x : Clear(x) => Tame(outcome, x, FALSE)
    <3> TAKE x
    <3> HAVE Clear(x)
    <3> DEFINE S == (0..Len(heap)) \ {x}
    <3>1. TopValues(Operand) \in Seq(S)
      BY <2>6
    <3>2. x \notin S
      OBVIOUS
    <3> HIDE DEF S
    <3> QED BY <3>1, <3>2, ArrayTame
  <2> HIDE DEF outcome
  <2> QED BY <2>1, <2>2, <2>3, <2>5, TameDelivers
<1>3. CASE BuildHash
  <2> DEFINE outcome == HashOutcome(heap, TopValues(Operand))
             e == TopValues(Operand)
             cause == \E i \in 1..(Len(e) \div 2) : ~ Hashable(heap, e[2 * i - 1])
  <2>1. Executes({"OpHash"}) /\ Deliver(sp - Operand, outcome) /\ UNCHANGED << constants, globals >>
    BY <1>3 DEF BuildHash
  <2>2. Op = "OpHash" /\ Running /\ InRange /\ OperandsPresent
    BY <1>1, <2>1
  <2>3. Reads = Operand /\ Operand \in Nat
    BY <2>1, <2>2, Fetched DEF Reads, WideOps
  <2>4. Operand <= sp /\ Operand <= Reads /\ (Operand = 0 \/ sp <= StackSize)
    BY <2>2, <2>3 DEF OperandsPresent
  <2>7. /\ Len(TopValues(Operand)) = Operand
        /\ \A x : Clear(x) => TopValues(Operand) \in Seq((0..Len(heap)) \ {x})
    BY <2>2, <2>3, <2>4, TakenIsClear
  <2>5. \A x : Clear(x) => Tame(outcome, x, cause)
    <3> TAKE x
    <3> HAVE Clear(x)
    <3>1. e \in Seq((0..Len(heap)) \ {x})
      BY <2>7
    <3> HIDE DEF e
    <3>2. x \notin (0..Len(heap)) \ {x}
      OBVIOUS
    <3> QED BY <3>1, <3>2, HashTame DEF e
  <2>6. cause => KnownPanic
    <3>1. Len(e) = Operand
      BY <2>7
    <3> HIDE DEF e
    <3>2. cause => UnhashableKey
      BY <2>2, <3>1 DEF UnhashableKey, e
    <3> QED BY <2>3, <2>4, <3>2 DEF KnownPanic
  <2> HIDE DEF outcome, cause
  <2> QED BY <2>1, <2>2, <2>3, <2>5, <2>6, TameDelivers
<1>4. CASE PushClosure
  <2> DEFINE free == TopValues(Operands[2])
             fn == constants[Operand + 1]
             outcome == New(Closure(fn, free))
             p == sp - Operands[2]
  <2>1. Executes({"OpClosure"}) /\ UNCHANGED << constants, globals >>
    BY <1>4 DEF PushClosure
  <2>2. Op = "OpClosure" /\ Running /\ InRange /\ OperandsPresent
    BY <1>1, <2>1
  <2>3. IsFunctionConstant /\ Operands[2] \in Nat /\ Operand \in Nat
        /\ FreeSuffices(heap[fn].ins, Operands[2])
    BY <2>2, Standing
  <2>4. Deliver(p, outcome)
    BY <1>4, <2>3 DEF PushClosure
  <2>5. Reads = Operands[2]
    BY <2>2, <2>3 DEF Reads
  <2>6. Operands[2] <= Reads /\ sp <= StackSize
    BY <2>2, <2>3, <2>5 DEF OperandsPresent, TakesSlice
  <2>14. /\ Len(TopValues(Operands[2])) = Operands[2]
         /\ \A x : Clear(x) => \A i \in 1..Operands[2] : TopValues(Operands[2])[i] # x
    BY <2>2, <2>3, <2>6, TakenIsClear
  <2>7. /\ Closure(fn, free).t = "CLOSURE" /\ Closure(fn, free).free = free
        /\ Closure(fn, free).fn = fn
        /\ outcome.is = "new" /\ outcome.obj = Closure(fn, free)
    BY DEF Closure, New
  <2>8. \A x : Clear(x) => Spares(outcome, x)
    <3> TAKE x
    <3> HAVE Clear(x)
    <3>1. \A i \in 1..Operands[2] : free[i] # x
      BY <2>14
    <3>2. DOMAIN free = 1..Operands[2]
      BY DEF TopValues
    <3> HIDE DEF free, fn, outcome
    <3> QED BY <2>7, <3>1, <3>2 DEF Spares, Avoids
  <2>9. MayRun(heap, constants, outcome.obj)
    <3>1. Len(free) = Operands[2]
      BY <2>14
    <3>2. Operand + 1 \in 1..Len(constants)
      <4>1. Operand < Len(constants) /\ Len(constants) \in Nat
        BY <2>2, InvParts DEF InRange
      <4> QED BY <2>3, <4>1
    <3> HIDE DEF free, outcome
    <3> QED BY <2>3, <2>7, <3>1, <3>2 DEF MayRun
  <2> HIDE DEF free, fn, outcome
  <2>10. Successors(Fn.ins, Lip) = {LastByte + 1} /\ LastByte \in Nat
    BY <2>2, Straight
  <2>11. Leaves(Fn.ins, Lip) = 1
    BY <2>2 DEF Leaves, LeftBy, OpAt, Op
  <2>12. p \in Nat /\ Floor(Len(frames)) <= p /\ p <= sp /\ p = sp - Reads
    <3>1. Reads \in Nat /\ Depth \in Nat /\ Reads <= Depth /\ Floor(Len(frames)) \in Nat
          /\ sp = Floor(Len(frames)) + Depth
      BY <2>2, Standing
    <3> QED BY <2>5, <3>1
  <2> HIDE DEF p
  <2>13. Delivers(p, outcome)
    BY <2>1, <2>4, <2>7, <2>8, <2>9, <2>10, <2>11, <2>12 DEF Delivers
  <2> QED BY <2>13
<1> QED BY <1>2, <1>3, <1>4 DEF Builds

(* A builtin delivers its result in the place of itself and its arguments, *)
(* and what cannot be called is an error.                                  *)
LEMMA CallsDeliver ==
  ASSUME Inv, RunsCertified, CallBuiltin \/ CallFails
  PROVE  \E p, outcome : Delivers(p, outcome)
<1>1. Executes({"OpCall"}) /\ UNCHANGED << constants, globals >>
  BY DEF CallBuiltin, CallFails
<1>2. Op = "OpCall" /\ Running /\ InRange /\ OperandsPresent /\ Operand \in Nat
  BY <1>1, Fetched DEF NarrowOps
<1>3. Reads = Operand + 1 /\ Reads \in Nat /\ Reads <= sp
  BY <1>2 DEF Reads, OperandsPresent
<1>4. CASE CallBuiltin
  <2> DEFINE args == TopValues(Operand)
             name == heap[Callee].name
             outcome == BuiltinOutcome(heap, name, args)
             cause == BuiltinPanics(heap, name, args)
  <2>1. CallsBuiltin /\ Deliver(sp - Operand - 1, outcome)
    BY <1>4 DEF CallBuiltin
  <2>2. sp <= StackSize /\ sp \in Nat /\ sp - Operand - 1 = sp - Reads /\ Operand <= sp
    BY <1>2, <1>3, <2>1, InvParts DEF OperandsPresent, TakesSlice
  <2>6. Operand <= Reads
    BY <1>2, <1>3
  <2>7. /\ TopValues(Operand) \in Seq(0..Len(heap)) /\ Len(TopValues(Operand)) = Operand
        /\ \A x : Clear(x) => \A i \in 1..Operand : TopValues(Operand)[i] # x
    BY <1>2, <2>2, <2>6, TakenIsClear
  <2>8. \A i \in 1..Operand : /\ Operand + 1 - i \in 1..Operand
                             /\ TopValues(Operand)[i] = Peek(Operand + 1 - i)
    BY <1>2, TopIsPeek
  <2>3. name \in { BuiltinNames[i] : i \in 1..7 }
    <3>1. Callee \in 0..Len(heap)
      <4>1. sp - (Operand + 1) < StackSize
        BY <1>2, <1>3 DEF OperandsPresent
      <4> QED BY <1>2, <1>3, <4>1, Peeked DEF Callee
    <3> QED BY <2>1, <3>1, InvParts, Referent DEF CallsBuiltin, Is
  <2>4. \A x : Clear(x) => Tame(outcome, x, cause)
    <3> TAKE x
    <3> HAVE Clear(x)
    <3>1. args \in Seq(0..Len(heap)) /\ Len(args) = Operand /\ \A i \in 1..Operand : args[i] # x
      BY <2>7
    <3>2. AllAvoid(heap, x) /\ HeapOK(heap)
      BY InvParts DEF Clear
    <3> HIDE DEF args, name
    <3> QED BY <2>3, <3>1, <3>2, BuiltinTame
  <2>5. cause => KnownPanic
    <3>1. /\ Len(args) = Operand
          /\ \A i \in 1..Operand : Operand + 1 - i \in 1..Operand /\ args[i] = Peek(Operand + 1 - i)
      BY <2>7, <2>8
    <3>2. \A j \in 1..Operand : j \in 1..Reads
      BY <1>2, <1>3
    <3> HIDE DEF args
    <3>3. CASE \E i \in 1..Len(args) : args[i] = Nil
      BY <1>2, <3>1, <3>2, <3>3, NilIsKnown
    <3>4. CASE name = "pop" /\ Len(args) = 1 /\ heap[args[1]] = Array(<< >>)
      <4>1. Operand = 1 /\ args[1] = Peek(1)
        <5>1. Operand = 1 /\ 1 \in 1..Operand /\ Operand + 1 - 1 = 1
          BY <3>1, <3>4
        <5> QED BY <3>1, <5>1
      <4> QED BY <1>2, <1>3, <3>4, <4>1 DEF KnownPanic
    <3>5. CASE name = "puts" /\ \E i \in 1..Len(args) : ~ Inspectable(heap)[args[i]]
      <4>1. \E i \in 1..Operand : ~ Inspectable(heap)[Peek(i)]
        BY <3>1, <3>5
      <4> QED BY <1>2, <1>3, <3>5, <4>1 DEF KnownPanic
    <3> QED BY <3>3, <3>4, <3>5 DEF BuiltinPanics
  <2> HIDE DEF outcome, cause
  <2> QED BY <1>1, <1>2, <2>1, <2>2, <2>4, <2>5, TameDelivers
<1>5. CASE CallFails
  <2>1. Deliver(sp, Failed)
    BY <1>5 DEF CallFails
  <2>2. \A x : Clear(x) => Tame(Failed, x, FALSE)
    BY Plain
  <2> QED BY <1>1, <1>2, <2>1, <2>2, TameDelivers
<1> QED BY <1>4, <1>5

-----------------------------------------------------------------------------
(* What a step leaves as it is.                                            *)

(* A heap that grows keeps its objects where they are.                     *)
LEMMA AppendLater ==
  ASSUME NEW h, HeapOK(h), NEW o, NEW g, g = Append(h, o)
  PROVE  Later(h, g) /\ Len(g) = Len(h) + 1 /\ g[Len(h) + 1] = o
<1> DEFINE S == {h[a] : a \in 1..Len(h)} \cup {o}
<1>1. Len(h) \in Nat /\ h = [a \in 1..Len(h) |-> h[a]]
  BY DEF HeapOK
<1>2. h \in Seq(S) /\ o \in S
  <2>1. h \in [1..Len(h) -> S]
    BY <1>1
  <2> HIDE DEF S
  <2>2. h \in Seq(S)
    BY <1>1, <2>1, SeqDef
  <2> QED BY <2>2 DEF S
<1> HIDE DEF S
<1>3. /\ Len(g) = Len(h) + 1 /\ g[Len(h) + 1] = o
      /\ \A a \in 1..Len(h) : g[a] = h[a]
  BY <1>2
<1> QED BY <1>1, <1>3 DEF Later

(* The frames after ip has moved.                                          *)
LEMMA GotoFields ==
  ASSUME Inv, NEW ip \in Nat \cup {-1}
  PROVE  /\ Len(Goto(ip)) = Len(frames)
         /\ \A k \in 1..Len(frames) :
              /\ Goto(ip)[k].cl = frames[k].cl /\ Goto(ip)[k].bp = frames[k].bp
              /\ Goto(ip)[k].ip = IF k = Len(frames) THEN ip ELSE frames[k].ip
         /\ Goto(ip) \in Seq(FrameSet(heap))
<1> DEFINE F == FrameSet(heap)
           fs == Goto(ip)
           n == Len(frames)
<1>1. frames \in Seq(F) /\ n \in 1..MaxFrames /\ n \in 1..n /\ Frame \in F
  BY CurrentFrame DEF FrameSet
<1>2. fs \in Seq(F)
  BY GotoOK DEF FramesOK, FrameSet
<1>3. fs = [frames EXCEPT ![n] = [frames[n] EXCEPT !.ip = ip]]
  BY DEF Goto
<1>4. Len(fs) = n /\ frames \in [1..n -> F]
  <2> HIDE DEF F, fs
  <2>1. frames \in [1..Len(frames) -> F] /\ Len(frames) \in Nat
    BY <1>1, LenProperties
  <2>2. DOMAIN fs = DOMAIN frames
    BY <1>3
  <2>3. DOMAIN fs = 1..Len(fs) /\ Len(fs) \in Nat
    BY <1>2, LenProperties
  <2> QED BY <2>1, <2>2, <2>3, SameLength
<1>5. ASSUME NEW k \in 1..n
      PROVE  /\ fs[k].cl = frames[k].cl /\ fs[k].bp = frames[k].bp
             /\ fs[k].ip = IF k = n THEN ip ELSE frames[k].ip
  <2>1. frames[k] \in [cl : 1..Len(heap), ip : Nat \cup {-1}, bp : Nat]
    <3>1. frames[k] \in F
      <4> HIDE DEF F
      <4> QED BY <1>1, ElementOfSeq
    <3> QED BY <3>1 DEF FrameSet
  <2>2. fs[k] = IF k = n THEN [frames[n] EXCEPT !.ip = ip] ELSE frames[k]
    <3> HIDE DEF F, n, fs
    <3> QED BY <1>3, <1>4
  <2> HIDE DEF fs
  <2> QED BY <2>1, <2>2
<1> QED BY <1>2, <1>4, <1>5

(* The base pointers rise from frame to frame.                             *)
LEMMA BasesRise ==
  ASSUME Inv, RunsCertified, NEW k \in 1..Len(frames)
  PROVE  /\ frames[k].bp <= Frame.bp
         /\ k < Len(frames) => FloorOf(heap, frames[k]) < Frame.bp
<1> DEFINE n == Len(frames)
           S == {m \in 1..n : frames[m].bp > Frame.bp}
<1>1. /\ HeapOK(heap) /\ FramesOK(heap, frames) /\ n \in 1..MaxFrames /\ n \in 1..n
      /\ n \in Nat /\ Frame = frames[n]
  <2>1. n \in 1..MaxFrames /\ MaxFrames \in Nat
    BY CurrentFrame, SizesAssumption
  <2> QED BY <2>1, InvParts DEF Frame
<1>2. \A m \in 1..n : frames[m].bp \in Nat /\ FloorOf(heap, frames[m]) \in Nat
                      /\ FloorOf(heap, frames[m]) >= frames[m].bp
  BY <1>1, FrameFields
<1>3. ASSUME NEW m \in 1..n, m # n
      PROVE  m + 1 \in 1..n /\ FloorOf(heap, frames[m]) < frames[m + 1].bp
  <2>1. m \in 1..(n - 1) /\ m + 1 \in 1..n
    BY <1>1, <1>3
  <2>2. WaitsFor(heap, stack, frames[m], frames[m + 1])
    BY <2>1, Words DEF RunsCertified
  <2>3. /\ DepthOf(heap, frames[m]) >= 1
        /\ frames[m + 1].bp = FloorOf(heap, frames[m]) + DepthOf(heap, frames[m])
    BY <2>2 DEF WaitsFor
  <2>4. DepthOf(heap, frames[m]) \in Nat
    <3>1. CertifiedCode(heap, constants, FunctionOf(m))
      BY <1>3, FrameCertified
    <3>2. Balanced(FnOf(heap, frames[m]).ins, Depths(FnOf(heap, frames[m]).ins))
      BY <3>1, Words DEF CertifiedCode
    <3>3. frames[m].ip + 1 \in DOMAIN Depths(FnOf(heap, frames[m]).ins)
      BY <2>2 DEF WaitsFor
    <3> QED BY <3>2, <3>3 DEF Balanced, DepthOf
  <2> QED BY <1>2, <2>1, <2>3, <2>4
<1>4. S = {}
  <2> SUFFICES ASSUME S # {} PROVE FALSE
    OBVIOUS
  <2>1. S \subseteq 1..n
    OBVIOUS
  <2>2. PICK m \in S : \A j \in S : j <= m
    <3> HIDE DEF S
    <3> QED BY <1>1, <2>1, Greatest
  <2>3. m # n /\ m \in 1..n /\ frames[m].bp > Frame.bp
    BY <1>1, <1>2, <2>2
  <2>4. m + 1 \in 1..n /\ frames[m + 1].bp > frames[m].bp
    BY <1>2, <1>3, <2>3
  <2>5. frames[m + 1].bp > Frame.bp
    <3>1. frames[m].bp \in Nat /\ frames[m + 1].bp \in Nat /\ frames[n].bp \in Nat
      BY <1>1, <1>2, <2>3, <2>4
    <3> QED BY <1>1, <2>3, <2>4, <3>1
  <2>6. m + 1 \in S
    BY <2>4, <2>5
  <2> QED BY <2>2, <2>3, <2>6
<1>5. \A m \in 1..n : frames[m].bp <= Frame.bp
  BY <1>1, <1>2, <1>4
<1>6. k < n => FloorOf(heap, frames[k]) < Frame.bp
  <2> SUFFICES ASSUME k < n PROVE FloorOf(heap, frames[k]) < Frame.bp
    OBVIOUS
  <2>1. k + 1 \in 1..n /\ FloorOf(heap, frames[k]) < frames[k + 1].bp
    BY <1>1, <1>3
  <2>2. frames[k + 1].bp <= Frame.bp
    BY <1>5, <2>1
  <2> QED BY <1>1, <1>2, <2>1, <2>2
<1> QED BY <1>5, <1>6

(* Code that is certified stays so while the heap grows.                   *)
LEMMA CodeLater ==
  ASSUME NEW h, HeapOK(h), NEW g, Later(h, g), NEW cs \in Seq(1..Len(h)),
         NEW fn, fn.ins \in Seq(ByteValues), CertifiedCode(h, cs, fn)
  PROVE  CertifiedCode(g, cs, fn)
<1>1. ASSUME NEW p \in Reached(fn.ins) PROVE Addresses(g, cs, fn, p)
  <2>1. Addresses(h, cs, fn, p)
    BY DEF CertifiedCode
  <2>2. ASSUME OpAt(fn.ins, p) = "OpClosure"
        PROVE  /\ Is(g, cs[ArgsAt(fn.ins, p)[1] + 1], "COMPILED_FUNCTION")
               /\ g[cs[ArgsAt(fn.ins, p)[1] + 1]] = h[cs[ArgsAt(fn.ins, p)[1] + 1]]
    <3> DEFINE arg == ArgsAt(fn.ins, p)[1]
    <3>1. WholeInstruction(fn.ins, p) /\ p \in Nat
      BY DEF Reached, CertifiedCode, Balanced
    <3>2. arg \in Nat
      <4>1. OpAt(fn.ins, p) = Opcodes[fn.ins[p + 1] + 1]
        BY DEF OpAt
      <4> QED BY <2>2, <3>1, <4>1, InstructionOperands DEF ArgsAt
    <3>3. arg < Len(cs) /\ Is(h, cs[arg + 1], "COMPILED_FUNCTION")
      BY <2>1, <2>2 DEF Addresses
    <3> HIDE DEF arg
    <3>4. cs[arg + 1] \in 1..Len(h)
      <4>1. arg + 1 \in 1..Len(cs)
        BY <3>2, <3>3
      <4> QED BY <4>1, ElementOfSeq
    <3>5. g[cs[arg + 1]] = h[cs[arg + 1]]
      BY <3>4 DEF Later
    <3>6. Is(g, cs[arg + 1], "COMPILED_FUNCTION")
      BY <3>3, <3>5 DEF Is
    <3> QED BY <3>5, <3>6 DEF arg
  <2> QED BY <2>1, <2>2 DEF Addresses
<1> QED BY <1>1 DEF CertifiedCode

(* The code of the machine stays certified.                                *)
LEMMA CodeStays ==
  ASSUME Inv, RunsCertified, Later(heap, heap'), constants' = constants,
         frames'[1].cl = frames[1].cl
  PROVE  CodeIsCertified' /\ (FunctionOf(1).numLocals = 0)'
<1>1. HeapOK(heap) /\ FramesOK(heap, frames) /\ constants \in Seq(1..Len(heap)) /\ 1 \in 1..Len(frames)
      /\ Len(heap) \in Nat
  <2>1. Len(frames) \in 1..MaxFrames /\ MaxFrames \in Nat
    BY CurrentFrame, SizesAssumption
  <2> QED BY <2>1, InvParts DEF HeapOK
<1>2. FnOf(heap', frames'[1]) = FnOf(heap, frames[1]) /\ FnOf(heap, frames[1]).ins \in Seq(ByteValues)
  BY <1>1, FnLater, FrameFields
<1>3. CertifiedProgram(heap, constants, FnOf(heap, frames[1])) /\ FnOf(heap, frames[1]).numLocals = 0
  BY Words DEF RunsCertified, CodeIsCertified
<1>4. CertifiedProgram(heap', constants', FnOf(heap', frames'[1]))
  <2>1. CertifiedCode(heap', constants, FnOf(heap, frames[1]))
    BY <1>1, <1>2, <1>3, CodeLater DEF CertifiedProgram
  <2> QED BY <1>2, <1>3, <2>1 DEF CertifiedProgram
<1>5. ASSUME NEW i \in 1..Len(constants), Is(heap', constants[i], "COMPILED_FUNCTION")
      PROVE  CertifiedFunction(heap', constants, heap'[constants[i]])
  <2>1. constants[i] \in 1..Len(heap)
    BY <1>1, ElementOfSeq
  <2>2. heap'[constants[i]] = heap[constants[i]]
    BY <2>1 DEF Later
  <2>3. Is(heap, constants[i], "COMPILED_FUNCTION")
    BY <1>5, <2>2 DEF Is
  <2>4. CertifiedFunction(heap, constants, heap[constants[i]])
    BY <2>3 DEF RunsCertified, CodeIsCertified
  <2>5. heap[constants[i]].ins \in Seq(ByteValues)
    <3>1. constants[i] \in 0..Len(heap) /\ constants[i] # Nil /\ heap[constants[i]].t = "COMPILED_FUNCTION"
      BY <1>1, <2>1, <2>3 DEF Nil, Is
    <3> QED BY <1>1, <3>1, Referent
  <2>6. CertifiedCode(heap', constants, heap[constants[i]])
    BY <1>1, <2>4, <2>5, CodeLater DEF CertifiedFunction
  <2> QED BY <2>2, <2>4, <2>6 DEF CertifiedFunction
<1>6. CertifiedProgram(heap', constants', FunctionOf(1)') /\ (FunctionOf(1).numLocals = 0)'
  BY <1>2, <1>3, <1>4, NextWords
<1> QED BY <1>5, <1>6 DEF CodeIsCertified

(* The closure of the program stays out of reach, and the closures stay    *)
(* those of certified code.                                                *)
LEMMA ClosuresStay ==
  ASSUME Inv, RunsCertified, Later(heap, heap'), constants' = constants,
         frames'[1].cl = frames[1].cl,
         \A k \in 2..Len(frames') : frames'[k].cl # MainClosure,
         \A i \in 0..(StackSize - 1) : stack'[i] # MainClosure,
         \A i \in 0..(GlobalsSize - 1) : globals'[i] # MainClosure,
         \A a \in 1..Len(heap') : a > Len(heap) =>
           /\ Avoids(heap'[a], MainClosure)
           /\ heap'[a].t = "CLOSURE" => MayRun(heap, constants, heap'[a])
  PROVE  MainIsPrivate' /\ ClosuresAreCertified'
<1>1. HeapOK(heap) /\ Len(heap) \in Nat /\ Len(heap') \in Nat /\ constants \in Seq(1..Len(heap))
      /\ \A a \in 1..Len(heap) : heap'[a] = heap[a]
  BY InvParts DEF HeapOK, Later
<1>2. MainIsPrivate /\ ClosuresAreCertified /\ MainClosure' = MainClosure
  BY DEF RunsCertified, MainClosure
<1>3. \A a \in 1..Len(heap') : a \in 1..Len(heap) \/ a > Len(heap)
  BY <1>1
<1>4. \A a \in 1..Len(heap') : Avoids(heap'[a], MainClosure)
  BY <1>1, <1>2, <1>3 DEF MainIsPrivate
<1>5. MainIsPrivate'
  BY <1>2, <1>4 DEF MainIsPrivate
<1>6. ASSUME NEW a \in 1..Len(heap'), Is(heap', a, "CLOSURE"), a # MainClosure
      PROVE  MayRun(heap', constants, heap'[a])
  <2>1. MayRun(heap, constants, heap'[a])
    <3>1. CASE a \in 1..Len(heap)
      <4>1. heap'[a] = heap[a] /\ Is(heap, a, "CLOSURE")
        BY <1>1, <1>6, <3>1 DEF Is
      <4> QED BY <1>2, <1>6, <3>1, <4>1 DEF ClosuresAreCertified, MayRun
    <3>2. CASE a > Len(heap)
      BY <1>6, <3>2 DEF Is
    <3> QED BY <1>3, <3>1, <3>2
  <2>2. PICK i \in 1..Len(constants) : constants[i] = heap'[a].fn
    BY <2>1 DEF MayRun
  <2>3. heap'[a].fn \in 1..Len(heap)
    BY <1>1, <2>2, ElementOfSeq
  <2>4. heap'[heap'[a].fn] = heap[heap'[a].fn]
    BY <1>1, <2>3
  <2> QED BY <2>1, <2>4 DEF MayRun
<1>7. ClosuresAreCertified'
  BY <1>2, <1>6 DEF ClosuresAreCertified, MayRun
<1> QED BY <1>5, <1>7

(* A frame waits for the next one as before, when the heap has grown and   *)
(* the slot below that one is the same.                                    *)
LEMMA WaitsStay ==
  ASSUME Inv, Later(heap, heap'), NEW k \in 1..Len(frames), k + 1 \in 1..Len(frames),
         WaitsFor(heap, stack, frames[k], frames[k + 1]),
         frames'[k].cl = frames[k].cl, frames'[k].bp = frames[k].bp, frames'[k].ip = frames[k].ip,
         frames'[k + 1].cl = frames[k + 1].cl, frames'[k + 1].bp = frames[k + 1].bp,
         stack'[frames[k + 1].bp - 1] = stack[frames[k + 1].bp - 1]
  PROVE  WaitsFor(heap', stack', frames'[k], frames'[k + 1])
<1>1. HeapOK(heap) /\ FramesOK(heap, frames)
  BY InvParts
<1>2. /\ FnOf(heap', frames'[k]) = FnOf(heap, frames[k])
      /\ FnOf(heap', frames'[k + 1]) = FnOf(heap, frames[k + 1])
  BY <1>1, FnLater
<1>3. /\ FloorOf(heap', frames'[k]) = FloorOf(heap, frames[k])
      /\ DepthOf(heap', frames'[k]) = DepthOf(heap, frames[k])
  BY <1>2 DEF FloorOf, DepthOf
<1> QED BY <1>2, <1>3 DEF WaitsFor

(* The slot below a called frame is in the stack, below the current frame. *)
LEMMA SlotBelow ==
  ASSUME Inv, RunsCertified, NEW k \in 1..(Len(frames) - 1)
  PROVE  /\ k \in 1..Len(frames) /\ k + 1 \in 1..Len(frames)
         /\ WaitsFor(heap, stack, frames[k], frames[k + 1])
         /\ frames[k + 1].bp \in Nat
         /\ frames[k + 1].bp - 1 \in 0..(StackSize - 1) /\ frames[k + 1].bp - 1 < Frame.bp
<1>1. HeapOK(heap) /\ FramesOK(heap, frames) /\ Len(frames) \in Nat /\ StackSize \in Nat
      /\ Frame.bp \in Nat
  <2>1. Len(frames) \in 1..MaxFrames /\ MaxFrames \in Nat /\ StackSize \in Nat
    BY CurrentFrame, SizesAssumption
  <2> QED BY <2>1, InvParts, CurrentFrame
<1>2. k \in 1..Len(frames) /\ k + 1 \in 1..Len(frames) /\ k + 1 # 1
  BY <1>1
<1>3. WaitsFor(heap, stack, frames[k], frames[k + 1])
  BY <1>2, Words DEF RunsCertified
<1>4. frames[k + 1].bp \in Nat /\ frames[k + 1].bp # 0 /\ frames[k + 1].bp <= Frame.bp
  BY <1>1, <1>2, FrameFields, BasesRise DEF FramesOK
<1>5. frames[k + 1].bp <= StackSize
  BY <1>3 DEF WaitsFor
<1> QED BY <1>1, <1>2, <1>3, <1>4, <1>5

(* What a step that stays in its frame has to do.                          *)
LEMMA StaysInFrame ==
  ASSUME Inv, RunsCertified, Inv', constants' = constants, Later(heap, heap'),
         NEW ip \in Nat \cup {-1}, frames' = Goto(ip),
         \A a \in 1..Len(heap') : a > Len(heap) =>
           /\ Avoids(heap'[a], MainClosure)
           /\ heap'[a].t = "CLOSURE" => MayRun(heap, constants, heap'[a]),
         \A i \in 0..(StackSize - 1) :
           stack'[i] # MainClosure /\ (i < Frame.bp => stack'[i] = stack[i]),
         \A i \in 0..(GlobalsSize - 1) : globals'[i] # MainClosure,
         status' \in {"running", "error"},
         status' = "running" =>
           /\ ip + 1 \in DOMAIN Depths(Fn.ins)
           /\ sp' = Floor(Len(frames)) + Depths(Fn.ins)[ip + 1]
           /\ Depths(Fn.ins)[ip + 1] > 0 => sp' <= StackSize
  PROVE  RunsCertified'
<1> DEFINE n == Len(frames)
<1>1. /\ HeapOK(heap) /\ FramesOK(heap, frames) /\ n \in 1..n /\ 1 \in 1..n /\ n \in Nat
      /\ Frame = frames[n]
  <2>1. n \in 1..MaxFrames /\ MaxFrames \in Nat
    BY CurrentFrame, SizesAssumption
  <2> QED BY <2>1, InvParts DEF Frame
<1>2. /\ Len(frames') = n
      /\ \A k \in 1..n : /\ frames'[k].cl = frames[k].cl /\ frames'[k].bp = frames[k].bp
                         /\ frames'[k].ip = IF k = n THEN ip ELSE frames[k].ip
  BY GotoFields
<1>3. CodeIsCertified' /\ (FunctionOf(1).numLocals = 0)'
  BY <1>1, <1>2, CodeStays
<1>4. \A k \in 2..Len(frames') : frames'[k].cl # MainClosure
  <2>1. \A k \in 2..n : k \in 1..n /\ frames[k].cl # MainClosure
    BY <1>1 DEF RunsCertified, MainIsPrivate
  <2> QED BY <1>2, <2>1
<1>5. MainIsPrivate' /\ ClosuresAreCertified'
  BY <1>1, <1>2, <1>4, ClosuresStay
<1>6. ASSUME NEW k \in 1..(n - 1)
      PROVE  WaitsFor(heap', stack', frames'[k], frames'[k + 1])
  <2>1. /\ k \in 1..n /\ k + 1 \in 1..n /\ k # n
        /\ WaitsFor(heap, stack, frames[k], frames[k + 1])
        /\ frames[k + 1].bp - 1 \in 0..(StackSize - 1) /\ frames[k + 1].bp - 1 < Frame.bp
    <3>1. k \in 1..(Len(frames) - 1) /\ k # n
      BY <1>1
    <3> QED BY <3>1, SlotBelow
  <2>2. stack'[frames[k + 1].bp - 1] = stack[frames[k + 1].bp - 1]
    BY <2>1
  <2>3. /\ frames'[k].cl = frames[k].cl /\ frames'[k].bp = frames[k].bp
        /\ frames'[k].ip = frames[k].ip
        /\ frames'[k + 1].cl = frames[k + 1].cl /\ frames'[k + 1].bp = frames[k + 1].bp
    <3>1. k \in 1..n /\ k + 1 \in 1..n /\ k # n
      BY <2>1
    <3> HIDE DEF n
    <3> QED BY <1>2, <3>1
  <2> QED BY <2>1, <2>2, <2>3, WaitsStay
<1>7. status' = "running" => Proceeds'
  <2> SUFFICES ASSUME status' = "running" PROVE Proceeds'
    OBVIOUS
  <2>1. /\ frames'[n].cl = frames[n].cl /\ frames'[n].bp = frames[n].bp /\ frames'[n].ip = ip
    BY <1>1, <1>2
  <2>2. FnOf(heap', frames'[n]) = FnOf(heap, frames[n])
    BY <1>1, <2>1, FnLater
  <2>3. /\ FloorOf(heap', frames'[n]) = Floor(n)
        /\ DepthOf(heap', frames'[n]) = Depths(Fn.ins)[ip + 1]
        /\ FnOf(heap', frames'[n]) = Fn
    BY <1>1, <2>1, <2>2, Words DEF FloorOf, DepthOf
  <2>4. GoesOn(heap', frames'[n], sp')
    BY <2>1, <2>3 DEF GoesOn
  <2> QED BY <1>2, <2>4, NextWords
<1>8. CleanHalt'
  BY DEF CleanHalt
<1>9. \A k \in 1..(Len(frames') - 1) : Waits(k)'
  BY <1>2, <1>6, NextWords
<1> QED BY <1>3, <1>5, <1>7, <1>8, <1>9 DEF RunsCertified

(* The closure of the program is an object of the heap.                    *)
LEMMA MainIsThere ==
  ASSUME Inv
  PROVE  MainClosure \in 1..Len(heap)
<1>1. Len(frames) \in 1..MaxFrames /\ MaxFrames \in Nat
  BY CurrentFrame, SizesAssumption
<1>2. HeapOK(heap) /\ FramesOK(heap, frames) /\ 1 \in 1..Len(frames)
  BY <1>1, InvParts
<1> QED BY <1>2, FrameFields DEF MainClosure

(* A machine that stops where it is stays certified.                       *)
LEMMA StopsWhereItIs ==
  ASSUME Inv, RunsCertified, UNCHANGED << heap, constants, frames, stack, sp, globals >>,
         status' # "running", status' = "halted" => sp = 0 /\ Len(frames) = 1
  PROVE  RunsCertified'
<1>1. CodeIsCertified' /\ (FunctionOf(1).numLocals = 0)' /\ MainIsPrivate' /\ ClosuresAreCertified'
  BY DEF RunsCertified, CodeIsCertified, FunctionOf, MainIsPrivate, MainClosure, ClosuresAreCertified
<1>2. \A k \in 1..(Len(frames') - 1) : Waits(k)'
  BY DEF RunsCertified, Waits, FunctionOf, Floor
<1>3. CleanHalt'
  BY DEF CleanHalt
<1> QED BY <1>1, <1>2, <1>3 DEF RunsCertified

(* The slots of a stack to which nothing is written below p.               *)
LEMMA PushLeaves ==
  ASSUME Inv, RunsCertified, NEW p \in Nat, Frame.bp <= p, NEW a, a # MainClosure, Push(p, a)
  PROVE  /\ \A i \in 0..(StackSize - 1) :
              stack'[i] # MainClosure /\ (i < Frame.bp => stack'[i] = stack[i])
         /\ status' \in {status, "error"}
         /\ status' = "running" => sp' = p + 1 /\ sp' <= StackSize
<1>1. /\ stack \in Slots(StackSize, heap) /\ StackSize \in Nat /\ Frame.bp \in Nat
      /\ \A i \in 0..(StackSize - 1) : stack[i] # MainClosure
  BY InvParts, SizesAssumption, CurrentFrame DEF RunsCertified, MainIsPrivate
<1>2. CASE p < StackSize /\ stack' = [stack EXCEPT ![p] = a] /\ sp' = p + 1 /\ UNCHANGED status
  <2>1. \A i \in 0..(StackSize - 1) : stack'[i] = IF i = p THEN a ELSE stack[i]
    BY <1>1, <1>2 DEF Slots
  <2>2. \A i \in 0..(StackSize - 1) :
          stack'[i] # MainClosure /\ (i < Frame.bp => stack'[i] = stack[i])
    BY <1>1, <2>1
  <2> QED BY <1>1, <1>2, <2>2
<1>3. CASE status' = "error" /\ UNCHANGED stack
  BY <1>1, <1>3
<1> QED BY <1>2, <1>3 DEF Push

(* Where a value has been delivered, the machine stays certified, and no   *)
(* slot below the frame has changed.                                       *)
LEMMA DeliveredStays ==
  ASSUME Inv, Inv', RunsCertified, Running, Clear(MainClosure),
         NEW p, NEW outcome, Delivers(p, outcome)
  PROVE  /\ RunsCertified'
         /\ \A i \in 0..(StackSize - 1) : i < Frame.bp => stack'[i] = stack[i]
         /\ status' \in {"running", "error", "crashed"}
<1> DEFINE n == Len(frames)
           x == MainClosure
<1>1. /\ p \in Nat /\ Floor(n) <= p /\ LastByte \in Nat
      /\ constants' = constants /\ globals' = globals
      /\ outcome.is \in {"ref", "new"} => p = sp - Reads
      /\ Successors(Fn.ins, Lip) = {LastByte + 1} /\ Leaves(Fn.ins, Lip) = 1
      /\ Spares(outcome, x) /\ (MakesClosure(outcome) => MayRun(heap, constants, outcome.obj))
      /\ Deliver(p, outcome)
  BY DEF Delivers
<1>2. /\ Reads \in Nat /\ Depth \in Nat /\ Reads <= Depth /\ Floor(n) \in Nat
      /\ sp = Floor(n) + Depth /\ Frame.bp <= Floor(n)
      /\ LastByte + 1 \in DOMAIN Depths(Fn.ins)
      /\ Depths(Fn.ins)[LastByte + 1] = Depth - Reads + 1
  BY <1>1, Standing
<1>3. /\ HeapOK(heap) /\ Len(heap) \in Nat /\ status = "running" /\ StackSize \in Nat
      /\ x \in 1..Len(heap) /\ Frame.bp \in Nat
      /\ \A i \in 0..(StackSize - 1) : stack[i] # x
      /\ \A i \in 0..(GlobalsSize - 1) : globals[i] # x
  BY InvParts, SizesAssumption, MainIsThere, CurrentFrame
     DEF HeapOK, Running, RunsCertified, MainIsPrivate
<1>4. Frame.bp <= p
  BY <1>1, <1>2, <1>3
<1>5. ASSUME outcome.is \in {"ref", "new"}, sp' = p + 1, sp' <= StackSize
      PROVE  /\ sp' = Floor(n) + Depths(Fn.ins)[LastByte + 1]
             /\ Depths(Fn.ins)[LastByte + 1] > 0 => sp' <= StackSize
  BY <1>1, <1>2, <1>5
<1> HIDE DEF n, x
<1>6. CASE outcome.is = "ref" /\ Continue /\ Push(p, outcome.ref) /\ UNCHANGED heap
  <2>1. outcome.ref # x
    BY <1>1, <1>6 DEF Spares
  <2>2. /\ \A i \in 0..(StackSize - 1) :
             stack'[i] # MainClosure /\ (i < Frame.bp => stack'[i] = stack[i])
        /\ status' \in {"running", "error"}
        /\ status' = "running" => sp' = p + 1 /\ sp' <= StackSize
    BY <1>1, <1>3, <1>4, <1>6, <2>1, PushLeaves DEF x
  <2>3. Later(heap, heap') /\ heap' = heap
    BY <1>6, SameHeap
  <2>4. \A a \in 1..Len(heap') : ~ (a > Len(heap))
    BY <1>3, <2>3
  <2>5. RunsCertified'
    BY <1>1, <1>2, <1>3, <1>5, <1>6, <2>2, <2>3, <2>4, StaysInFrame DEF Continue, n, x
  <2> QED BY <2>2, <2>5
<1>7. CASE outcome.is = "new" /\ Continue /\ heap' = Append(heap, outcome.obj)
           /\ Push(p, Len(heap) + 1)
  <2>1. Len(heap) + 1 # x
    BY <1>3
  <2>2. /\ \A i \in 0..(StackSize - 1) :
             stack'[i] # MainClosure /\ (i < Frame.bp => stack'[i] = stack[i])
        /\ status' \in {"running", "error"}
        /\ status' = "running" => sp' = p + 1 /\ sp' <= StackSize
    BY <1>1, <1>3, <1>4, <1>7, <2>1, PushLeaves DEF x
  <2>3. Later(heap, heap') /\ Len(heap') = Len(heap) + 1 /\ heap'[Len(heap) + 1] = outcome.obj
    BY <1>3, <1>7, AppendLater
  <2>4. /\ Avoids(outcome.obj, x)
        /\ outcome.obj.t = "CLOSURE" => MayRun(heap, constants, outcome.obj)
    BY <1>1, <1>7 DEF Spares, MakesClosure
  <2>5. ASSUME NEW a \in 1..Len(heap'), a > Len(heap)
        PROVE  /\ Avoids(heap'[a], MainClosure)
               /\ heap'[a].t = "CLOSURE" => MayRun(heap, constants, heap'[a])
    <3>1. a = Len(heap) + 1
      BY <1>3, <2>3, <2>5
    <3> QED BY <2>3, <2>4, <3>1 DEF x
  <2>6. RunsCertified'
    BY <1>1, <1>2, <1>3, <1>5, <1>7, <2>2, <2>3, <2>5, StaysInFrame DEF Continue, n, x
  <2> QED BY <2>2, <2>6
<1>8. CASE outcome.is = "error" /\ Continue /\ Fail(p) /\ UNCHANGED heap
  <2>1. Later(heap, heap') /\ heap' = heap
    BY <1>8, SameHeap
  <2>2. \A a \in 1..Len(heap') : ~ (a > Len(heap))
    BY <1>3, <2>1
  <2>3. stack' = stack /\ status' = "error"
    BY <1>8 DEF Fail
  <2>4. RunsCertified'
    BY <1>1, <1>3, <1>8, <2>1, <2>2, <2>3, StaysInFrame DEF Continue, n, x
  <2> QED BY <2>3, <2>4
<1>9. CASE outcome.is = "panic" /\ status' = "crashed" /\ UNCHANGED << heap, frames, stack, sp >>
  <2>1. RunsCertified'
    BY <1>1, <1>9, StopsWhereItIs
  <2> QED BY <1>9, <2>1
<1> QED BY <1>1, <1>6, <1>7, <1>8, <1>9 DEF Deliver

Moves == SetGlobal \/ SetLocal \/ Pop \/ Jumped \/ JumpNotTruthy

(* Where the instructions that leave no value go, and at which depth.      *)
LEMMA MovesLead ==
  ASSUME Inv, RunsCertified, Running,
         Op \in {"OpSetGlobal", "OpSetLocal", "OpPop", "OpJump", "OpJumpNotTruthy"}
  PROVE  /\ Reads = IF Op = "OpJump" THEN 0 ELSE 1
         /\ Operand \in Nat \/ Op = "OpPop"
         /\ LastByte \in Nat
         /\ Op # "OpJump" => LastByte + 1 \in Successors(Fn.ins, Lip)
         /\ Op \in {"OpJump", "OpJumpNotTruthy"} => Operand \in Successors(Fn.ins, Lip)
         /\ \A q \in Successors(Fn.ins, Lip) :
              /\ q \in DOMAIN Depths(Fn.ins)
              /\ sp - Reads = Floor(Len(frames)) + Depths(Fn.ins)[q]
              /\ Depths(Fn.ins)[q] > 0 => sp - Reads <= StackSize
<1>1. Reads = IF Op = "OpJump" THEN 0 ELSE 1
  BY DEF Reads
<1>2. Operand \in Nat \/ Op = "OpPop"
  BY Standing DEF WideOps, NarrowOps
<1>3. OpAt(Fn.ins, Lip) = Op /\ ArgsAt(Fn.ins, Lip)[1] = Operand
  BY DEF OpAt, ArgsAt, Op, Operand, Operands
<1>4. Lip \in Nat /\ InstructionLen(Op) \in 1..4
  BY CurrentFrame, InstructionBytes
<1>5. After(Fn.ins, Lip) = LastByte + 1 /\ LastByte \in Nat
  BY <1>3, <1>4 DEF After, LastByte
<1>6. /\ Op # "OpJump" => LastByte + 1 \in Successors(Fn.ins, Lip)
      /\ Op \in {"OpJump", "OpJumpNotTruthy"} => Operand \in Successors(Fn.ins, Lip)
  BY <1>3, <1>5 DEF Successors
<1>7. Leaves(Fn.ins, Lip) = 0
  BY <1>3 DEF Leaves, LeftBy
<1>8. ASSUME NEW q \in Successors(Fn.ins, Lip)
      PROVE  /\ q \in DOMAIN Depths(Fn.ins)
             /\ sp - Reads = Floor(Len(frames)) + Depths(Fn.ins)[q]
             /\ Depths(Fn.ins)[q] > 0 => sp - Reads <= StackSize
  <2>1. /\ q \in DOMAIN Depths(Fn.ins) /\ Depths(Fn.ins)[q] = Depth - Reads + 0
        /\ Reads \in Nat /\ Depth \in Nat /\ Reads <= Depth /\ Floor(Len(frames)) \in Nat
        /\ sp = Floor(Len(frames)) + Depth /\ (Depth > 0 => sp <= StackSize)
        /\ StackSize \in Nat
    BY <1>7, Standing, SizesAssumption
  <2> QED BY <2>1
<1> QED BY <1>1, <1>2, <1>5, <1>6, <1>8

(* Instructions that only take a value, or only jump.                      *)
LEMMA MovesStay ==
  ASSUME Inv, Inv', RunsCertified, Moves
  PROVE  /\ RunsCertified'
         /\ \A i \in 0..(StackSize - 1) : i < Frame.bp => stack'[i] = stack[i]
         /\ status' = "running"
<1>1. /\ StackSize \in Nat /\ GlobalsSize \in Nat /\ Frame.bp \in Nat /\ Len(heap) \in Nat
      /\ stack \in Slots(StackSize, heap) /\ globals \in Slots(GlobalsSize, heap)
      /\ \A i \in 0..(StackSize - 1) : stack[i] # MainClosure
      /\ \A i \in 0..(GlobalsSize - 1) : globals[i] # MainClosure
  BY InvParts, SizesAssumption, CurrentFrame DEF HeapOK, RunsCertified, MainIsPrivate
<1>2. UNCHANGED << heap, constants >> /\ Later(heap, heap')
      /\ \A a \in 1..Len(heap') : ~ (a > Len(heap))
  <2>1. UNCHANGED << heap, constants >>
    BY DEF Moves, SetGlobal, SetLocal, Pop, Jumped, MoveIp, Jump, JumpNotTruthy
  <2> QED BY <1>1, <2>1, SameHeap
<1>3. ASSUME NEW ops, Executes(ops) PROVE Op \in ops /\ Running /\ InRange /\ status = "running"
  BY <1>3, Fetched
<1>4. ASSUME Running, InRange, 1 \in 1..Reads PROVE Peek(1) # MainClosure
  BY <1>4, MainIsClear DEF Clear
<1>5. CASE SetGlobal
  <2>1. Executes({"OpSetGlobal"}) /\ globals' = [globals EXCEPT ![Operand] = Peek(1)]
        /\ sp' = sp - 1 /\ frames' = Goto(LastByte) /\ UNCHANGED << stack, status >>
    BY <1>5 DEF SetGlobal, Continue
  <2>2. Op = "OpSetGlobal" /\ Running /\ InRange /\ status = "running"
    BY <1>3, <2>1
  <2>3. Reads = 1 /\ LastByte \in Nat /\ LastByte + 1 \in Successors(Fn.ins, Lip)
    BY <2>2, MovesLead
  <2>4. Peek(1) # MainClosure
    BY <1>4, <2>2, <2>3
  <2>5. \A i \in 0..(GlobalsSize - 1) : globals'[i] # MainClosure
    BY <1>1, <2>1, <2>4 DEF Slots
  <2>6. /\ LastByte + 1 \in DOMAIN Depths(Fn.ins)
        /\ sp' = Floor(Len(frames)) + Depths(Fn.ins)[LastByte + 1]
        /\ Depths(Fn.ins)[LastByte + 1] > 0 => sp' <= StackSize
    BY <2>1, <2>2, <2>3, MovesLead
  <2> QED BY <1>1, <1>2, <2>1, <2>2, <2>3, <2>5, <2>6, StaysInFrame
<1>6. CASE SetLocal
  <2>1. Executes({"OpSetLocal"}) /\ stack' = [stack EXCEPT ![LocalSlot(Operand)] = Peek(1)]
        /\ sp' = sp - 1 /\ frames' = Goto(LastByte) /\ UNCHANGED << globals, status >>
    BY <1>6 DEF SetLocal, Continue
  <2>2. Op = "OpSetLocal" /\ Running /\ InRange /\ status = "running"
    BY <1>3, <2>1
  <2>3. Reads = 1 /\ LastByte \in Nat /\ LastByte + 1 \in Successors(Fn.ins, Lip) /\ Operand \in Nat
    BY <2>2, MovesLead
  <2>4. Peek(1) # MainClosure
    BY <1>4, <2>2, <2>3
  <2>5. LocalSlot(Operand) \in Nat /\ LocalSlot(Operand) >= Frame.bp
    BY <1>1, <2>3 DEF LocalSlot
  <2>6. \A i \in 0..(StackSize - 1) : stack'[i] = IF i = LocalSlot(Operand) THEN Peek(1) ELSE stack[i]
    BY <1>1, <2>1 DEF Slots
  <2>7. \A i \in 0..(StackSize - 1) :
          stack'[i] # MainClosure /\ (i < Frame.bp => stack'[i] = stack[i])
    BY <1>1, <2>4, <2>5, <2>6
  <2>8. /\ LastByte + 1 \in DOMAIN Depths(Fn.ins)
        /\ sp' = Floor(Len(frames)) + Depths(Fn.ins)[LastByte + 1]
        /\ Depths(Fn.ins)[LastByte + 1] > 0 => sp' <= StackSize
    BY <2>1, <2>2, <2>3, MovesLead
  <2> QED BY <1>1, <1>2, <2>1, <2>2, <2>3, <2>7, <2>8, StaysInFrame
<1>7. CASE Pop
  <2>1. Executes({"OpPop"}) /\ sp' = sp - 1 /\ frames' = Goto(LastByte)
        /\ UNCHANGED << stack, globals, status >>
    BY <1>7 DEF Pop, Continue
  <2>2. Op = "OpPop" /\ Running /\ status = "running"
    BY <1>3, <2>1
  <2>3. Reads = 1 /\ LastByte \in Nat /\ LastByte + 1 \in Successors(Fn.ins, Lip)
    BY <2>2, MovesLead
  <2>4. /\ LastByte + 1 \in DOMAIN Depths(Fn.ins)
        /\ sp' = Floor(Len(frames)) + Depths(Fn.ins)[LastByte + 1]
        /\ Depths(Fn.ins)[LastByte + 1] > 0 => sp' <= StackSize
    BY <2>1, <2>2, <2>3, MovesLead
  <2> QED BY <1>1, <1>2, <2>1, <2>2, <2>3, <2>4, StaysInFrame
<1>8. CASE Jumped
  <2>1. Executes({"OpJump"}) /\ frames' = Goto(Operand - 1)
        /\ UNCHANGED << stack, sp, globals, status >>
    BY <1>8 DEF Jumped, MoveIp, Jump
  <2>2. Op = "OpJump" /\ Running /\ status = "running"
    BY <1>3, <2>1
  <2>3. Reads = 0 /\ Operand \in Nat /\ Operand \in Successors(Fn.ins, Lip) /\ sp \in Nat
    BY <2>2, MovesLead, InvParts
  <2>4. Operand - 1 \in Nat \cup {-1} /\ (Operand - 1) + 1 = Operand /\ sp - Reads = sp
    BY <2>3
  <2>5. /\ (Operand - 1) + 1 \in DOMAIN Depths(Fn.ins)
        /\ sp' = Floor(Len(frames)) + Depths(Fn.ins)[(Operand - 1) + 1]
        /\ Depths(Fn.ins)[(Operand - 1) + 1] > 0 => sp' <= StackSize
    BY <2>1, <2>2, <2>3, <2>4, MovesLead
  <2> QED BY <1>1, <1>2, <2>1, <2>2, <2>4, <2>5, StaysInFrame
<1>9. CASE JumpNotTruthy
  <2> DEFINE ip == IF IsTruthy(Peek(1)) THEN LastByte ELSE Operand - 1
  <2>1. Executes({"OpJumpNotTruthy"}) /\ frames' = Goto(ip) /\ sp' = sp - 1
        /\ UNCHANGED << stack, globals, status >>
    BY <1>9 DEF JumpNotTruthy
  <2>2. Op = "OpJumpNotTruthy" /\ Running /\ status = "running"
    BY <1>3, <2>1
  <2>3. Reads = 1 /\ LastByte \in Nat /\ Operand \in Nat
        /\ {LastByte + 1, Operand} \subseteq Successors(Fn.ins, Lip)
    BY <2>2, MovesLead
  <2>4. ip \in Nat \cup {-1} /\ ip + 1 \in {LastByte + 1, Operand}
    BY <2>3
  <2> HIDE DEF ip
  <2>5. /\ ip + 1 \in DOMAIN Depths(Fn.ins)
        /\ sp' = Floor(Len(frames)) + Depths(Fn.ins)[ip + 1]
        /\ Depths(Fn.ins)[ip + 1] > 0 => sp' <= StackSize
    BY <2>1, <2>2, <2>3, <2>4, MovesLead
  <2> QED BY <1>1, <1>2, <2>1, <2>2, <2>4, <2>5, StaysInFrame
<1> QED BY <1>5, <1>6, <1>7, <1>8, <1>9 DEF Moves

(* The byte of a call.                                                     *)
LEMMA CallByte ==
  ASSUME NEW b \in 0..29, Opcodes[b + 1] = "OpCall"
  PROVE  b = OpcodeByte("OpCall")
<1>1. \A i \in 1..30 : Opcodes[i] = "OpCall" => i = 21
  BY DEF Opcodes
<1>2. Opcodes[21] = "OpCall"
  BY DEF Opcodes
<1>3. \A i \in 1..30 : Opcodes[i] = "OpCall" <=> i = 21
  BY <1>1, <1>2
<1>4. OpcodeByte("OpCall") = 21 - 1
  BY <1>3 DEF OpcodeByte
<1>5. b + 1 \in 1..30
  OBVIOUS
<1>6. b + 1 = 21
  BY <1>1, <1>5
<1> QED BY <1>4, <1>6

(* The frames after a call.                                                *)
LEMMA CallFields ==
  ASSUME Inv, NEW ip \in Nat, NEW f \in FrameSet(heap)
  PROVE  /\ Len(Append(Goto(ip), f)) = Len(frames) + 1
         /\ \A k \in 1..Len(frames) : Append(Goto(ip), f)[k] = Goto(ip)[k]
         /\ Append(Goto(ip), f)[Len(frames) + 1] = f
<1>1. Goto(ip) \in Seq(FrameSet(heap)) /\ Len(Goto(ip)) = Len(frames)
  BY GotoFields
<1> QED BY <1>1

(* A call finds its closure, and leaves what the caller waits for.         *)
LEMMA CallStays ==
  ASSUME Inv, Inv', RunsCertified, CallClosure
  PROVE  RunsCertified' /\ status' = "running" /\ stack' = stack
<1> DEFINE n == Len(frames)
           cl == Callee
           bp == sp - Operand
           f == NewFrame(cl, bp)
<1>1. /\ Executes({"OpCall"}) /\ CallsClosure
      /\ frames' = Append(Goto(LastByte), f)
      /\ sp' = bp + heap[heap[cl].fn].numLocals
      /\ UNCHANGED << heap, constants, stack, globals, status >>
  BY DEF CallClosure
<1>2. Op = "OpCall" /\ Running /\ InRange /\ OperandsPresent /\ Operand \in Nat /\ LastByte \in Nat
      /\ status = "running"
  BY <1>1, Fetched DEF NarrowOps
<1>3. /\ HeapOK(heap) /\ FramesOK(heap, frames) /\ Len(heap) \in Nat /\ StackSize \in Nat
      /\ n \in 1..n /\ 1 \in 1..n /\ n \in Nat /\ Frame = frames[n] /\ Fn.ins \in Seq(ByteValues)
      /\ constants \in Seq(1..Len(heap))
  <2>1. n \in 1..MaxFrames /\ MaxFrames \in Nat
    BY CurrentFrame, SizesAssumption
  <2> QED BY <2>1, InvParts, CurrentFrame, SizesAssumption DEF Frame, HeapOK
<1>4. Reads = Operand + 1
  BY <1>2 DEF Reads
<1>5. /\ WholeInstruction(Fn.ins, Lip) /\ Lip \in Nat
      /\ Depth \in Nat /\ Reads <= Depth /\ Floor(n) \in Nat
      /\ sp = Floor(n) + Depth /\ (Depth > 0 => sp <= StackSize)
  BY <1>2, Standing
<1>6. bp \in Nat /\ bp > 0 /\ bp <= StackSize /\ bp = Floor(n) + Depth - Operand
  BY <1>2, <1>3, <1>4, <1>5
<1>7. /\ cl \in 1..Len(heap) /\ Is(heap, cl, "CLOSURE") /\ heap[cl].fn \in 1..Len(heap)
      /\ heap[heap[cl].fn].numParameters = Operand /\ heap[heap[cl].fn].numLocals \in Nat
  <2>1. sp - (Operand + 1) < StackSize
    BY <1>2, <1>4 DEF OperandsPresent
  <2>2. cl \in 0..Len(heap)
    BY <1>2, <1>3, <1>4, <1>5, <2>1, Peeked DEF Callee
  <2>3. cl # Nil /\ heap[cl].t = "CLOSURE" /\ heap[heap[cl].fn].numParameters = Operand
        /\ Is(heap, cl, "CLOSURE")
    BY <1>1 DEF CallsClosure, Is
  <2>4. cl \in 1..Len(heap) /\ heap[cl].fn \in 1..Len(heap)
        /\ heap[heap[cl].fn].t = "COMPILED_FUNCTION"
    BY <1>3, <2>2, <2>3, Referent
  <2>5. heap[cl].fn \in 0..Len(heap) /\ heap[cl].fn # Nil
    BY <1>3, <2>4 DEF Nil
  <2>6. heap[heap[cl].fn].numLocals \in Nat
    BY <1>3, <2>4, <2>5, Referent
  <2> QED BY <2>3, <2>4, <2>6
<1>8. cl # MainClosure
  <2>1. Operand + 1 \in 1..Reads
    BY <1>2, <1>4
  <2> QED BY <1>2, <2>1, MainIsClear DEF Clear, Callee
<1>9. f \in FrameSet(heap) /\ f.cl = cl /\ f.bp = bp /\ f.ip = -1
  BY <1>6, <1>7 DEF NewFrame, FrameSet
<1> HIDE DEF n, cl, bp, f
<1>10. /\ Len(frames') = n + 1 /\ frames'[n + 1] = f
       /\ \A k \in 1..n : /\ frames'[k].cl = frames[k].cl /\ frames'[k].bp = frames[k].bp
                          /\ frames'[k].ip = IF k = n THEN LastByte ELSE frames[k].ip
  <2> DEFINE g == Goto(LastByte)
  <2>1. LastByte \in Nat \cup {-1}
    BY <1>2
  <2>2. \A k \in 1..n : /\ g[k].cl = frames[k].cl /\ g[k].bp = frames[k].bp
                       /\ g[k].ip = IF k = n THEN LastByte ELSE frames[k].ip
    BY <2>1, GotoFields DEF n
  <2>3. /\ Len(Append(g, f)) = n + 1 /\ Append(g, f)[n + 1] = f
        /\ \A k \in 1..n : Append(g, f)[k] = g[k]
    BY <1>2, <1>9, CallFields DEF n
  <2> HIDE DEF g
  <2>4. frames' = Append(g, f)
    BY <1>1 DEF g
  <2> QED BY <2>2, <2>3, <2>4
<1>11. Later(heap, heap') /\ heap' = heap /\ \A a \in 1..Len(heap') : ~ (a > Len(heap))
  BY <1>1, <1>3, SameHeap
<1>12. CodeIsCertified' /\ (FunctionOf(1).numLocals = 0)'
  BY <1>1, <1>3, <1>10, <1>11, CodeStays
<1>13. MainIsPrivate' /\ ClosuresAreCertified'
  <2>1. \A k \in 2..n : k \in 1..n /\ frames[k].cl # MainClosure
    BY <1>3 DEF RunsCertified, MainIsPrivate, n
  <2>2. \A k \in 2..(n + 1) : k \in 2..n \/ k = n + 1
    BY <1>3
  <2>3. \A k \in 2..Len(frames') : frames'[k].cl # MainClosure
    BY <1>8, <1>9, <1>10, <2>1, <2>2
  <2>4. /\ \A i \in 0..(StackSize - 1) : stack'[i] # MainClosure
        /\ \A i \in 0..(GlobalsSize - 1) : globals'[i] # MainClosure
    BY <1>1 DEF RunsCertified, MainIsPrivate
  <2> QED BY <1>1, <1>3, <1>10, <1>11, <2>3, <2>4, ClosuresStay
<1>14. ASSUME NEW k \in 1..n
       PROVE  WaitsFor(heap', stack', frames'[k], frames'[k + 1])
  <2>1. CASE k \in 1..(n - 1)
    <3>1. /\ k \in 1..n /\ k + 1 \in 1..n /\ k # n
          /\ WaitsFor(heap, stack, frames[k], frames[k + 1])
      <4>1. k # n
        BY <1>3, <2>1
      <4>2. k \in 1..(Len(frames) - 1)
        BY <2>1 DEF n
      <4> QED BY <4>1, <4>2, SlotBelow DEF n
    <3>2. /\ frames'[k].cl = frames[k].cl /\ frames'[k].bp = frames[k].bp
          /\ frames'[k].ip = frames[k].ip
          /\ frames'[k + 1].cl = frames[k + 1].cl /\ frames'[k + 1].bp = frames[k + 1].bp
      BY <1>10, <3>1
    <3>3. stack'[frames[k + 1].bp - 1] = stack[frames[k + 1].bp - 1]
      BY <1>1
    <3> QED BY <1>11, <3>1, <3>2, <3>3, WaitsStay DEF n
  <2>2. CASE k = n
    <3>1. /\ frames'[n].cl = Frame.cl /\ frames'[n].bp = Frame.bp /\ frames'[n].ip = LastByte
          /\ frames'[n + 1].cl = cl /\ frames'[n + 1].bp = bp
      BY <1>3, <1>9, <1>10
    <3>2. LastByte = Lip + 1 /\ Lip + 2 <= Len(Fn.ins) /\ Fn.ins[Lip + 1] \in 0..29
      <4>1. InstructionLen(Op) = 2 /\ OperandWidths(Op) = <<1>>
        BY <1>2, InstructionBytes DEF NarrowOps
      <4> QED BY <1>5, <4>1 DEF WholeInstruction, Op, LastByte
    <3>3. Fn.ins[Lip + 1] = OpcodeByte("OpCall")
      BY <1>2, <3>2, CallByte DEF Op
    <3>4. Fn.ins[Lip + 2] = Operand
      <4>1. OperandWidths(Op) = <<1>>
        BY <1>2, InstructionBytes DEF NarrowOps
      <4>2. Operands = << ReadUint8(Fn.ins, Lip + 1) >>
        BY <4>1 DEF Operands, ReadOperands
      <4>3. (Lip + 1) + 1 = Lip + 2
        BY <1>5
      <4> QED BY <4>2, <4>3 DEF Operand, ReadUint8
    <3>5. LastByte + 1 \in DOMAIN Depths(Fn.ins) /\ Depths(Fn.ins)[LastByte + 1] = Depth - Operand
      <4>1. Successors(Fn.ins, Lip) = {LastByte + 1}
        BY <1>2, Straight
      <4>2. Leaves(Fn.ins, Lip) = 1
        BY <1>2 DEF Leaves, LeftBy, OpAt, Op
      <4>3. LastByte + 1 \in DOMAIN Depths(Fn.ins) /\ Depths(Fn.ins)[LastByte + 1] = Depth - Reads + 1
        BY <1>2, <4>1, <4>2, Standing
      <4> QED BY <1>2, <1>4, <1>5, <4>3
    <3>6. FnOf(heap', frames'[n]) = Fn /\ FloorOf(heap', frames'[n]) = Floor(n)
          /\ DepthOf(heap', frames'[n]) = Depth - Operand
      BY <1>3, <1>11, <3>1, <3>5, Words DEF FnOf, FloorOf, DepthOf, Floor, FunctionOf, Fn
    <3>7. FnOf(heap', frames'[n + 1]).numParameters = Operand
      BY <1>7, <1>11, <3>1 DEF FnOf
    <3>8. stack'[bp - 1] = cl
      <4>1. bp - 1 = sp - (Operand + 1)
        BY <1>2, <1>5 DEF bp
      <4> QED BY <1>1, <4>1 DEF cl, Callee, Peek
    <3>9. LastByte \in 1..(Len(Fn.ins) - 1) /\ LastByte + 1 = Lip + 2
      BY <1>3, <1>5, <3>2
    <3>10. Depth - Operand >= 1 /\ bp = Floor(n) + (Depth - Operand)
      BY <1>2, <1>4, <1>5, <1>6
    <3>11. WaitsFor(heap', stack', frames'[n], frames'[n + 1])
      BY <1>6, <3>1, <3>2, <3>3, <3>4, <3>5, <3>6, <3>7, <3>8, <3>9, <3>10 DEF WaitsFor
    <3> QED BY <2>2, <3>11
  <2> QED BY <1>3, <2>1, <2>2
<1>15. GoesOn(heap', frames'[n + 1], sp')
  <2> DEFINE fn == heap[heap[cl].fn]
  <2>1. FnOf(heap', frames'[n + 1]) = fn /\ frames'[n + 1].ip + 1 = 0 /\ frames'[n + 1].bp = bp
    BY <1>9, <1>10, <1>11 DEF FnOf
  <2>2. PICK i \in 1..Len(constants) : constants[i] = heap[cl].fn
    BY <1>7, <1>8 DEF RunsCertified, ClosuresAreCertified
  <2>3. Is(heap, constants[i], "COMPILED_FUNCTION")
    BY <1>3, <1>7, <2>2 DEF HeapOK
  <2>4. CertifiedFunction(heap, constants, fn)
    BY <2>2, <2>3 DEF RunsCertified, CodeIsCertified
  <2>5. 0 \in DOMAIN Depths(fn.ins) /\ Depths(fn.ins)[0] = 0
    BY <2>4 DEF CertifiedFunction, CertifiedCode, Balanced
  <2>6. fn.numLocals \in Nat /\ sp' = bp + fn.numLocals
    BY <1>1, <1>7 DEF bp, cl
  <2> HIDE DEF fn
  <2>7. FloorOf(heap', frames'[n + 1]) = sp' /\ DepthOf(heap', frames'[n + 1]) = 0
    BY <2>1, <2>5, <2>6 DEF FloorOf, DepthOf
  <2>8. sp' \in Nat
    BY <1>6, <2>6
  <2> QED BY <2>1, <2>5, <2>7, <2>8 DEF GoesOn
<1>16. Proceeds'
  BY <1>10, <1>15, NextWords
<1>17. \A k \in 1..(Len(frames') - 1) : Waits(k)'
  <2>1. Len(frames') - 1 = n
    BY <1>3, <1>10
  <2> QED BY <1>14, <2>1, NextWords
<1>18. CleanHalt' /\ status' = "running" /\ stack' = stack
  BY <1>1, <1>2 DEF CleanHalt
<1> QED BY <1>12, <1>13, <1>16, <1>17, <1>18 DEF RunsCertified

(* The frames after a return.                                              *)
LEMMA ReturnFields ==
  ASSUME Inv, Frame.bp > 0
  PROVE  /\ Len(frames) - 1 \in 1..Len(frames) /\ Len(frames) \in Nat
         /\ Len(SubSeq(frames, 1, Len(frames) - 1)) = Len(frames) - 1
         /\ \A k \in 1..(Len(frames) - 1) : SubSeq(frames, 1, Len(frames) - 1)[k] = frames[k]
<1> DEFINE F == FrameSet(heap)
           n == Len(frames)
           gs == SubSeq(frames, 1, n - 1)
<1>1. FramesOK(heap, frames) /\ MaxFrames \in Nat /\ n \in 1..MaxFrames /\ frames \in Seq(F) /\ n # 1
  BY InvParts, CurrentFrame, SizesAssumption DEF FrameSet
<1>2. n \in Nat /\ n - 1 \in Int /\ 1 <= n - 1 /\ n - 1 \in 1..n
  <2>1. \A m \in Nat : \A k \in 1..m : k # 1 => k \in Nat /\ k - 1 \in Int /\ 1 <= k - 1 /\ k - 1 \in 1..k
    OBVIOUS
  <2> HIDE DEF n
  <2> QED BY <1>1, <2>1
<1>3. Len(gs) = n - 1 /\ \A k \in 1..Len(gs) : gs[k] = frames[k]
  <2> HIDE DEF F
  <2>1. \A i \in 1..(n - 1) : frames[i] \in F
    BY <1>1, <1>2, ElementOfSeq
  <2> QED BY <1>1, <1>2, <2>1, SubSeqProperties
<1> QED BY <1>2, <1>3

(* A return finds its caller waiting, and puts the value where the caller  *)
(* expects it: in the place of the closure.  push does not fail.           *)
LEMMA ReturnStays ==
  ASSUME Inv, Inv', RunsCertified, Return
  PROVE  /\ RunsCertified' /\ status' = "running"
         /\ ReturnSlot \in 0..(StackSize - 1) /\ sp' = ReturnSlot + 1
         /\ stack' = [stack EXCEPT ![ReturnSlot] = IF Op = "OpReturnValue" THEN Peek(1) ELSE Null]
         /\ Frame.bp > 0 /\ frames' = SubSeq(frames, 1, Len(frames) - 1)
         /\ heap' = heap
<1> DEFINE n == Len(frames)
           a == IF Op = "OpReturnValue" THEN Peek(1) ELSE Null
<1>1. /\ Executes({"OpReturnValue", "OpReturn"}) /\ UNCHANGED << heap, constants, globals >>
      /\ frames' = SubSeq(frames, 1, n - 1) /\ Push(ReturnSlot, a)
  BY DEF Return
<1>2. Op \in {"OpReturnValue", "OpReturn"} /\ Running /\ InRange /\ status = "running"
  BY <1>1, Fetched
<1>3. Frame.bp > 0
  BY <1>2 DEF InRange
<1>4. /\ HeapOK(heap) /\ FramesOK(heap, frames) /\ StackSize \in Nat /\ Len(heap) \in Nat
      /\ Frame = frames[n] /\ n - 1 \in 1..n /\ n \in Nat /\ n \in 1..n /\ 1 \in 1..n
      /\ Len(frames') = n - 1 /\ \A k \in 1..(n - 1) : frames'[k] = frames[k]
      /\ Frame.bp \in Nat /\ stack \in Slots(StackSize, heap)
  <2>1. n - 1 \in 1..n /\ n \in Nat
    BY <1>3, ReturnFields
  <2>2. n \in 1..n /\ 1 \in 1..n
    BY <2>1
  <2> QED BY <1>1, <1>3, <2>1, <2>2, ReturnFields, InvParts, CurrentFrame, SizesAssumption
          DEF Frame, HeapOK
<1>5. /\ n - 1 \in 1..(n - 1) /\ (n - 1) + 1 = n
  BY <1>4
<1>6. WaitsFor(heap, stack, frames[n - 1], frames[n]) /\ Frame.bp - 1 \in 0..(StackSize - 1)
  BY <1>4, <1>5, SlotBelow
<1>7. /\ ReturnSlot \in 0..(StackSize - 1) /\ ReturnSlot = Frame.bp - 1
      /\ stack' = [stack EXCEPT ![ReturnSlot] = a] /\ sp' = Frame.bp /\ status' = "running"
  <2>1. ReturnSlot = Frame.bp - 1 /\ ReturnSlot < StackSize
    BY <1>4, <1>6 DEF ReturnSlot
  <2>2. ~ (ReturnSlot >= StackSize) /\ ReturnSlot + 1 = Frame.bp
    BY <1>4, <1>6, <2>1
  <2> HIDE DEF a
  <2> QED BY <1>1, <1>2, <1>6, <2>1, <2>2 DEF Push
<1>8. a # MainClosure
  <2>1. Clear(MainClosure)
    BY <1>2, MainIsClear
  <2>2. Op = "OpReturnValue" => 1 \in 1..Reads
    BY DEF Reads
  <2> QED BY <2>1, <2>2 DEF Clear
<1> HIDE DEF n, a
<1>9. \A i \in 0..(StackSize - 1) : stack'[i] = IF i = ReturnSlot THEN a ELSE stack[i]
  BY <1>4, <1>7 DEF Slots
<1>10. Later(heap, heap') /\ heap' = heap /\ \A b \in 1..Len(heap') : ~ (b > Len(heap))
  BY <1>1, <1>4, SameHeap
<1>11. 1 \in 1..(n - 1) /\ frames'[1].cl = frames[1].cl
  BY <1>4
<1>12. CodeIsCertified' /\ (FunctionOf(1).numLocals = 0)'
  BY <1>1, <1>10, <1>11, CodeStays
<1>13. MainIsPrivate' /\ ClosuresAreCertified'
  <2>1. /\ \A k \in 2..n : frames[k].cl # MainClosure
        /\ \A i \in 0..(StackSize - 1) : stack[i] # MainClosure
        /\ \A i \in 0..(GlobalsSize - 1) : globals'[i] # MainClosure
    BY <1>1 DEF RunsCertified, MainIsPrivate, n
  <2>2. \A k \in 2..(n - 1) : k \in 2..n /\ k \in 1..(n - 1)
    BY <1>4
  <2>3. \A k \in 2..Len(frames') : frames'[k].cl # MainClosure
    BY <1>4, <2>1, <2>2
  <2>4. \A i \in 0..(StackSize - 1) : stack'[i] # MainClosure
    BY <1>8, <1>9, <2>1
  <2> QED BY <1>1, <1>10, <1>11, <2>1, <2>3, <2>4, ClosuresStay
<1>14. ASSUME NEW k \in 1..(Len(frames') - 1)
       PROVE  WaitsFor(heap', stack', frames'[k], frames'[k + 1])
  <2>1. /\ k \in 1..(n - 1) /\ k + 1 \in 1..(n - 1) /\ k \in 1..n /\ k + 1 \in 1..n /\ k + 1 < n
    BY <1>4
  <2>2. /\ WaitsFor(heap, stack, frames[k], frames[k + 1])
        /\ frames[k + 1].bp - 1 \in 0..(StackSize - 1)
    BY <2>1, SlotBelow DEF n
  <2>3. frames[k + 1].bp < Frame.bp
    <3>1. FloorOf(heap, frames[k + 1]) < Frame.bp
      BY <2>1, BasesRise DEF n
    <3>2. /\ FloorOf(heap, frames[k + 1]) \in Nat /\ frames[k + 1].bp \in Nat
          /\ FloorOf(heap, frames[k + 1]) >= frames[k + 1].bp
      BY <1>4, <2>1, FrameFields DEF n
    <3> QED BY <1>4, <3>1, <3>2
  <2>4. frames[k + 1].bp - 1 # ReturnSlot
    <3>1. frames[k + 1].bp \in Nat
      BY <1>4, <2>1, FrameFields DEF n
    <3>2. \A b, c \in Nat : b < c => b - 1 # c - 1
      OBVIOUS
    <3>3. ReturnSlot = Frame.bp - 1 /\ Frame.bp \in Nat
      BY <1>4, <1>7
    <3> QED BY <2>3, <3>1, <3>2, <3>3
  <2>5. stack'[frames[k + 1].bp - 1] = stack[frames[k + 1].bp - 1]
    BY <1>9, <2>2, <2>4
  <2>6. frames'[k] = frames[k] /\ frames'[k + 1] = frames[k + 1]
    BY <1>4, <2>1
  <2> QED BY <1>10, <2>1, <2>2, <2>5, <2>6, WaitsStay DEF n
<1>15. Proceeds'
  <2>1. frames'[Len(frames')] = frames[n - 1]
    BY <1>4, <1>5
  <2>2. GoesOn(heap', frames[n - 1], sp')
    BY <1>4, <1>6, <1>7, <1>10 DEF WaitsFor, GoesOn
  <2> QED BY <2>1, <2>2, NextWords
<1>16. CleanHalt'
  BY <1>7 DEF CleanHalt
<1>17. \A k \in 1..(Len(frames') - 1) : Waits(k)'
  BY <1>14, NextWords
<1>18. RunsCertified'
  BY <1>12, <1>13, <1>15, <1>16, <1>17 DEF RunsCertified
<1>19. sp' = ReturnSlot + 1
  BY <1>4, <1>7
<1> QED BY <1>1, <1>3, <1>7, <1>18, <1>19 DEF a, n

-----------------------------------------------------------------------------
(* A last frame that is not the first is beyond it.                        *)
LEMMA Beyond ==
  \A n : n \in 1..n /\ n # 1 => n > 1
OBVIOUS

(* What may be missing: nothing, but for the caller of a top-level return, *)
(* and the end of the stack under a local that has no value yet.           *)
LEMMA NothingMissing ==
  ASSUME Inv, RunsCertified, Running
  PROVE  /\ Op \in {"OpGetLocal", "OpSetLocal"} => Operand < Fn.numLocals /\ Operand \in Nat
         /\ \/ InRange
            \/ Len(frames) = 1 /\ Op = "OpReturnValue"
            \/ Op = "OpGetLocal" /\ sp > StackSize
         /\ OperandsPresent \/ sp > StackSize
<1> DEFINE n == Len(frames)
<1>1. /\ HeapOK(heap) /\ FramesOK(heap, frames) /\ StackSize \in Nat
      /\ Frame = frames[n] /\ n \in 1..n /\ Frame.bp \in Nat /\ Free \in Seq(0..Len(heap))
      /\ Fn = FnOf(heap, Frame) /\ Fn = FunctionOf(n) /\ Floor(n) = Frame.bp + Fn.numLocals
      /\ Fn.numLocals \in Nat
  <2>1. n \in 1..MaxFrames /\ MaxFrames \in Nat
    BY CurrentFrame, SizesAssumption
  <2>2. HeapOK(heap) /\ FramesOK(heap, frames) /\ n \in 1..n
    BY <2>1, InvParts
  <2> QED BY <2>2, FrameFields, Words, CurrentFrame, SizesAssumption DEF Frame, FloorOf, Fn, FnOf
<1>2. /\ Addresses(heap, constants, Fn, Lip) /\ Lip \in Reached(Fn.ins)
      /\ Op \in WideOps \cup NarrowOps \cup {"OpClosure"} => Operand \in Nat
      /\ Op = "OpClosure" => IsFunctionConstant
      /\ Reads \in Nat /\ Depth \in Nat /\ Reads <= Depth /\ Floor(n) \in Nat
      /\ sp = Floor(n) + Depth /\ (Depth > 0 => sp <= StackSize)
  BY Standing
<1>3. OpAt(Fn.ins, Lip) = Op /\ ArgsAt(Fn.ins, Lip)[1] = Operand
  BY DEF OpAt, ArgsAt, Op, Operand, Operands
<1>4. ASSUME Op \in {"OpGetLocal", "OpSetLocal"}
      PROVE  /\ Operand < Fn.numLocals /\ Operand \in Nat
             /\ InRange \/ (Op = "OpGetLocal" /\ sp > StackSize)
  <2>1. Operand < Fn.numLocals /\ Operand \in Nat
    BY <1>2, <1>3, <1>4 DEF Addresses, NarrowOps
  <2>2. InRange <=> Frame.bp + Operand < StackSize
    BY <1>4 DEF InRange, LocalSlot
  <2>3. Op = "OpSetLocal" => Reads = 1
    BY DEF Reads
  <2>4. Frame.bp + Operand < sp - Depth
    BY <1>1, <1>2, <2>1
  <2>5. Frame.bp + Operand < StackSize \/ sp > StackSize
    BY <1>1, <1>2, <2>1, <2>4
  <2>6. Op = "OpSetLocal" => Depth > 0
    BY <1>2, <2>3
  <2>7. Op = "OpSetLocal" => Frame.bp + Operand < StackSize
    BY <1>1, <1>2, <2>1, <2>4, <2>6
  <2> QED BY <1>4, <2>1, <2>2, <2>5, <2>7
<1>5. ASSUME Op = "OpGetFree" PROVE InRange
  <2>1. FreeSuffices(Fn.ins, Len(Free))
    <3>1. CASE n = 1
      <4>1. CertifiedProgram(heap, constants, Fn)
        BY <1>1, <3>1, FrameCertified
      <4>2. ~ (Operand < 0)
        BY <1>2, <1>5 DEF NarrowOps
      <4> QED BY <1>2, <1>3, <1>5, <4>1, <4>2 DEF CertifiedProgram, FreeSuffices
    <3>2. CASE n # 1
      <4>1. n > 1
        BY <1>1, <3>2, Beyond
      <4>2. MayRun(heap, constants, heap[Frame.cl])
        BY <1>1, <4>1, FrameCertified
      <4> QED BY <4>2 DEF MayRun, Fn, Free
    <3> QED BY <3>1, <3>2
  <2>2. Operand < Len(Free)
    BY <1>2, <1>3, <1>5, <2>1 DEF FreeSuffices
  <2> QED BY <1>5, <2>2 DEF InRange
<1>6. ASSUME Op \in {"OpReturnValue", "OpReturn"}
      PROVE  InRange \/ (n = 1 /\ Op = "OpReturnValue")
  <2>1. InRange <=> Frame.bp > 0
    BY <1>6 DEF InRange
  <2>2. n # 1 => Frame.bp > 0
    <3>1. frames[n].bp = 0 <=> n = 1
      BY <1>1 DEF FramesOK
    <3> QED BY <1>1, <3>1
  <2>3. ASSUME n = 1 PROVE Op # "OpReturn"
    <3>1. CertifiedProgram(heap, constants, Fn)
      BY <1>1, <2>3, FrameCertified
    <3> QED BY <1>2, <1>3, <3>1 DEF CertifiedProgram
  <2> QED BY <1>6, <2>1, <2>2, <2>3
<1>7. ASSUME Op \in {"OpConstant", "OpClosure", "OpGetGlobal", "OpSetGlobal", "OpGetBuiltin"}
      PROVE  InRange
  BY <1>2, <1>3, <1>7 DEF Addresses, InRange
<1>8. ASSUME Op \notin {"OpConstant", "OpClosure", "OpGetGlobal", "OpSetGlobal", "OpGetBuiltin",
                        "OpGetLocal", "OpSetLocal", "OpGetFree", "OpReturnValue", "OpReturn"}
      PROVE  InRange
  BY <1>8 DEF InRange
<1>9. OperandsPresent \/ sp > StackSize
  <2> SUFFICES ASSUME sp <= StackSize PROVE OperandsPresent
    BY <1>1, <1>2
  <2>1. Op = "OpCall" => Reads > 0
    BY <1>2 DEF Reads, NarrowOps
  <2>2. Reads <= sp /\ (Op = "OpCall" => sp - Reads < StackSize)
    BY <1>1, <1>2, <2>1
  <2> QED BY <2>2 DEF OperandsPresent
<1> QED BY <1>4, <1>5, <1>6, <1>7, <1>8, <1>9

(* Where an instruction cannot be executed, the cause is known.            *)
LEMMA CrashIsKnown ==
  ASSUME Inv, RunsCertified, Crash
  PROVE  KnownPanic
<1>1. Running /\ ~ CanExecute
  BY DEF Crash
<1>2. WholeInstruction(Fn.ins, Lip)
  BY <1>1, Standing
<1>3. ~ InRange \/ ~ OperandsPresent \/ ~ FrameAvailable
  BY <1>1, <1>2 DEF CanExecute
<1> QED BY <1>1, <1>3, NothingMissing DEF KnownPanic

(* Nothing is skipped: what control reaches is an opcode.                  *)
LEMMA NothingSkipped ==
  ASSUME Inv, RunsCertified
  PROVE  ~ Skipped
BY Standing DEF Skipped, MoveIp, Skip

(* A machine that runs to the end of the code is in the program, at depth  *)
(* zero.                                                                   *)
LEMMA EndsClean ==
  ASSUME Inv, RunsCertified, Halt
  PROVE  sp = 0 /\ Len(frames) = 1
<1> DEFINE n == Len(frames)
           d == Depths(Fn.ins)
<1>1. status = "running" /\ ~ Running
  BY DEF Halt
<1>2. /\ HeapOK(heap) /\ FramesOK(heap, frames) /\ n \in 1..n /\ n \in Nat /\ Frame = frames[n]
      /\ Frame \in FrameSet(heap) /\ Fn.ins \in Seq(ByteValues) /\ Fn = FunctionOf(n)
  <2>1. n \in 1..MaxFrames /\ MaxFrames \in Nat
    BY CurrentFrame, SizesAssumption
  <2>2. n \in 1..n /\ n \in Nat
    BY <2>1
  <2> QED BY <2>2, InvParts, CurrentFrame, Words DEF Frame, FrameSet
<1>3. CertifiedCode(heap, constants, Fn)
  BY <1>2, FrameCertified
<1>4. Proceeds
  BY <1>1 DEF RunsCertified
<1>5. Lip \in DOMAIN d /\ d[Lip] \in Nat /\ DOMAIN d \subseteq 0..Len(Fn.ins)
  BY <1>3, <1>4 DEF CertifiedCode, Balanced, Proceeds
<1>6. Lip = Len(Fn.ins)
  <2>1. Frame.ip \in Nat \cup {-1} /\ ~ (Frame.ip < Len(Fn.ins) - 1)
    BY <1>1, <1>2 DEF Running, FrameSet
  <2>2. Lip \in 0..Len(Fn.ins) /\ Len(Fn.ins) \in Nat
    BY <1>2, <1>5
  <2> QED BY <2>1, <2>2 DEF Lip
<1>7. n = 1
  <2> SUFFICES ASSUME n # 1 PROVE FALSE
    OBVIOUS
  <2>1. n > 1
    BY <1>2, Beyond
  <2>2. CertifiedFunction(heap, constants, Fn)
    BY <1>2, <2>1, FrameCertified
  <2> QED BY <1>5, <1>6, <2>2 DEF CertifiedFunction
<1>8. CertifiedProgram(heap, constants, Fn) /\ Fn.numLocals = 0
  BY <1>2, <1>7, FrameCertified DEF RunsCertified
<1>9. d[Lip] = 0
  BY <1>5, <1>6, <1>8 DEF CertifiedProgram
<1>10. Floor(n) = 0
  <2>1. Frame.bp = 0
    BY <1>2, <1>7 DEF FramesOK
  <2> QED BY <1>2, <1>7, <1>8, <2>1 DEF Floor, FunctionOf
<1> QED BY <1>4, <1>7, <1>9, <1>10 DEF Proceeds

-----------------------------------------------------------------------------
(* Every step.                                                             *)
Delivering == \/ Pushes \/ BinaryOperation \/ Comparison \/ MinusOperator \/ BangOperator
              \/ Index \/ Builds \/ CallBuiltin \/ CallFails

(* Most instructions deliver a value.                                      *)
LEMMA DeliveringDelivers ==
  ASSUME Inv, RunsCertified, Delivering
  PROVE  /\ \E p, outcome : Delivers(p, outcome)
         /\ Running /\ InRange /\ Clear(MainClosure)
<1>1. \E ops : Executes(ops)
  BY DEF Delivering, Pushes, Builds, PushConstant, PushSingleton, GetGlobal, GetLocal,
         GetBuiltin, GetFree, CurrentClosure, BinaryOperation, Comparison, MinusOperator,
         BangOperator, Index, BuildArray, BuildHash, PushClosure, CallBuiltin, CallFails
<1>2. Running /\ InRange
  BY <1>1, Fetched
<1>3. Clear(MainClosure)
  BY <1>2, MainIsClear
<1>4. \E p, outcome : Delivers(p, outcome)
  <2>1. CASE Pushes
    BY <2>1, PushesDeliver
  <2>2. CASE Operations
    BY <2>2, OperationsDeliver
  <2>3. CASE Builds
    BY <2>3, BuildsDeliver
  <2>4. CASE CallBuiltin \/ CallFails
    BY <2>4, CallsDeliver
  <2> QED BY <2>1, <2>2, <2>3, <2>4 DEF Delivering, Operations
<1> QED BY <1>2, <1>3, <1>4

(* The steps of the machine by their kinds.                                *)
LEMMA Kinds ==
  Next <=> \/ Delivering \/ Moves \/ CallClosure \/ Return
           \/ Skipped \/ Halt \/ Crash \/ Stopped
BY DEF Next, Delivering, Pushes, Builds, Moves, Jumped, Skipped, MoveIp

(* A panic leaves its cause to be seen.                                    *)
LEMMA CauseStays ==
  ASSUME UNCHANGED << heap, constants, frames, stack, sp, globals >>, KnownPanic
  PROVE  KnownPanic'
<1>1. Op' = Op /\ Operand' = Operand /\ Operands' = Operands
  BY DEF Operand, Operands, Op, Fn, Lip, Frame
<1>2. Reads' = Reads
  BY <1>1 DEF Reads, IsFunctionConstant
<1>3. Callee' = Callee
  BY <1>1 DEF Callee, Peek
<1>4. FrameAvailable' = FrameAvailable
  BY <1>1, <1>3 DEF FrameAvailable, CallsClosure
<1>5. UnhashableKey' = UnhashableKey
  BY <1>1 DEF UnhashableKey, TopValues
<1>6. \A i : Peek(i)' = Peek(i)
  BY DEF Peek
<1> QED BY <1>1, <1>2, <1>3, <1>4, <1>5, <1>6 DEF KnownPanic

(* The invariant of certified code, panics included.                       *)
CertifiedInv == Inv /\ RunsCertified /\ OnlyKnownPanics

(* No step leaves it.                                                      *)
LEMMA NextKeepsCertified ==
  ASSUME CertifiedInv, [Next]_vars
  PROVE  CertifiedInv'
<1>1. Inv /\ RunsCertified /\ OnlyKnownPanics
  BY DEF CertifiedInv
<1>2. Inv'
  BY <1>1, NextKeepsInv
<1>3. CASE Delivering
  <2>1. PICK p, outcome : Delivers(p, outcome)
    BY <1>1, <1>3, DeliveringDelivers
  <2>2. RunsCertified' /\ status = "running" /\ status' \in {"running", "error", "crashed"}
    BY <1>1, <1>2, <1>3, <2>1, DeliveringDelivers, DeliveredStays DEF Running
  <2>3. ASSUME status' = "crashed" PROVE KnownPanic'
    <3>1. outcome.is = "panic" /\ UNCHANGED << heap, frames, stack, sp >>
      BY <2>1, <2>2, <2>3 DEF Delivers, Deliver, Push, Fail
    <3>2. KnownPanic /\ UNCHANGED << heap, constants, frames, stack, sp, globals >>
      BY <2>1, <3>1 DEF Delivers
    <3> QED BY <3>2, CauseStays
  <2> QED BY <1>2, <2>2, <2>3 DEF CertifiedInv, OnlyKnownPanics
<1>4. CASE Moves
  BY <1>1, <1>2, <1>4, MovesStay DEF CertifiedInv, OnlyKnownPanics
<1>5. CASE CallClosure
  BY <1>1, <1>2, <1>5, CallStays DEF CertifiedInv, OnlyKnownPanics
<1>6. CASE Return
  BY <1>1, <1>2, <1>6, ReturnStays DEF CertifiedInv, OnlyKnownPanics
<1>7. CASE Skipped
  BY <1>1, <1>7, NothingSkipped
<1>8. CASE Halt
  <2>1. /\ UNCHANGED << heap, constants, frames, stack, sp, globals >> /\ status' = "halted"
    BY <1>8 DEF Halt
  <2>2. RunsCertified'
    BY <1>1, <1>8, <2>1, EndsClean, StopsWhereItIs
  <2> QED BY <1>2, <2>1, <2>2 DEF CertifiedInv, OnlyKnownPanics
<1>9. CASE Crash
  <2>1. /\ UNCHANGED << heap, constants, frames, stack, sp, globals >> /\ status' = "crashed"
    BY <1>9 DEF Crash
  <2>2. RunsCertified'
    BY <1>1, <2>1, StopsWhereItIs
  <2>3. KnownPanic'
    BY <1>1, <1>9, <2>1, CrashIsKnown, CauseStays
  <2> QED BY <1>2, <2>2, <2>3 DEF CertifiedInv, OnlyKnownPanics
<1>10. CASE UNCHANGED vars
  <2>1. /\ UNCHANGED << heap, constants, frames, stack, sp, globals >> /\ status' = status
    BY <1>10 DEF vars
  <2>2. RunsCertified'
    <3>1. CASE status = "running"
      <4>1. CodeIsCertified' /\ (FunctionOf(1).numLocals = 0)' /\ MainIsPrivate' /\ ClosuresAreCertified'
        BY <1>1, <2>1 DEF RunsCertified, CodeIsCertified, FunctionOf, MainIsPrivate, MainClosure,
                          ClosuresAreCertified
      <4>2. \A k \in 1..(Len(frames') - 1) : Waits(k)'
        BY <1>1, <2>1 DEF RunsCertified, Waits, FunctionOf, Floor
      <4>3. Proceeds' /\ CleanHalt'
        BY <1>1, <2>1, <3>1 DEF RunsCertified, Proceeds, CleanHalt, Lip, Frame, Fn, Floor, FunctionOf
      <4> QED BY <4>1, <4>2, <4>3 DEF RunsCertified
    <3>2. CASE status # "running"
      <4>1. status = "halted" => sp = 0 /\ Len(frames) = 1
        BY <1>1 DEF RunsCertified, CleanHalt
      <4> QED BY <1>1, <2>1, <3>2, <4>1, StopsWhereItIs
    <3> QED BY <3>1, <3>2
  <2>3. status' = "crashed" => KnownPanic'
    BY <1>1, <2>1, CauseStays DEF OnlyKnownPanics
  <2> QED BY <1>2, <2>2, <2>3 DEF CertifiedInv, OnlyKnownPanics
<1> QED BY <1>3, <1>4, <1>5, <1>6, <1>7, <1>8, <1>9, <1>10, Kinds DEF Stopped

-----------------------------------------------------------------------------
(* The machine that New makes of certified code.                           *)
LEMMA SharedTypes ==
  \A a \in 1..10 : SharedObjects[a].t \in {"NULL", "BOOLEAN", "BUILTIN"}
<1> TAKE a \in 1..10
<1>1. CASE a \in 4..10
  BY <1>1, Shared
<1>2. CASE a \in {1, 2, 3}
  BY <1>2, Shared
<1>3. a \in {1, 2, 3} \/ a \in 4..10
  OBVIOUS
<1> QED BY <1>1, <1>2, <1>3

(* It starts with nothing on the stack, and with one closure, which nothing *)
(* refers to.                                                              *)
LEMMA InitIsCertified ==
  ASSUME Init, CodeIsCertified
  PROVE  RunsCertified /\ status = "running"
<1>1. PICK p \in Programs : InitWith(p)
  BY DEF Init
<1> DEFINE c == p.constants
           fn == CompiledFunction(p.instructions, 0, 0)
           cl == Closure(Len(c) + 11, << >>)
           n == Len(c) + 12
<1>2. c \in Seq(ConstantObjects) /\ Len(c) \in Nat /\ Len(SharedObjects) = 10
      /\ StackSize \in Nat /\ GlobalsSize \in Nat
  BY ProgramsAssumption, SizesAssumption, Shared
<1>3. /\ heap = FirstObjects(c, fn, cl)
      /\ constants = [i \in 1..Len(c) |-> 10 + i]
      /\ frames = << NewFrame(n, 0) >>
      /\ stack = [i \in 0..(StackSize - 1) |-> Nil] /\ sp = 0
      /\ globals = [i \in 0..(GlobalsSize - 1) |-> Nil]
      /\ status = "running"
  <2>1. 10 + Len(c) + 1 = Len(c) + 11 /\ 10 + Len(c) + 2 = Len(c) + 12
    BY <1>2
  <2> QED BY <1>1, <1>2, <2>1 DEF InitWith, FirstObjects
<1>4. /\ fn.t = "COMPILED_FUNCTION" /\ fn.numLocals = 0
      /\ cl.t = "CLOSURE" /\ cl.fn = Len(c) + 11 /\ cl.free = << >>
  BY DEF CompiledFunction, Closure
<1> HIDE DEF c, fn, cl
<1>5. FirstLayout(heap, c, fn, cl)
  BY <1>2, <1>3, FirstHeap
<1>6. Len(heap) = n /\ heap[Len(c) + 11] = fn /\ heap[n] = cl
  BY <1>5 DEF FirstLayout
<1>7. ASSUME NEW a \in 1..n, a # n
      PROVE  heap[a].t \notin {"ARRAY", "HASH", "CLOSURE"}
  <2>1. CASE a \in 1..10
    BY <1>5, <2>1, SharedTypes DEF FirstLayout
  <2>2. CASE a \in 11..(Len(c) + 10)
    BY <1>5, <2>2, ConstantWellFormed DEF FirstLayout
  <2>3. CASE a = Len(c) + 11
    BY <1>4, <1>6, <2>3
  <2>4. a \in 1..10 \/ a \in 11..(Len(c) + 10) \/ a = Len(c) + 11
    BY <1>2, <1>7
  <2> QED BY <2>1, <2>2, <2>3, <2>4
<1>8. /\ Len(frames) = 1 /\ frames[1].cl = n /\ frames[1].ip = -1 /\ frames[1].bp = 0
  BY <1>3 DEF NewFrame
<1>9. MainClosure = n
  BY <1>8 DEF MainClosure
<1>10. FunctionOf(1) = fn /\ Fn = fn
  BY <1>4, <1>6, <1>8 DEF FunctionOf, Fn, Frame
<1>11. DOMAIN constants = 1..Len(c) /\ Len(constants) = Len(c)
       /\ \A i \in 1..Len(c) : constants[i] = 10 + i
  <2>1. DOMAIN constants = 1..Len(c) /\ \A i \in 1..Len(c) : constants[i] = 10 + i
    BY <1>3
  <2>2. constants \in Seq(1..Len(heap))
    BY InitEstablishesInv, InvParts
  <2>3. DOMAIN constants = 1..Len(constants) /\ Len(constants) \in Nat
    BY <2>2, LenProperties
  <2> QED BY <1>2, <2>1, <2>3, SameLength
<1>12. MainIsPrivate
  <2>1. n > 10 /\ n # Nil /\ n \in Nat
    BY <1>2 DEF Nil
  <2>2. \A a \in 1..Len(heap) : Avoids(heap[a], n)
    <3> TAKE a \in 1..Len(heap)
    <3>1. CASE a = n
      BY <1>4, <1>6, <3>1 DEF Avoids
    <3>2. CASE a # n
      BY <1>6, <1>7, <3>2 DEF Avoids
    <3> QED BY <3>1, <3>2
  <2>3. \A i \in 1..Len(constants) : constants[i] # n
    BY <1>2, <1>11
  <2>4. /\ \A i \in 0..(StackSize - 1) : stack[i] # n
        /\ \A i \in 0..(GlobalsSize - 1) : globals[i] # n
    BY <1>3, <2>1
  <2>5. \A k \in 2..Len(frames) : FALSE
    BY <1>8
  <2> HIDE DEF n
  <2> QED BY <1>2, <1>9, <2>1, <2>2, <2>3, <2>4, <2>5 DEF MainIsPrivate
<1>13. ClosuresAreCertified
  BY <1>6, <1>7, <1>9 DEF ClosuresAreCertified, Is
<1>14. \A k \in 1..(Len(frames) - 1) : FALSE
  BY <1>8
<1>15. Proceeds
  <2>1. 0 \in DOMAIN Depths(fn.ins) /\ Depths(fn.ins)[0] = 0
    BY <1>10 DEF CodeIsCertified, CertifiedProgram, CertifiedCode, Balanced
  <2>2. Lip = 0
    BY <1>8 DEF Lip, Frame
  <2>3. Floor(1) = 0
    BY <1>4, <1>8, <1>10 DEF Floor
  <2> QED BY <1>3, <1>8, <1>10, <2>1, <2>2, <2>3 DEF Proceeds
<1>16. CleanHalt /\ FunctionOf(1).numLocals = 0
  BY <1>3, <1>4, <1>10 DEF CleanHalt
<1> QED BY <1>3, <1>12, <1>13, <1>14, <1>15, <1>16 DEF RunsCertified

(* The invariant holds of every behavior that begins with certified code.  *)
THEOREM CertifiedInvariance == Spec /\ CodeIsCertified => []CertifiedInv
<1>1. Init /\ CodeIsCertified => CertifiedInv
  BY InitEstablishesInv, InitIsCertified DEF CertifiedInv, OnlyKnownPanics
<1>2. CertifiedInv /\ [Next]_vars => CertifiedInv'
  BY NextKeepsCertified
<1> QED BY <1>1, <1>2, PTL DEF Spec

(* Certified code keeps the depths of its certificate: in every frame, sp  *)
(* is where the check of the code alone puts it.                           *)
THEOREM RunsStayCertified == Spec /\ CodeIsCertified => []RunsCertified
<1>1. CertifiedInv => RunsCertified
  BY DEF CertifiedInv
<1> QED BY <1>1, CertifiedInvariance, PTL

(* What instructions take from the stack are temporaries of their own      *)
(* frame: certified code never reaches into its locals or its caller's     *)
(* values.                                                                 *)
THEOREM OperandsAreOwn == Spec /\ CodeIsCertified => []TemporariesAboveLocals
<1>1. CertifiedInv => TemporariesAboveLocals
  <2> SUFFICES ASSUME Inv, RunsCertified, Running PROVE Floor(Len(frames)) + Reads <= sp
    BY DEF CertifiedInv, TemporariesAboveLocals
  <2>1. /\ Reads \in Nat /\ Depth \in Nat /\ Reads <= Depth /\ Floor(Len(frames)) \in Nat
        /\ sp = Floor(Len(frames)) + Depth
    BY Standing
  <2> QED BY <2>1
<1> QED BY <1>1, CertifiedInvariance, PTL

(* Below every frame of certified code lie its closure and the temporaries *)
(* of the caller that waits for it.                                        *)
THEOREM FramesLieAboveCallers == Spec /\ CodeIsCertified => []FrameLayout
<1>1. CertifiedInv => FrameLayout
  <2> SUFFICES ASSUME Inv, RunsCertified, NEW k \in 2..Len(frames)
               PROVE  LET caller == FunctionOf(k - 1).ins
                          call   == frames[k - 1].ip - 1
                      IN /\ frames[k].bp - 1 >= Floor(k - 1)
                         /\ stack[frames[k].bp - 1] = frames[k].cl
                         /\ caller[call + 1] = OpcodeByte("OpCall")
                         /\ caller[call + 2] = FunctionOf(k).numParameters
    BY DEF CertifiedInv, FrameLayout
  <2> DEFINE j == k - 1
             ins == FunctionOf(j).ins
             ip == frames[j].ip
  <2>1. j \in 1..(Len(frames) - 1) /\ j + 1 = k /\ j \in 1..Len(frames)
    BY InvParts, CurrentFrame, SizesAssumption
  <2>2. Waits(j)
    BY <2>1 DEF RunsCertified
  <2>3. /\ ip \in 1..(Len(ins) - 1) /\ ins[ip] = OpcodeByte("OpCall")
        /\ ins[ip + 1] = FunctionOf(k).numParameters
        /\ Depths(ins)[ip + 1] >= 1 /\ ip + 1 \in DOMAIN Depths(ins)
        /\ frames[k].bp = Floor(j) + Depths(ins)[ip + 1]
        /\ stack[frames[k].bp - 1] = frames[k].cl
    BY <2>1, <2>2 DEF Waits
  <2>4. CertifiedCode(heap, constants, FunctionOf(j))
    BY <2>1, FrameCertified
  <2>5. Depths(ins)[ip + 1] \in Nat
    BY <2>3, <2>4 DEF CertifiedCode, Balanced
  <2>6. Floor(j) \in Nat
    BY <2>1, InvParts, FrameFields, Words
  <2> HIDE DEF j, ins, ip
  <2>7. frames[k].bp - 1 >= Floor(j)
    BY <2>3, <2>5, <2>6
  <2>8. ip \in Int
    BY <2>3
  <2>9. (ip - 1) + 1 = ip /\ (ip - 1) + 2 = ip + 1
    BY <2>8
  <2> QED BY <2>3, <2>7, <2>9 DEF j, ins, ip
<1> QED BY <1>1, CertifiedInvariance, PTL

(* Certified code that runs to its end leaves no value and no frame.       *)
THEOREM HaltsClean == Spec /\ CodeIsCertified => []CleanHalt
<1>1. CertifiedInv => CleanHalt
  BY DEF CertifiedInv, RunsCertified
<1> QED BY <1>1, CertifiedInvariance, PTL

(* Certified code asks only for what is there.                             *)
THEOREM Executable == Spec /\ CodeIsCertified => []CodeIsExecutable
<1>1. CertifiedInv => CodeIsExecutable
  <2> SUFFICES ASSUME Inv, RunsCertified, Running
               PROVE  /\ IsOpcode /\ WholeInstruction(Fn.ins, Lip)
                      /\ Len(frames) > 1 \/ Op # "OpReturnValue" =>
                           InRange \/ (Op = "OpGetLocal" /\ sp > StackSize)
                      /\ Op \in {"OpGetLocal", "OpSetLocal"} => Operand < Fn.numLocals
    BY DEF CertifiedInv, CodeIsExecutable
  <2>1. IsOpcode /\ WholeInstruction(Fn.ins, Lip)
    BY Standing
  <2>2. /\ Op \in {"OpGetLocal", "OpSetLocal"} => Operand < Fn.numLocals
        /\ \/ InRange
           \/ Len(frames) = 1 /\ Op = "OpReturnValue"
           \/ Op = "OpGetLocal" /\ sp > StackSize
    BY NothingMissing
  <2>3. Len(frames) = 1 => ~ (Len(frames) > 1)
    OBVIOUS
  <2> QED BY <2>1, <2>2, <2>3
<1> QED BY <1>1, CertifiedInvariance, PTL

(* A machine that runs certified code panics for known reasons only.       *)
THEOREM PanicsAreKnown == Spec /\ CodeIsCertified => []OnlyKnownPanics
<1>1. CertifiedInv => OnlyKnownPanics
  BY DEF CertifiedInv
<1> QED BY <1>1, CertifiedInvariance, PTL

-----------------------------------------------------------------------------
(* What steps leave alone.                                                 *)

(* A called frame stands inside the stack.                                 *)
LEMMA StandsInside ==
  ASSUME Inv, RunsCertified
  PROVE  0..(Frame.bp - 1) \subseteq 0..(StackSize - 1) /\ Frame.bp \in Nat
<1> DEFINE n == Len(frames)
<1>1. /\ FramesOK(heap, frames) /\ n \in 1..n /\ n \in Nat /\ Frame = frames[n]
      /\ Frame.bp \in Nat /\ StackSize \in Nat
  <2>1. n \in 1..MaxFrames /\ MaxFrames \in Nat
    BY CurrentFrame, SizesAssumption
  <2> QED BY <2>1, InvParts, CurrentFrame, SizesAssumption DEF Frame
<1>2. CASE n = 1
  <2>1. Frame.bp = 0
    BY <1>1, <1>2 DEF FramesOK
  <2> QED BY <1>1, <2>1
<1>3. CASE n # 1
  <2>1. n > 1
    BY <1>1, <1>3, Beyond
  <2>2. n - 1 \in 1..(n - 1) /\ (n - 1) + 1 = n
    BY <1>1, <2>1
  <2>3. Frame.bp - 1 \in 0..(StackSize - 1)
    BY <1>1, <2>2, SlotBelow
  <2> QED BY <1>1, <2>3
<1> QED BY <1>2, <1>3

(* No step writes below the slot of the closure that runs.                 *)
LEMMA StepFreezes ==
  ASSUME CertifiedInv, [Next]_vars
  PROVE  \A i \in 0..(ReturnSlot - 1) : stack'[i] = stack[i]
<1>1. Inv /\ RunsCertified /\ Inv' /\ Frame.bp \in Nat
  BY NextKeepsInv, CurrentFrame DEF CertifiedInv
<1>2. ASSUME NEW i \in 0..(ReturnSlot - 1)
      PROVE  i \in 0..(StackSize - 1) /\ i < Frame.bp /\ i # ReturnSlot
  <2>1. i \in 0..(Frame.bp - 1) /\ i < Frame.bp /\ i # ReturnSlot
    BY <1>1 DEF ReturnSlot
  <2> QED BY <1>1, <2>1, StandsInside
<1>3. ASSUME \A i \in 0..(StackSize - 1) : i < Frame.bp => stack'[i] = stack[i]
      PROVE  \A i \in 0..(ReturnSlot - 1) : stack'[i] = stack[i]
  BY <1>2, <1>3
<1>4. CASE Delivering
  <2>1. PICK p, outcome : Delivers(p, outcome)
    BY <1>1, <1>4, DeliveringDelivers
  <2> QED BY <1>1, <1>3, <1>4, <2>1, DeliveringDelivers, DeliveredStays
<1>5. CASE Moves
  BY <1>1, <1>3, <1>5, MovesStay
<1>6. CASE Return
  <2> DEFINE a == IF Op = "OpReturnValue" THEN Peek(1) ELSE Null
  <2>1. ReturnSlot \in 0..(StackSize - 1) /\ stack' = [stack EXCEPT ![ReturnSlot] = a]
    BY <1>1, <1>6, ReturnStays
  <2>2. stack \in Slots(StackSize, heap)
    BY <1>1, InvParts
  <2> HIDE DEF a
  <2> QED BY <1>2, <2>1, <2>2 DEF Slots
<1>7. CASE CallClosure \/ Skipped \/ Halt \/ Crash \/ UNCHANGED vars
  BY <1>7 DEF CallClosure, Skipped, MoveIp, Skip, Halt, Crash, vars
<1> QED BY <1>4, <1>5, <1>6, <1>7, Kinds DEF Stopped

(* While a function of certified code runs, and when it returns, its       *)
(* callers' locals and temporaries stay as they are.                       *)
THEOREM CallersAreFrozen == Spec /\ CodeIsCertified => CallersFrozen
<1>1. CertifiedInv /\ [Next]_vars => [\A i \in 0..(ReturnSlot - 1) : stack'[i] = stack[i]]_vars
  BY StepFreezes
<1> QED BY <1>1, CertifiedInvariance, PTL DEF Spec, CallersFrozen

-----------------------------------------------------------------------------
(* Where nil comes from.                                                   *)
Filled(s, from, to) == \A i \in from..(to - 1) : i < StackSize => s[i] # Nil

(* Where the temporaries of frame k of fs end.                             *)
TopOf(fs, top, k) == IF k = Len(fs) THEN top ELSE fs[k + 1].bp

(* No nil is in use, in other words, now and next.                         *)
LEMMA NoNilWords ==
  /\ NoNilInUse <=> /\ \A k \in 1..Len(frames) :
                         Filled(stack, FloorOf(heap, frames[k]), TopOf(frames, sp, k))
                    /\ AllAvoid(heap, Nil)
  /\ NoNilInUse' <=> /\ \A k \in 1..Len(frames') :
                          Filled(stack', FloorOf(heap', frames'[k]), TopOf(frames', sp', k))
                     /\ AllAvoid(heap', Nil)
<1>1. \A h : \A a \in 1..Len(h) :
        Avoids(h[a], Nil) <=>
          /\ Is(h, a, "ARRAY") => \A i \in DOMAIN h[a].e : h[a].e[i] # Nil
          /\ Is(h, a, "HASH") => \A k \in DOMAIN h[a].d : h[a].d[k] # Nil
          /\ Is(h, a, "CLOSURE") => \A i \in DOMAIN h[a].free : h[a].free[i] # Nil
  <2> TAKE h
  <2> TAKE a \in 1..Len(h)
  <2>1. a # Nil
    BY DEF Nil
  <2> QED BY <2>1 DEF Avoids, Is
<1>2. /\ NoNilInUse <=> /\ \A k \in 1..Len(frames) : Filled(stack, Floor(k), TopOf(frames, sp, k))
                        /\ AllAvoid(heap, Nil)
  BY <1>1 DEF NoNilInUse, Filled, TopOf, AllAvoid
<1>3. /\ NoNilInUse' <=> /\ \A k \in 1..Len(frames') : Filled(stack', Floor(k)', TopOf(frames', sp', k))
                         /\ AllAvoid(heap', Nil)
  BY <1>1 DEF NoNilInUse, Filled, TopOf, AllAvoid
<1> QED BY <1>2, <1>3, Words, NextWords

(* An instruction that reads no variable gets no nil when none is in use.  *)
LEMMA NilIsClear ==
  ASSUME Inv, RunsCertified, Running, InRange, NoNilInUse, Op \notin {"OpGetLocal", "OpGetGlobal"}
  PROVE  Clear(Nil)
<1> DEFINE n == Len(frames)
<1>1. /\ n \in 1..n /\ StackSize \in Nat /\ Frame = frames[n] /\ Frame.cl \in 1..Len(heap)
      /\ constants \in Seq(1..Len(heap)) /\ Floor(n) = FloorOf(heap, frames[n])
  <2>1. n \in 1..MaxFrames /\ MaxFrames \in Nat
    BY CurrentFrame, SizesAssumption
  <2> QED BY <2>1, InvParts, CurrentFrame, SizesAssumption, Words DEF Frame
<1>2. /\ Op \in WideOps \cup NarrowOps \cup {"OpClosure"} => Operand \in Nat
      /\ Reads \in Nat /\ Depth \in Nat /\ Reads <= Depth
      /\ Floor(n) \in Nat /\ sp = Floor(n) + Depth /\ (Depth > 0 => sp <= StackSize)
  BY Standing
<1>3. AllAvoid(heap, Nil) /\ Filled(stack, Floor(n), sp)
  <2>1. TopOf(frames, sp, n) = sp
    BY DEF TopOf
  <2>2. Filled(stack, FloorOf(heap, frames[n]), TopOf(frames, sp, n)) /\ AllAvoid(heap, Nil)
    BY <1>1, NoNilWords
  <2> QED BY <1>1, <2>1, <2>2
<1>4. ASSUME NEW i \in 1..Reads PROVE Peek(i) # Nil
  <2>1. sp - i \in Floor(n)..(sp - 1) /\ sp - i < StackSize
    BY <1>1, <1>2
  <2> QED BY <1>3, <2>1 DEF Filled, Peek
<1>5. \A i \in 1..Len(constants) : constants[i] # Nil
  BY <1>1, ElementOfSeq DEF Nil
<1>6. Op = "OpGetBuiltin" => BuiltinRef(Operand) # Nil
  BY <1>2 DEF NarrowOps, BuiltinRef, Nil
<1>7. Nil \notin {Null, True, False} /\ Frame.cl # Nil
  BY <1>1 DEF Nil, Null, True, False
<1> QED BY <1>3, <1>4, <1>5, <1>6, <1>7 DEF Clear

(* A step that stays in its frame and puts no nil above its floor.         *)
LEMMA NoNilInFrame ==
  ASSUME Inv, RunsCertified, NoNilInUse, Later(heap, heap'),
         NEW ip \in Nat \cup {-1}, frames' = Goto(ip),
         \A a \in 1..Len(heap') : a > Len(heap) => Avoids(heap'[a], Nil),
         \A i \in 0..(StackSize - 1) : i < Frame.bp => stack'[i] = stack[i],
         Filled(stack', Floor(Len(frames)), sp')
  PROVE  NoNilInUse'
<1> DEFINE n == Len(frames)
<1>1. /\ HeapOK(heap) /\ FramesOK(heap, frames) /\ n \in 1..n /\ n \in Nat /\ Frame = frames[n]
      /\ Floor(n) = FloorOf(heap, frames[n]) /\ Len(heap) \in Nat /\ Frame.bp \in Nat
  <2>1. n \in 1..MaxFrames /\ MaxFrames \in Nat
    BY CurrentFrame, SizesAssumption
  <2> QED BY <2>1, InvParts, CurrentFrame, Words DEF Frame, HeapOK
<1>2. /\ Len(frames') = n
      /\ \A k \in 1..n : frames'[k].cl = frames[k].cl /\ frames'[k].bp = frames[k].bp
  BY GotoFields
<1>3. /\ \A k \in 1..n : Filled(stack, FloorOf(heap, frames[k]), TopOf(frames, sp, k))
      /\ AllAvoid(heap, Nil)
  BY NoNilWords
<1>4. ASSUME NEW k \in 1..n
      PROVE  /\ FloorOf(heap', frames'[k]) = FloorOf(heap, frames[k])
             /\ FloorOf(heap, frames[k]) \in Nat
  <2>1. FnOf(heap', frames'[k]) = FnOf(heap, frames[k])
    BY <1>1, <1>2, FnLater
  <2>2. FloorOf(heap, frames[k]) \in Nat
    BY <1>1, FrameFields
  <2> QED BY <1>2, <2>1, <2>2 DEF FloorOf
<1>5. ASSUME NEW k \in 1..n
      PROVE  Filled(stack', FloorOf(heap', frames'[k]), TopOf(frames', sp', k))
  <2>1. CASE k = n
    <3>1. TopOf(frames', sp', k) = sp' /\ FloorOf(heap', frames'[k]) = Floor(n)
      BY <1>1, <1>2, <1>4, <2>1 DEF TopOf
    <3> QED BY <3>1
  <2>2. CASE k # n
    <3>1. k \in 1..(n - 1) /\ k + 1 \in 1..n
      BY <1>1, <2>2
    <3>2. frames[k + 1].bp \in Nat /\ frames[k + 1].bp <= Frame.bp
      BY <1>1, <3>1, FrameFields, BasesRise
    <3>3. TopOf(frames', sp', k) = frames[k + 1].bp /\ TopOf(frames, sp, k) = frames[k + 1].bp
      BY <1>2, <2>2, <3>1 DEF TopOf
    <3>4. Filled(stack, FloorOf(heap, frames[k]), frames[k + 1].bp)
      BY <1>3, <3>3
    <3>5. ASSUME NEW i \in FloorOf(heap, frames[k])..(frames[k + 1].bp - 1), i < StackSize
          PROVE  stack'[i] # Nil
      <4>1. i \in 0..(StackSize - 1) /\ i < Frame.bp
        BY <1>1, <1>4, <3>2, <3>5, SizesAssumption
      <4> QED BY <3>4, <3>5, <4>1 DEF Filled
    <3> QED BY <1>4, <3>3, <3>5 DEF Filled
  <2> QED BY <2>1, <2>2
<1>6. AllAvoid(heap', Nil)
  <2>1. \A a \in 1..Len(heap') : a \in 1..Len(heap) \/ a > Len(heap)
    BY <1>1 DEF Later
  <2> QED BY <1>3, <2>1 DEF AllAvoid, Later
<1> QED BY <1>2, <1>5, <1>6, NoNilWords

(* The temporaries of the current frame hold no nil when none is in use.   *)
LEMMA TemporariesFilled ==
  ASSUME Inv, RunsCertified, NoNilInUse
  PROVE  Filled(stack, Floor(Len(frames)), sp)
<1>1. Len(frames) \in 1..Len(frames)
  <2>1. Len(frames) \in 1..MaxFrames /\ MaxFrames \in Nat
    BY CurrentFrame, SizesAssumption
  <2> QED BY <2>1
<1>2. TopOf(frames, sp, Len(frames)) = sp
  BY DEF TopOf
<1> QED BY <1>1, <1>2, NoNilWords, Words

(* What is delivered is no nil.                                            *)
LEMMA NoNilDelivered ==
  ASSUME Inv, Inv', RunsCertified, Delivering, NoNilInUse, Op \notin {"OpGetLocal", "OpGetGlobal"}
  PROVE  NoNilInUse'
<1> DEFINE n == Len(frames)
<1>1. PICK p, outcome : Delivers(p, outcome)
  BY DeliveringDelivers
<1>2. Running /\ InRange /\ Clear(MainClosure)
  BY DeliveringDelivers
<1>3. Clear(Nil)
  BY <1>2, NilIsClear
<1>4. /\ Spares(outcome, Nil) /\ Deliver(p, outcome) /\ LastByte \in Nat \cup {-1}
      /\ p \in Nat /\ Floor(n) <= p /\ p <= sp
  BY <1>1, <1>3 DEF Delivers
<1>5. \A i \in 0..(StackSize - 1) : i < Frame.bp => stack'[i] = stack[i]
  BY <1>1, <1>2, DeliveredStays
<1>6. /\ HeapOK(heap) /\ Len(heap) \in Nat /\ StackSize \in Nat /\ stack \in Slots(StackSize, heap)
      /\ Floor(n) \in Nat /\ sp \in Nat
  BY <1>2, Standing, InvParts, SizesAssumption DEF HeapOK
<1>7. Filled(stack, Floor(n), sp)
  BY TemporariesFilled
<1> HIDE DEF n
<1>8. ASSUME NEW a, a # Nil, Push(p, a) PROVE Filled(stack', Floor(n), sp')
  <2>1. CASE p < StackSize /\ stack' = [stack EXCEPT ![p] = a] /\ sp' = p + 1
    <3>1. ASSUME NEW i \in Floor(n)..(sp' - 1), i < StackSize PROVE stack'[i] # Nil
      <4>1. i \in 0..(StackSize - 1) /\ (i = p \/ i \in Floor(n)..(sp - 1))
        BY <1>4, <1>6, <2>1, <3>1
      <4>2. stack'[i] = IF i = p THEN a ELSE stack[i]
        BY <1>6, <2>1, <4>1 DEF Slots
      <4> QED BY <1>7, <1>8, <3>1, <4>1, <4>2 DEF Filled
    <3> QED BY <3>1 DEF Filled
  <2>2. CASE sp' = p /\ UNCHANGED stack
    <3>1. Floor(n)..(sp' - 1) \subseteq Floor(n)..(sp - 1)
      BY <1>4, <1>6, <2>2
    <3> QED BY <1>7, <2>2, <3>1 DEF Filled
  <2> QED BY <1>8, <2>1, <2>2 DEF Push
<1>9. CASE outcome.is = "ref" /\ Continue /\ Push(p, outcome.ref) /\ UNCHANGED heap
  <2>1. Filled(stack', Floor(n), sp')
    BY <1>4, <1>8, <1>9 DEF Spares
  <2>2. Later(heap, heap') /\ heap' = heap /\ \A a \in 1..Len(heap') : ~ (a > Len(heap))
    BY <1>6, <1>9, SameHeap
  <2> QED BY <1>4, <1>5, <1>9, <2>1, <2>2, NoNilInFrame DEF Continue, n
<1>10. CASE outcome.is = "new" /\ Continue /\ heap' = Append(heap, outcome.obj)
            /\ Push(p, Len(heap) + 1)
  <2>1. Len(heap) + 1 # Nil
    BY <1>6 DEF Nil
  <2>2. Filled(stack', Floor(n), sp')
    BY <1>8, <1>10, <2>1
  <2>3. Later(heap, heap') /\ Len(heap') = Len(heap) + 1 /\ heap'[Len(heap) + 1] = outcome.obj
    BY <1>6, <1>10, AppendLater
  <2>4. ASSUME NEW a \in 1..Len(heap'), a > Len(heap) PROVE Avoids(heap'[a], Nil)
    <3>1. a = Len(heap) + 1
      BY <1>6, <2>3, <2>4
    <3> QED BY <1>4, <1>10, <2>3, <3>1 DEF Spares
  <2> QED BY <1>4, <1>5, <1>10, <2>2, <2>3, <2>4, NoNilInFrame DEF Continue, n
<1>11. CASE outcome.is = "error" /\ Continue /\ Fail(p) /\ UNCHANGED heap
  <2>1. Floor(n)..(sp' - 1) \subseteq Floor(n)..(sp - 1) /\ stack' = stack
    BY <1>4, <1>6, <1>11 DEF Fail
  <2>2. Filled(stack', Floor(n), sp')
    BY <1>7, <2>1 DEF Filled
  <2>3. Later(heap, heap') /\ heap' = heap /\ \A a \in 1..Len(heap') : ~ (a > Len(heap))
    BY <1>6, <1>11, SameHeap
  <2> QED BY <1>4, <1>5, <1>11, <2>2, <2>3, NoNilInFrame DEF Continue, n
<1>12. CASE UNCHANGED << heap, frames, stack, sp >>
  BY <1>12 DEF NoNilInUse, Floor, FunctionOf
<1> QED BY <1>4, <1>9, <1>10, <1>11, <1>12 DEF Deliver

(* What is taken leaves no nil.                                            *)
LEMMA NoNilMoved ==
  ASSUME Inv, Inv', RunsCertified, Moves, NoNilInUse
  PROVE  NoNilInUse'
<1> DEFINE n == Len(frames)
<1>1. \A i \in 0..(StackSize - 1) : i < Frame.bp => stack'[i] = stack[i]
  BY MovesStay
<1>2. /\ Running /\ Op \in {"OpSetGlobal", "OpSetLocal", "OpPop", "OpJump", "OpJumpNotTruthy"}
      /\ UNCHANGED heap
      /\ stack' = stack \/ (Op = "OpSetLocal" /\ stack' = [stack EXCEPT ![LocalSlot(Operand)] = Peek(1)])
      /\ sp' \in {sp, sp - 1}
  <2>1. \E ops : Executes(ops) /\ ops \subseteq {"OpSetGlobal", "OpSetLocal", "OpPop", "OpJump", "OpJumpNotTruthy"}
    BY DEF Moves, SetGlobal, SetLocal, Pop, Jumped, MoveIp, Jump, JumpNotTruthy
  <2>2. Running /\ Op \in {"OpSetGlobal", "OpSetLocal", "OpPop", "OpJump", "OpJumpNotTruthy"}
    BY <2>1, Fetched
  <2>3. SetLocal => Op = "OpSetLocal"
    BY Fetched DEF SetLocal
  <2> QED BY <2>2, <2>3 DEF Moves, SetGlobal, SetLocal, Pop, Jumped, MoveIp, Jump, JumpNotTruthy
<1>3. \E ip \in Nat \cup {-1} : frames' = Goto(ip)
  <2>1. LastByte \in Nat /\ (Operand \in Nat \/ Op = "OpPop")
    BY <1>2, MovesLead
  <2>2. CASE SetGlobal \/ SetLocal \/ Pop
    BY <2>1, <2>2 DEF SetGlobal, SetLocal, Pop, Continue
  <2>3. CASE Jumped \/ JumpNotTruthy
    <3>1. Op # "OpPop"
      BY <2>3, Fetched DEF Jumped, MoveIp, Jump, JumpNotTruthy
    <3>2. LastByte \in Nat \cup {-1} /\ Operand - 1 \in Nat \cup {-1}
      BY <2>1, <3>1
    <3> QED BY <2>3, <3>2 DEF Jumped, MoveIp, Jump, JumpNotTruthy
  <2> QED BY <2>2, <2>3 DEF Moves
<1>4. /\ Len(heap) \in Nat /\ StackSize \in Nat /\ stack \in Slots(StackSize, heap)
      /\ Floor(n) \in Nat /\ sp \in Nat /\ n \in 1..n /\ Frame.bp \in Nat
      /\ Floor(n) = Frame.bp + Fn.numLocals /\ Fn.numLocals \in Nat
  <2>1. n \in 1..MaxFrames /\ MaxFrames \in Nat
    BY CurrentFrame, SizesAssumption
  <2>2. n \in 1..n /\ HeapOK(heap) /\ FramesOK(heap, frames)
    BY <2>1, InvParts
  <2>3. Fn.numLocals \in Nat /\ Floor(n) = Frame.bp + Fn.numLocals
    BY <2>2, FrameFields, Words DEF Frame, FloorOf
  <2> QED BY <1>2, <2>2, <2>3, Standing, InvParts, SizesAssumption, CurrentFrame DEF HeapOK
<1>5. Filled(stack, Floor(n), sp)
  BY TemporariesFilled
<1>6. ASSUME NEW i \in Floor(n)..(sp' - 1), i < StackSize PROVE stack'[i] # Nil
  <2>1. i \in Floor(n)..(sp - 1) /\ i \in 0..(StackSize - 1)
    <3>1. /\ sp' \in Int /\ sp' <= sp /\ sp \in Nat /\ Floor(n) \in Nat /\ StackSize \in Nat
          /\ i \in Floor(n)..(sp' - 1) /\ i < StackSize
      <4>1. sp' \in {sp, sp - 1} /\ sp \in Nat
        BY <1>2, <1>4
      <4>2. sp' \in Int /\ sp' <= sp
        BY <4>1
      <4>3. Floor(n) \in Nat /\ StackSize \in Nat
        BY <1>4
      <4>4. i \in Floor(n)..(sp' - 1) /\ i < StackSize
        BY <1>6
      <4> QED BY <4>1, <4>2, <4>3, <4>4
    <3>2. \A l, s, z \in Nat, e \in Int : e <= s =>
            \A j \in l..(e - 1) : j < z => j \in l..(s - 1) /\ j \in 0..(z - 1)
      OBVIOUS
    <3> HIDE DEF n
    <3> QED BY <3>1, <3>2
  <2>2. Op = "OpSetLocal" => i # LocalSlot(Operand)
    <3>1. Op = "OpSetLocal" => Operand < Fn.numLocals /\ Operand \in Nat
      BY <1>2, NothingMissing
    <3> QED BY <1>4, <2>1, <3>1 DEF LocalSlot
  <2>3. stack'[i] = stack[i]
    BY <1>2, <1>4, <2>1, <2>2 DEF Slots
  <2> QED BY <1>5, <1>6, <2>1, <2>3 DEF Filled
<1>7. Filled(stack', Floor(n), sp')
  BY <1>6 DEF Filled
<1>8. Later(heap, heap') /\ heap' = heap /\ \A a \in 1..Len(heap') : ~ (a > Len(heap))
  BY <1>2, <1>4, SameHeap
<1> QED BY <1>1, <1>3, <1>7, <1>8, NoNilInFrame

(* A called function starts without temporaries, and its caller keeps the  *)
(* ones below.                                                             *)
LEMMA NoNilCalled ==
  ASSUME Inv, Inv', RunsCertified, CallClosure, NoNilInUse
  PROVE  NoNilInUse'
<1> DEFINE n == Len(frames)
           bp == sp - Operand
           f == NewFrame(Callee, bp)
<1>1. /\ Executes({"OpCall"}) /\ frames' = Append(Goto(LastByte), f)
      /\ sp' = bp + heap[heap[Callee].fn].numLocals
      /\ UNCHANGED << heap, stack >>
  BY DEF CallClosure
<1>2. Op = "OpCall" /\ Running /\ LastByte \in Nat \cup {-1} /\ LastByte \in Nat /\ Operand \in Nat
  BY <1>1, Fetched DEF NarrowOps
<1>3. Inv' /\ RunsCertified' /\ Len(frames') \in Nat /\ n \in Nat /\ n \in 1..n /\ StackSize \in Nat
      /\ sp \in Nat /\ HeapOK(heap') /\ FramesOK(heap', frames') /\ HeapOK(heap)
      /\ FramesOK(heap, frames) /\ Frame = frames[n]
  <2>1. RunsCertified'
    BY CallStays
  <2>2. Len(frames) \in 1..MaxFrames /\ MaxFrames \in Nat /\ StackSize \in Nat
    BY CurrentFrame, SizesAssumption
  <2>3. /\ HeapOK(heap) /\ FramesOK(heap, frames) /\ sp \in Nat
        /\ heap' = heap
    BY <1>1, InvParts
  <2>4. FramesOK(heap, frames')
    <3>1. /\ frames' \in Seq([cl : 1..Len(heap'), ip : Nat \cup {-1}, bp : Nat])
          /\ Len(frames') \in 1..MaxFrames
          /\ \A k \in 1..Len(frames') : Is(heap', frames'[k].cl, "CLOSURE")
          /\ \A k \in 1..Len(frames') : frames'[k].bp = 0 <=> k = 1
      BY DEF Inv, TypeOK
    <3> QED BY <2>3, <3>1 DEF FramesOK
  <2>5. Len(frames') \in 1..MaxFrames
    BY <2>4 DEF FramesOK
  <2> QED BY <2>1, <2>2, <2>3, <2>4, <2>5 DEF Frame
<1>4. f \in FrameSet(heap) /\ f.bp = bp /\ f.cl = Callee
  <2>1. frames'[Len(frames')] = f
    <3>1. Goto(LastByte) \in Seq(FrameSet(heap))
      BY <1>2, GotoFields
    <3> HIDE DEF f
    <3> QED BY <1>1, <3>1
  <2>2. frames'[Len(frames')] \in FrameSet(heap')
    <3>1. Len(frames') \in 1..Len(frames')
      BY <1>3 DEF FramesOK
    <3> QED BY <1>3, <3>1, FrameFields
  <2>3. f \in FrameSet(heap)
    BY <1>1, <2>1, <2>2
  <2> QED BY <2>3 DEF NewFrame
<1> HIDE DEF n, bp, f
<1>5. /\ Len(frames') = n + 1 /\ frames'[n + 1] = f
      /\ \A k \in 1..n : frames'[k].cl = frames[k].cl /\ frames'[k].bp = frames[k].bp
  <2> DEFINE g == Goto(LastByte)
  <2>1. \A k \in 1..n : g[k].cl = frames[k].cl /\ g[k].bp = frames[k].bp
    BY <1>2, GotoFields DEF n
  <2>2. /\ Len(Append(g, f)) = n + 1 /\ Append(g, f)[n + 1] = f
        /\ \A k \in 1..n : Append(g, f)[k] = g[k]
    BY <1>2, <1>4, CallFields DEF n
  <2> HIDE DEF g
  <2>3. frames' = Append(g, f)
    BY <1>1 DEF g
  <2> QED BY <2>1, <2>2, <2>3
<1>6. /\ \A k \in 1..n : Filled(stack, FloorOf(heap, frames[k]), TopOf(frames, sp, k))
      /\ AllAvoid(heap, Nil)
  BY NoNilWords DEF n
<1>7. ASSUME NEW k \in 1..Len(frames')
      PROVE  Filled(stack', FloorOf(heap', frames'[k]), TopOf(frames', sp', k))
  <2>1. k \in 1..n \/ k = n + 1
    BY <1>3, <1>5
  <2>2. CASE k = n + 1
    <3>1. FnOf(heap, f) = heap[heap[Callee].fn]
      BY <1>4 DEF FnOf
    <3>2. FloorOf(heap', frames'[k]) = sp' /\ TopOf(frames', sp', k) = sp'
      BY <1>1, <1>4, <1>5, <2>2, <3>1 DEF FloorOf, TopOf
    <3>3. sp' \in Nat
      BY <1>3 DEF Inv, TypeOK
    <3>4. \A m \in Nat : \A i \in m..(m - 1) : FALSE
      OBVIOUS
    <3>5. \A i \in sp'..(sp' - 1) : FALSE
      BY <3>3, <3>4
    <3> QED BY <3>2, <3>5 DEF Filled
  <2>3. CASE k \in 1..n
    <3>1. /\ FloorOf(heap', frames'[k]) = FloorOf(heap, frames[k])
          /\ FloorOf(heap, frames[k]) \in Nat /\ k + 1 \in 1..(n + 1) /\ k # n + 1
      <4>1. heap' = heap /\ frames'[k].cl = frames[k].cl /\ frames'[k].bp = frames[k].bp
        BY <1>1, <1>5, <2>3
      <4>2. k + 1 \in 1..(n + 1) /\ k # n + 1
        BY <1>3, <2>3
      <4>3. FloorOf(heap, frames[k]) \in Nat
        BY <1>3, <2>3, FrameFields DEF n
      <4>4. FnOf(heap', frames'[k]) = FnOf(heap, frames[k])
        BY <4>1 DEF FnOf
      <4>5. FloorOf(heap', frames'[k]) = FloorOf(heap, frames[k])
        BY <4>1, <4>4 DEF FloorOf
      <4> QED BY <4>2, <4>3, <4>5
    <3>2. TopOf(frames', sp', k) = frames'[k + 1].bp
      BY <1>5, <3>1 DEF TopOf
    <3>3. CASE k = n
      <4>1. frames'[k + 1].bp = bp /\ TopOf(frames, sp, k) = sp
        BY <1>4, <1>5, <3>3 DEF TopOf, n
      <4>2. \A i \in FloorOf(heap, frames[k])..(bp - 1) : i \in FloorOf(heap, frames[k])..(sp - 1)
        BY <1>2, <1>3, <3>1 DEF bp
      <4> QED BY <1>1, <1>6, <2>3, <3>1, <3>2, <4>1, <4>2 DEF Filled
    <3>4. CASE k # n
      <4>1. k + 1 \in 1..n
        BY <1>3, <2>3, <3>4
      <4>2. TopOf(frames, sp, k) = frames[k + 1].bp /\ frames'[k + 1].bp = frames[k + 1].bp
        BY <1>5, <3>4, <4>1 DEF TopOf, n
      <4> QED BY <1>1, <1>6, <2>3, <3>1, <3>2, <4>2
    <3> QED BY <3>3, <3>4
  <2> QED BY <2>1, <2>2, <2>3
<1>8. AllAvoid(heap', Nil)
  BY <1>1, <1>6
<1> QED BY <1>7, <1>8, NoNilWords

(* The value of a call is no nil.                                          *)
LEMMA NoNilReturned ==
  ASSUME Inv, Inv', RunsCertified, Return, NoNilInUse
  PROVE  NoNilInUse'
<1> DEFINE n == Len(frames)
           a == IF Op = "OpReturnValue" THEN Peek(1) ELSE Null
<1>1. /\ ReturnSlot \in 0..(StackSize - 1) /\ sp' = ReturnSlot + 1
      /\ stack' = [stack EXCEPT ![ReturnSlot] = a]
      /\ Frame.bp > 0 /\ frames' = SubSeq(frames, 1, n - 1) /\ heap' = heap
  BY ReturnStays
<1>2. Running /\ InRange /\ Op \in {"OpReturnValue", "OpReturn"}
  BY Fetched DEF Return
<1>3. a # Nil
  <2>1. Clear(Nil)
    BY <1>2, NilIsClear
  <2>2. Op = "OpReturnValue" => 1 \in 1..Reads
    BY DEF Reads
  <2> QED BY <2>1, <2>2 DEF Clear
<1> HIDE DEF a
<1>4. /\ n \in Nat /\ n - 1 \in 1..n /\ Len(frames') = n - 1
      /\ \A k \in 1..(n - 1) : frames'[k] = frames[k]
      /\ HeapOK(heap) /\ FramesOK(heap, frames) /\ StackSize \in Nat /\ stack \in Slots(StackSize, heap)
      /\ Frame = frames[n] /\ Frame.bp \in Nat
  BY <1>1, ReturnFields, InvParts, SizesAssumption, CurrentFrame DEF Frame
<1>5. \A i \in 0..(StackSize - 1) : stack'[i] = IF i = ReturnSlot THEN a ELSE stack[i]
  BY <1>1, <1>4 DEF Slots
<1>6. /\ \A k \in 1..n : Filled(stack, FloorOf(heap, frames[k]), TopOf(frames, sp, k))
      /\ AllAvoid(heap, Nil)
  BY NoNilWords
<1>7. sp' = frames[n].bp
  BY <1>1, <1>4 DEF ReturnSlot
<1> HIDE DEF n
<1>8. ASSUME NEW k \in 1..Len(frames')
      PROVE  Filled(stack', FloorOf(heap', frames'[k]), TopOf(frames', sp', k))
  <2>1. k \in 1..(n - 1) /\ k \in 1..n /\ k # n
    BY <1>4
  <2>2. frames'[k] = frames[k] /\ TopOf(frames, sp, k) = frames[k + 1].bp
    BY <1>4, <2>1 DEF TopOf, n
  <2>3. TopOf(frames', sp', k) = frames[k + 1].bp
    <3>1. CASE k = n - 1
      <4>1. k + 1 = n
        BY <1>4, <3>1
      <4> QED BY <1>4, <1>7, <3>1, <4>1 DEF TopOf
    <3>2. CASE k # n - 1
      <4>1. k + 1 \in 1..(n - 1)
        BY <1>4, <2>1, <3>2
      <4> QED BY <1>4, <3>2, <4>1 DEF TopOf
    <3> QED BY <3>1, <3>2
  <2>4. Filled(stack, FloorOf(heap, frames[k]), frames[k + 1].bp)
    BY <1>6, <2>1, <2>2
  <2>5. FloorOf(heap, frames[k]) \in Nat
    BY <1>4, <2>1, FrameFields DEF n
  <2>6. ASSUME NEW i \in FloorOf(heap, frames[k])..(frames[k + 1].bp - 1), i < StackSize
        PROVE  stack'[i] # Nil
    <3>1. i \in 0..(StackSize - 1)
      BY <1>4, <2>5, <2>6
    <3>2. stack[i] # Nil
      BY <2>4, <2>6 DEF Filled
    <3> QED BY <1>3, <1>5, <3>1, <3>2
  <2> QED BY <1>1, <2>2, <2>3, <2>6 DEF Filled
<1>9. AllAvoid(heap', Nil)
  BY <1>1, <1>6
<1> QED BY <1>8, <1>9, NoNilWords

(* nil comes into use only where a variable is read that was never         *)
(* written, whatever else the program does.                                *)
THEOREM NilIsUnsetVariables == Spec /\ CodeIsCertified => NilComesFromUnsetVariables
<1>1. ASSUME CertifiedInv, [Next]_vars, NoNilInUse, ~ (Running /\ Op \in {"OpGetLocal", "OpGetGlobal"})
      PROVE  NoNilInUse'
  <2>1. Inv /\ RunsCertified /\ Inv'
    BY <1>1, NextKeepsInv DEF CertifiedInv
  <2>2. CASE Delivering
    <3>1. Op \notin {"OpGetLocal", "OpGetGlobal"}
      BY <1>1, <2>1, <2>2, DeliveringDelivers
    <3> QED BY <1>1, <2>1, <2>2, <3>1, NoNilDelivered
  <2>3. CASE Moves
    BY <1>1, <2>1, <2>3, NoNilMoved
  <2>4. CASE CallClosure
    BY <1>1, <2>1, <2>4, NoNilCalled
  <2>5. CASE Return
    BY <1>1, <2>1, <2>5, NoNilReturned
  <2>6. CASE Halt \/ Crash \/ UNCHANGED vars
    <3>1. UNCHANGED << heap, frames, stack, sp >>
      BY <2>6 DEF Halt, Crash, vars
    <3> QED BY <1>1, <3>1 DEF NoNilInUse, Floor, FunctionOf
  <2>7. ~ Skipped
    BY <2>1, NothingSkipped
  <2> QED BY <1>1, <2>2, <2>3, <2>4, <2>5, <2>6, <2>7, Kinds DEF Stopped
<1>2. CertifiedInv /\ [Next]_vars =>
        [NoNilInUse /\ ~ (Running /\ Op \in {"OpGetLocal", "OpGetGlobal"}) => NoNilInUse']_vars
  BY <1>1
<1> QED BY <1>2, CertifiedInvariance, PTL DEF Spec, NilComesFromUnsetVariables

-----------------------------------------------------------------------------
(* From the bytecode that a machine is given to the machine.               *)

(* New keeps the constants of the bytecode, in their order.                *)
LEMMA ConstantsInHeap ==
  ASSUME NEW c \in Seq(ConstantObjects), NEW fn, NEW cl, NEW i \in 1..Len(c)
  PROVE  FirstObjects(c, fn, cl)[10 + i] = c[i]
<1> DEFINE T == {SharedObjects[j] : j \in 1..10} \cup ConstantObjects \cup {fn, cl}
           s == SharedObjects
           e == << fn, cl >>
<1>1. s \in Seq(T) /\ Len(s) = 10
  <2>1. \A j \in 1..10 : SharedObjects[j] \in T
    OBVIOUS
  <2> HIDE DEF T
  <2> QED BY <2>1, Shared
<1>2. c \in Seq(T) /\ Len(c) \in Nat
  <2>1. ConstantObjects \subseteq T
    OBVIOUS
  <2> HIDE DEF T
  <2> QED BY <2>1
<1>3. e \in Seq(T) /\ Len(e) = 2
  OBVIOUS
<1> HIDE DEF T, s, e
<1>4. /\ s \o c \in Seq(T) /\ Len(s \o c) = Len(s) + Len(c)
      /\ \A j \in 1..(Len(s) + Len(c)) :
           (s \o c)[j] = IF j <= Len(s) THEN s[j] ELSE c[j - Len(s)]
  BY <1>1, <1>2, ConcatProperties
<1>5. /\ 10 + i \in 1..(Len(s) + Len(c)) /\ 10 + i \in 1..(Len(s \o c) + Len(e))
      /\ 10 + i <= Len(s \o c) /\ ~ (10 + i <= Len(s)) /\ (10 + i) - Len(s) = i
  BY <1>1, <1>2, <1>3, <1>4
<1>6. (s \o c)[10 + i] = c[i]
  BY <1>4, <1>5
<1>7. \A j \in 1..(Len(s \o c) + Len(e)) :
        ((s \o c) \o e)[j] = IF j <= Len(s \o c) THEN (s \o c)[j] ELSE e[j - Len(s \o c)]
  <2> DEFINE sc == s \o c
  <2>1. sc \in Seq(T)
    BY <1>4
  <2> HIDE DEF sc
  <2>2. \A j \in 1..(Len(sc) + Len(e)) :
          (sc \o e)[j] = IF j <= Len(sc) THEN sc[j] ELSE e[j - Len(sc)]
    BY <1>3, <2>1, ConcatProperties
  <2> QED BY <2>2 DEF sc
<1>8. ((s \o c) \o e)[10 + i] = c[i]
  BY <1>5, <1>6, <1>7
<1> QED BY <1>8 DEF FirstObjects, s, e

(* Code that is certified over the constants of a compiler is certified    *)
(* over the heap that holds them.                                          *)
LEMMA CodeInHeap ==
  ASSUME NEW c \in Seq(ConstantObjects), NEW h, NEW cs, Len(cs) = Len(c),
         \A i \in 1..Len(c) : cs[i] = 10 + i /\ h[10 + i] = c[i],
         NEW fn, fn.ins \in Seq(ByteValues), CertifiedCode(c, [i \in 1..Len(c) |-> i], fn)
  PROVE  CertifiedCode(h, cs, fn)
<1> DEFINE js == [i \in 1..Len(c) |-> i]
<1>1. Len(js) = Len(c) /\ \A i \in 1..Len(c) : js[i] = i
  OBVIOUS
<1> HIDE DEF js
<1>2. CertifiedCode(c, js, fn)
  BY DEF js
<1>3. ASSUME NEW p \in Reached(fn.ins) PROVE Addresses(h, cs, fn, p)
  <2>1. Addresses(c, js, fn, p)
    BY <1>2 DEF CertifiedCode
  <2>2. ASSUME OpAt(fn.ins, p) = "OpClosure"
        PROVE  /\ Is(h, cs[ArgsAt(fn.ins, p)[1] + 1], "COMPILED_FUNCTION")
               /\ h[cs[ArgsAt(fn.ins, p)[1] + 1]] = c[js[ArgsAt(fn.ins, p)[1] + 1]]
    <3> DEFINE arg == ArgsAt(fn.ins, p)[1]
    <3>1. WholeInstruction(fn.ins, p) /\ p \in Nat
      BY <1>2 DEF Reached, CertifiedCode, Balanced
    <3>2. arg \in Nat
      <4>1. OpAt(fn.ins, p) = Opcodes[fn.ins[p + 1] + 1]
        BY DEF OpAt
      <4> QED BY <2>2, <3>1, <4>1, InstructionOperands DEF ArgsAt
    <3>3. arg < Len(js) /\ Is(c, js[arg + 1], "COMPILED_FUNCTION")
      BY <2>1, <2>2 DEF Addresses
    <3> HIDE DEF arg
    <3>4. arg + 1 \in 1..Len(c)
      BY <1>1, <3>2, <3>3
    <3>5. js[arg + 1] = arg + 1 /\ cs[arg + 1] = 10 + (arg + 1) /\ h[10 + (arg + 1)] = c[arg + 1]
      BY <1>1, <3>4
    <3>6. 10 + (arg + 1) # 0
      BY <3>2
    <3>7. c[js[arg + 1]].t = "COMPILED_FUNCTION"
      BY <3>3 DEF Is
    <3> QED BY <3>5, <3>6, <3>7 DEF arg, Is, Nil
  <2> QED BY <1>1, <2>1, <2>2 DEF Addresses
<1> QED BY <1>2, <1>3 DEF CertifiedCode

(* A machine that New makes of certified bytecode starts on certified code.*)
LEMMA CertifiedStart ==
  ASSUME Init, \A p \in Programs : CertifiedBytecode(p)
  PROVE  CodeIsCertified
<1>1. PICK p \in Programs : InitWith(p)
  BY DEF Init
<1> DEFINE c == p.constants
           fn == CompiledFunction(p.instructions, 0, 0)
           cl == Closure(Len(c) + 11, << >>)
           js == [i \in 1..Len(c) |-> i]
<1>2. c \in Seq(ConstantObjects) /\ Len(c) \in Nat /\ Len(SharedObjects) = 10
      /\ p.instructions \in Seq(ByteValues)
  BY ProgramsAssumption, Shared
<1>3. /\ heap = FirstObjects(c, fn, cl)
      /\ constants = [i \in 1..Len(c) |-> 10 + i]
      /\ frames = << NewFrame(Len(c) + 12, 0) >>
  <2>1. 10 + Len(c) + 1 = Len(c) + 11 /\ 10 + Len(c) + 2 = Len(c) + 12
    BY <1>2
  <2> QED BY <1>1, <1>2, <2>1 DEF InitWith, FirstObjects
<1>4. /\ fn.ins = p.instructions /\ cl.fn = Len(c) + 11
      /\ frames[1].cl = Len(c) + 12
  BY <1>3 DEF CompiledFunction, Closure, NewFrame
<1>5. /\ \A i \in 1..Len(c) :
           c[i].t = "COMPILED_FUNCTION" => CertifiedFunction(c, js, c[i])
      /\ CertifiedProgram(c, js, fn)
  BY DEF CertifiedBytecode
<1> HIDE DEF c, fn, cl
<1>6. FirstLayout(heap, c, fn, cl)
  BY <1>2, <1>3, FirstHeap
<1>7. heap[Len(c) + 11] = fn /\ heap[Len(c) + 12] = cl
  BY <1>6 DEF FirstLayout
<1>8. FunctionOf(1) = fn
  BY <1>4, <1>7 DEF FunctionOf
<1>9. Len(constants) = Len(c) /\ \A i \in 1..Len(c) : constants[i] = 10 + i
  BY <1>2, <1>3
<1>10. \A i \in 1..Len(c) : heap[10 + i] = c[i]
  BY <1>2, <1>3, ConstantsInHeap
<1> HIDE DEF js
<1>11. ASSUME NEW i \in 1..Len(constants), Is(heap, constants[i], "COMPILED_FUNCTION")
       PROVE  CertifiedFunction(heap, constants, heap[constants[i]])
  <2>1. heap[constants[i]] = c[i] /\ c[i].t = "COMPILED_FUNCTION"
    BY <1>9, <1>10, <1>11 DEF Is
  <2>2. CertifiedFunction(c, js, c[i])
    BY <1>5, <1>9, <2>1
  <2>3. c[i].ins \in Seq(ByteValues)
    <3>1. c[i] \in ConstantObjects
      BY <1>2, <1>9, ElementOfSeq
    <3> QED BY <2>1, <3>1 DEF ConstantObjects
  <2>4. CertifiedCode(heap, constants, c[i])
    BY <1>2, <1>9, <1>10, <2>2, <2>3, CodeInHeap DEF CertifiedFunction, js
  <2> QED BY <2>1, <2>2, <2>4 DEF CertifiedFunction
<1>12. CertifiedProgram(heap, constants, fn)
  <2>1. CertifiedCode(heap, constants, fn)
    BY <1>2, <1>4, <1>5, <1>9, <1>10, CodeInHeap DEF CertifiedProgram, js
  <2> QED BY <1>5, <2>1 DEF CertifiedProgram
<1> QED BY <1>8, <1>11, <1>12 DEF CodeIsCertified

(* The check of the bytecode alone is enough: a machine of certified       *)
(* bytecode keeps its depths and panics for known reasons only, and so     *)
(* does everything above that asks for CodeIsCertified hold of it.         *)
THEOREM CertifiedBytecodeRuns ==
  ASSUME \A p \in Programs : CertifiedBytecode(p)
  PROVE  Spec => [](CodeIsCertified /\ RunsCertified /\ OnlyKnownPanics)
<1>1. Init => CodeIsCertified
  BY CertifiedStart
<1>2. Spec => CodeIsCertified
  BY <1>1 DEF Spec
<1>3. CertifiedInv => CodeIsCertified /\ RunsCertified /\ OnlyKnownPanics
  BY DEF CertifiedInv, RunsCertified
<1> QED BY <1>2, <1>3, CertifiedInvariance, PTL
=============================================================================
