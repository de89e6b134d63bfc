---------------------------------- MODULE VM ----------------------------------
(***************************************************************************)
(* vm/vm.go: the stack machine.  One step is one turn of the loop of Run:  *)
(* fetch the instruction after ip, then the whole case of its opcode.      *)
(*                                                                         *)
(* status tells how Run ended: "halted" (it returned nil), "error" (it     *)
(* returned an error) or "crashed" (a Go panic).  The state in which a     *)
(* panic occurs is kept as it was before the instruction.                  *)
(***************************************************************************)
EXTENDS Bytecode, Objects, Limits

CONSTANT Programs      \* the Bytecode records to run: instructions and constants

ConstantObjects ==
  [t : {"INTEGER"}, n : Int64] \cup [t : {"STRING"}, s : Seq(STRING)]
  \cup [ t : {"COMPILED_FUNCTION"}, ins : Seq(ByteValues),
         numLocals : Nat, numParameters : Nat ]

ASSUME ProgramsAssumption ==
  \A p \in Programs : /\ p.instructions \in Seq(ByteValues)
                      /\ p.constants \in Seq(ConstantObjects)

VARIABLES
  heap,         \* the objects, see Objects
  constants,    \* references of the constants
  frames,       \* the frames in use, current last; Len(frames) is frameIdx + 1
  stack,        \* references, a function on 0 .. StackSize - 1
  sp,           \* the next free slot
  globals,
  status

vars == << heap, constants, frames, stack, sp, globals, status >>

(* Mutants of NewFrame: the callee counted among the arguments, the first  *)
(* argument not counted.                                                   *)
FrameAtCallee(cl, basePointer)  == [cl |-> cl, ip |-> -1, bp |-> basePointer - 1]
FrameAfterFirst(cl, basePointer) == [cl |-> cl, ip |-> -1, bp |-> basePointer + 1]

NewFrame(cl, basePointer) == [cl |-> cl, ip |-> -1, bp |-> basePointer]

-----------------------------------------------------------------------------
(* The instruction after ip.                                               *)
Frame      == frames[Len(frames)]
Fn         == heap[heap[Frame.cl].fn]
Free       == heap[Frame.cl].free
Lip        == Frame.ip + 1
Op         == Opcodes[Fn.ins[Lip + 1] + 1]
Operands   == ReadOperands(Op, Fn.ins, Lip)
Operand    == Operands[1]

Running  == status = "running" /\ Frame.ip < Len(Fn.ins) - 1
IsOpcode == Fn.ins[Lip + 1] < 30

(* Mutant of LocalSlot: the base pointer left out.                         *)
AbsoluteSlot(i) == i

(* Where local i of the current frame is.                                  *)
LocalSlot(i) == Frame.bp + i

(* Mutant of ReturnSlot: the callee left below the value.                  *)
SlotAboveCallee == Frame.bp

(* Where the value of a call goes: the callee's slot.                      *)
ReturnSlot == Frame.bp - 1

(* Where ip is when the instruction is done, unless it jumps.              *)
LastByte == Lip + InstructionLen(Op) - 1

Peek(n) == stack[sp - n]     \* Peek(1) is the top of the stack

(* The n topmost values, in the order they were pushed.                    *)
TopValues(n) == [i \in 1..n |-> stack[sp - n - 1 + i]]

IsFunctionConstant == heap[constants[Operand + 1]].t = "COMPILED_FUNCTION"

(* The values an instruction takes from the stack.                         *)
Reads ==
  CASE Op \in {"OpAdd", "OpSub", "OpMul", "OpDiv", "OpEqual", "OpNotEqual",
               "OpGreaterThan", "OpIndex"}                     -> 2
    [] Op \in {"OpSetGlobal", "OpSetLocal", "OpPop", "OpMinus", "OpBang",
               "OpJumpNotTruthy", "OpReturnValue"}             -> 1
    [] Op \in {"OpArray", "OpHash"}                            -> Operand
    [] Op = "OpCall"                                           -> Operand + 1
    [] Op = "OpClosure" /\ IsFunctionConstant                  -> Operands[2]
    [] OTHER                                                   -> 0

Callee == Peek(Operand + 1)

CallsClosure ==
  Is(heap, Callee, "CLOSURE") /\ heap[heap[Callee].fn].numParameters = Operand

CallsBuiltin == Is(heap, Callee, "BUILTIN")

TakesSlice ==
  \/ Op = "OpArray"
  \/ Op = "OpClosure" /\ IsFunctionConstant
  \/ Op = "OpCall" /\ CallsBuiltin

(* The slots that an instruction reads are there.  sp is above StackSize   *)
(* only when a call has reserved its locals there.                         *)
OperandsPresent ==
  /\ Reads <= sp
  /\ Op = "OpCall" => sp - Reads < StackSize
  /\ TakesSlice \/ (Reads > 0 /\ Op # "OpCall") => sp <= StackSize

(* The indices an instruction uses are inside their slices.                *)
InRange ==
  CASE Op \in {"OpConstant", "OpClosure"}     -> Operand < Len(constants)
    [] Op \in {"OpGetGlobal", "OpSetGlobal"}  -> Operand < GlobalsSize
    [] Op \in {"OpGetLocal", "OpSetLocal"}    -> LocalSlot(Operand) < StackSize
    [] Op = "OpGetBuiltin"                    -> Operand < Len(BuiltinNames)
    [] Op = "OpGetFree"                       -> Operand < Len(Free)
    [] Op \in {"OpReturnValue", "OpReturn"}   -> Frame.bp > 0
    [] OTHER                                  -> TRUE

FrameAvailable == Op = "OpCall" /\ CallsClosure => Len(frames) < MaxFrames

(* A jump that is not taken does not read its operand.                     *)
JumpsNot == Op = "OpJumpNotTruthy" /\ sp \in 1..StackSize /\ IsTruthy(Peek(1))

CanExecute ==
  /\ WholeInstruction(Fn.ins, Lip) \/ JumpsNot
  /\ InRange /\ OperandsPresent /\ FrameAvailable

Executes(ops) == Running /\ IsOpcode /\ Op \in ops /\ CanExecute

-----------------------------------------------------------------------------
(* What the cases of Run have in common.                                   *)
Goto(ip) == [frames EXCEPT ![Len(frames)].ip = ip]

Continue == frames' = Goto(LastByte)

(* push at slot p of what an operation came to; p is sp less what was      *)
(* popped, and stays so when the operation fails or the stack is full.     *)
Push(p, a) ==
  \/ /\ p < StackSize
     /\ stack' = [stack EXCEPT ![p] = a]
     /\ sp' = p + 1
     /\ UNCHANGED status
  \/ /\ p >= StackSize
     /\ sp' = p
     /\ status' = "error"
     /\ UNCHANGED stack

Fail(p) == sp' = p /\ status' = "error" /\ UNCHANGED stack

Deliver(p, outcome) ==
  \/ outcome.is = "ref" /\ Continue /\ Push(p, outcome.ref) /\ UNCHANGED heap
  \/ /\ outcome.is = "new"
     /\ Continue
     /\ heap' = Append(heap, outcome.obj)
     /\ Push(p, Len(heap) + 1)
  \/ outcome.is = "error" /\ Continue /\ Fail(p) /\ UNCHANGED heap
  \/ /\ outcome.is = "panic"
     /\ status' = "crashed"
     /\ UNCHANGED << heap, frames, stack, sp >>

-----------------------------------------------------------------------------
(* New.                                                                    *)
InitWith(p) ==
  LET n == Len(SharedObjects) + Len(p.constants) IN
  /\ heap = SharedObjects \o p.constants
              \o << CompiledFunction(p.instructions, 0, 0), Closure(n + 1, << >>) >>
  /\ constants = [i \in 1..Len(p.constants) |-> Len(SharedObjects) + i]
  /\ frames = << NewFrame(n + 2, 0) >>
  /\ stack = [i \in 0..(StackSize - 1) |-> Nil]
  /\ sp = 0
  /\ globals = [i \in 0..(GlobalsSize - 1) |-> Nil]
  /\ status = "running"

Init == \E p \in Programs : InitWith(p)

PushConstant ==
  /\ Executes({"OpConstant"})
  /\ Deliver(sp, Ref(constants[Operand + 1]))
  /\ UNCHANGED << constants, globals >>

PushSingleton ==
  /\ Executes({"OpTrue", "OpFalse", "OpNull"})
  /\ Deliver(sp, Ref(CASE Op = "OpTrue" -> True
                       [] Op = "OpFalse" -> False
                       [] Op = "OpNull" -> Null))
  /\ UNCHANGED << constants, globals >>

SetGlobal ==
  /\ Executes({"OpSetGlobal"})
  /\ globals' = [globals EXCEPT ![Operand] = Peek(1)]
  /\ sp' = sp - 1
  /\ Continue
  /\ UNCHANGED << heap, constants, stack, status >>

GetGlobal ==
  /\ Executes({"OpGetGlobal"})
  /\ Deliver(sp, Ref(globals[Operand]))
  /\ UNCHANGED << constants, globals >>

(* The slot is addressed from the base pointer, wherever sp is.            *)
SetLocal ==
  /\ Executes({"OpSetLocal"})
  /\ stack' = [stack EXCEPT ![LocalSlot(Operand)] = Peek(1)]
  /\ sp' = sp - 1
  /\ Continue
  /\ UNCHANGED << heap, constants, globals, status >>

GetLocal ==
  /\ Executes({"OpGetLocal"})
  /\ Deliver(sp, Ref(stack[LocalSlot(Operand)]))
  /\ UNCHANGED << constants, globals >>

GetBuiltin ==
  /\ Executes({"OpGetBuiltin"})
  /\ Deliver(sp, Ref(BuiltinRef(Operand)))
  /\ UNCHANGED << constants, globals >>

GetFree ==
  /\ Executes({"OpGetFree"})
  /\ Deliver(sp, Ref(Free[Operand + 1]))
  /\ UNCHANGED << constants, globals >>

CurrentClosure ==
  /\ Executes({"OpCurrentClosure"})
  /\ Deliver(sp, Ref(Frame.cl))
  /\ UNCHANGED << constants, globals >>

Pop ==
  /\ Executes({"OpPop"})
  /\ sp' = sp - 1
  /\ Continue
  /\ UNCHANGED << heap, constants, stack, globals, status >>

BinaryOperation ==
  /\ Executes({"OpAdd", "OpSub", "OpMul", "OpDiv"})
  /\ Deliver(sp - 2, BinaryOutcome(heap, Op, Peek(2), Peek(1)))
  /\ UNCHANGED << constants, globals >>

Comparison ==
  /\ Executes({"OpEqual", "OpNotEqual", "OpGreaterThan"})
  /\ Deliver(sp - 2, ComparisonOutcome(heap, Op, Peek(2), Peek(1)))
  /\ UNCHANGED << constants, globals >>

MinusOperator ==
  /\ Executes({"OpMinus"})
  /\ Deliver(sp - 1, MinusOutcome(heap, Peek(1)))
  /\ UNCHANGED << constants, globals >>

BangOperator ==
  /\ Executes({"OpBang"})
  /\ Deliver(sp - 1, Ref(NativeBool(~ IsTruthy(Peek(1)))))
  /\ UNCHANGED << constants, globals >>

Jump == Executes({"OpJump"}) /\ frames' = Goto(Operand - 1)

(* A byte that is no opcode matches no case.                               *)
Skip == Running /\ ~ IsOpcode /\ frames' = Goto(Lip)

(* Turns of the loop that move ip and no more.                             *)
MoveIp ==
  /\ Jump \/ Skip
  /\ UNCHANGED << heap, constants, stack, sp, globals, status >>

JumpNotTruthy ==
  /\ Executes({"OpJumpNotTruthy"})
  /\ frames' = Goto(IF IsTruthy(Peek(1)) THEN LastByte ELSE Operand - 1)
  /\ sp' = sp - 1
  /\ UNCHANGED << heap, constants, stack, globals, status >>

BuildArray ==
  /\ Executes({"OpArray"})
  /\ Deliver(sp - Operand, New(Array(TopValues(Operand))))
  /\ UNCHANGED << constants, globals >>

(* An odd operand would read one slot above sp; the compiler emits none.   *)
BuildHash ==
  /\ Executes({"OpHash"})
  /\ Deliver(sp - Operand, HashOutcome(heap, TopValues(Operand)))
  /\ UNCHANGED << constants, globals >>

Index ==
  /\ Executes({"OpIndex"})
  /\ Deliver(sp - 2, IndexOutcome(heap, Peek(2), Peek(1)))
  /\ UNCHANGED << constants, globals >>

(* callClosure: the arguments become the first locals, the other locals    *)
(* keep what is in their slots.  Nothing compares sp with StackSize.       *)
CallClosure ==
  /\ Executes({"OpCall"})
  /\ CallsClosure
  /\ frames' = Append(Goto(LastByte), NewFrame(Callee, sp - Operand))
  /\ sp' = sp - Operand + heap[heap[Callee].fn].numLocals
  /\ UNCHANGED << heap, constants, stack, globals, status >>

CallBuiltin ==
  /\ Executes({"OpCall"})
  /\ CallsBuiltin
  /\ Deliver(sp - Operand - 1, BuiltinOutcome(heap, heap[Callee].name, TopValues(Operand)))
  /\ UNCHANGED << constants, globals >>

(* A callee of another type, or the wrong number of arguments.             *)
CallFails ==
  /\ Executes({"OpCall"})
  /\ ~ CallsClosure /\ ~ CallsBuiltin
  /\ Deliver(sp, Failed)
  /\ UNCHANGED << constants, globals >>

PushClosure ==
  /\ Executes({"OpClosure"})
  /\ \/ /\ IsFunctionConstant
        /\ Deliver(sp - Operands[2],
                   New(Closure(constants[Operand + 1], TopValues(Operands[2]))))
     \/ ~ IsFunctionConstant /\ Deliver(sp, Failed)
  /\ UNCHANGED << constants, globals >>

(* The frame is dropped with its locals, and the callee is replaced by     *)
(* the value.                                                              *)
Return ==
  /\ Executes({"OpReturnValue", "OpReturn"})
  /\ frames' = SubSeq(frames, 1, Len(frames) - 1)
  /\ Push(ReturnSlot, IF Op = "OpReturnValue" THEN Peek(1) ELSE Null)
  /\ UNCHANGED << heap, constants, globals >>

Halt ==
  /\ status = "running" /\ ~ Running
  /\ status' = "halted"
  /\ UNCHANGED << heap, constants, frames, stack, sp, globals >>

(* An index or a slice out of range, a truncated instruction's included.   *)
Crash ==
  /\ Running /\ IsOpcode /\ ~ CanExecute
  /\ status' = "crashed"
  /\ UNCHANGED << heap, constants, frames, stack, sp, globals >>

(* The process reports how Run ended and exits (runScript, runBytecode).   *)
Stopped == status # "running" /\ UNCHANGED vars

Next ==
  \/ PushConstant \/ PushSingleton
  \/ SetGlobal \/ GetGlobal \/ SetLocal \/ GetLocal
  \/ GetBuiltin \/ GetFree \/ CurrentClosure
  \/ Pop \/ BinaryOperation \/ Comparison \/ MinusOperator \/ BangOperator
  \/ MoveIp \/ JumpNotTruthy
  \/ BuildArray \/ BuildHash \/ Index
  \/ CallClosure \/ CallBuiltin \/ CallFails \/ PushClosure \/ Return
  \/ Halt \/ Crash \/ Stopped

Spec == Init /\ [][Next]_vars

(* Run is one goroutine's loop: it takes its next step.                    *)
FairSpec == Spec /\ WF_vars(Next)

-----------------------------------------------------------------------------
(* A well-formed object whose references are not above n.                  *)
Keys == [t : {"INTEGER"}, n : Int64] \cup [t : {"STRING"}, s : Seq(STRING)]
          \cup [t : {"BOOLEAN"}, b : BOOLEAN]

WellFormed(o, n) ==
  \/ o \in Keys \cup [t : {"NULL", "ERROR"}]
              \cup [t : {"BUILTIN"}, name : { BuiltinNames[i] : i \in 1..7 }]
  \/ o \in [ t : {"COMPILED_FUNCTION"}, ins : Seq(ByteValues),
             numLocals : Nat, numParameters : Nat ]
  \/ o \in [t : {"ARRAY"}, e : Seq(0..n)]
  \/ o \in [t : {"CLOSURE"}, fn : 1..n, free : Seq(0..n)]
  \/ /\ o.t = "HASH" /\ o = Hash(o.d)
     /\ DOMAIN o.d \subseteq Keys /\ o.d \in [DOMAIN o.d -> 0..n]

(* Objects refer to older objects only, closures to compiled functions;    *)
(* every reference of the machine is that of an object or nil.             *)
TypeOK ==
  /\ heap = [a \in 1..Len(heap) |-> heap[a]] /\ Len(heap) \in Nat
  /\ \A a \in 1..Len(heap) : WellFormed(heap[a], a - 1)
  /\ \A a \in 1..Len(heap) : Is(heap, a, "CLOSURE") =>
        Is(heap, heap[a].fn, "COMPILED_FUNCTION")
  /\ constants \in Seq(1..Len(heap))
  /\ frames \in Seq([cl : 1..Len(heap), ip : Nat \cup {-1}, bp : Nat])
  /\ Len(frames) \in 1..MaxFrames
  /\ \A k \in 1..Len(frames) : Is(heap, frames[k].cl, "CLOSURE")
  /\ \A k \in 1..Len(frames) : frames[k].bp = 0 <=> k = 1
  /\ stack \in [0..(StackSize - 1) -> 0..Len(heap)]
  /\ sp \in Nat
  /\ globals \in [0..(GlobalsSize - 1) -> 0..Len(heap)]
  /\ status \in {"running", "halted", "error", "crashed"}

FunctionOf(k) == heap[heap[frames[k].cl].fn]

(* The slots from the base pointer of a frame to its floor are its locals. *)
Floor(k) == frames[k].bp + FunctionOf(k).numLocals

(***************************************************************************)
(* The values an instruction takes are temporaries of its own frame, never *)
(* locals nor what lies below them: "top of the stack is stack[sp-1]"      *)
(* (vm.go:42).  The compiler has to leave exactly one value for every      *)
(* expression on every path.                                               *)
(***************************************************************************)
TemporariesAboveLocals ==
  Running /\ IsOpcode => Floor(Len(frames)) + Reads <= sp

(***************************************************************************)
(* Below every frame lie the closure it runs and then the temporaries of   *)
(* its caller, which waits behind an OpCall with as many arguments as the  *)
(* closure has parameters (callClosure, vm.go:345-356).                    *)
(***************************************************************************)
FrameLayout ==
  \A k \in 2..Len(frames) :
    LET caller == FunctionOf(k - 1).ins
        call   == frames[k - 1].ip - 1
    IN /\ frames[k].bp - 1 >= Floor(k - 1)
       /\ stack[frames[k].bp - 1] = frames[k].cl
       /\ caller[call + 1] = OpcodeByte("OpCall")
       /\ caller[call + 2] = FunctionOf(k).numParameters

(* While a function runs, and when it returns, nothing below its closure   *)
(* changes: the locals and temporaries of all its callers stay as they are. *)
CallersFrozen ==
  [][\A i \in 0..(ReturnSlot - 1) : stack'[i] = stack[i]]_vars

(* A program that runs to its end leaves no value and no frame behind.     *)
CleanHalt == status = "halted" => sp = 0 /\ Len(frames) = 1

(***************************************************************************)
(* Compiled code asks only for what is there: its instructions are whole,  *)
(* and what they address - constants, globals, captured values, locals of  *)
(* their own function - exists.  What may be missing is a frame, the       *)
(* caller of a top-level return, or the end of the stack under a local     *)
(* that callClosure reserved and nothing was stored to yet.                *)
(***************************************************************************)
CodeIsExecutable ==
  Running =>
    /\ IsOpcode
    /\ WholeInstruction(Fn.ins, Lip)
    /\ Len(frames) > 1 \/ Op # "OpReturnValue" =>
         InRange \/ (Op = "OpGetLocal" /\ sp > StackSize)
    /\ Op \in {"OpGetLocal", "OpSetLocal"} => Operand < Fn.numLocals

(* No nil is among the temporaries of a frame, in an array, a hash or a    *)
(* closure.                                                                *)
NoNilInUse ==
  /\ \A k \in 1..Len(frames) :
       \A i \in Floor(k)..((IF k = Len(frames) THEN sp ELSE frames[k + 1].bp) - 1) :
         i < StackSize => stack[i] # Nil
  /\ \A a \in 1..Len(heap) :
       /\ Is(heap, a, "ARRAY") => \A i \in DOMAIN heap[a].e : heap[a].e[i] # Nil
       /\ Is(heap, a, "HASH") => \A k \in DOMAIN heap[a].d : heap[a].d[k] # Nil
       /\ Is(heap, a, "CLOSURE") => \A i \in DOMAIN heap[a].free : heap[a].free[i] # Nil

(***************************************************************************)
(* nil comes into use only where a variable is read that was never         *)
(* written: builtins and lookups that find nothing give Null instead       *)
(* (vm.go:364-368, 392, 406), and what a call leaves on the stack is a     *)
(* value.                                                                  *)
(***************************************************************************)
NilComesFromUnsetVariables ==
  [][NoNilInUse /\ ~ (Running /\ Op \in {"OpGetLocal", "OpGetGlobal"}) => NoNilInUse']_vars

(* There is one null, one true and one false: isTruthy and == compare      *)
(* references, and so they are right about these only as long as nothing   *)
(* makes another one (vm.go:16-18, 439-442, 475).                          *)
SingletonsAreShared ==
  \A a \in 1..Len(heap) :
    /\ Is(heap, a, "NULL") => a = Null
    /\ Is(heap, a, "BOOLEAN") => a \in {True, False}

(***************************************************************************)
(* The panics of compiled programs: no frame left, locals reserved beyond  *)
(* the end of the stack, a return outside functions, a division by zero, a *)
(* hash key that is not hashable, pop of an empty array, and an operation  *)
(* on a variable that was never written, or puts of what holds such a one. *)
(* Nothing else - no missing operand, no operand of another type - takes   *)
(* the process down.                                                       *)
(***************************************************************************)
UnhashableKey ==
  /\ Op = "OpHash"
  /\ \E i \in 1..(Operand \div 2) : ~ Hashable(heap, TopValues(Operand)[2 * i - 1])

KnownPanic ==
  \/ ~ FrameAvailable
  \/ sp > StackSize
  \/ Op = "OpReturnValue" /\ Len(frames) = 1
  \/ /\ Reads <= sp
     /\ \/ \E i \in 1..Reads : Peek(i) = Nil
        \/ Op = "OpDiv" /\ heap[Peek(1)] = Integer(0)
        \/ UnhashableKey
        \/ Op = "OpCall" /\ heap[Callee].name = "pop" /\ heap[Peek(1)] = Array(<< >>)
        \/ /\ Op = "OpCall" /\ heap[Callee].name = "puts"
           /\ \E i \in 1..Operand : ~ Inspectable(heap)[Peek(i)]

OnlyKnownPanics == status = "crashed" => KnownPanic

(* A key that is not hashable is an error of the program, "unusable as     *)
(* hash key" (vm.go:418).                                                  *)
UnhashableKeyIsReported == ~ (status = "crashed" /\ UnhashableKey)

(* Every program comes to an end: jumps go forward, and recursion runs out *)
(* of frames.                                                              *)
Terminates == <>(status # "running")
=============================================================================
