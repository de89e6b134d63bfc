----------------------------- MODULE Certificate -----------------------------
(***************************************************************************)
(* What the machine takes for granted of the code it runs, as a check of   *)
(* the code alone.  Run never compares sp with the base pointer of a frame *)
(* nor a jump with the ends of an instruction: it relies on the compiler   *)
(* having left one value for every expression on every path.  A function   *)
(* is certified when every offset that control reaches has one depth of    *)
(* the stack, counted from the floor of its frame, and every instruction   *)
(* there finds its operands and addresses what exists.                     *)
(***************************************************************************)
EXTENDS Bytecode, Objects, Limits

OpAt(ins, p)   == Opcodes[ins[p + 1] + 1]
ArgsAt(ins, p) == ReadOperands(OpAt(ins, p), ins, p)
After(ins, p)  == p + InstructionLen(OpAt(ins, p))

(* How many values an instruction takes, and leaves.                       *)
TakenBy(op, args) ==
  CASE op \in {"OpAdd", "OpSub", "OpMul", "OpDiv", "OpEqual", "OpNotEqual",
               "OpGreaterThan", "OpIndex"}                   -> 2
    [] op \in {"OpSetGlobal", "OpSetLocal", "OpPop", "OpMinus", "OpBang",
               "OpJumpNotTruthy", "OpReturnValue"}           -> 1
    [] op \in {"OpArray", "OpHash"}                          -> args[1]
    [] op = "OpCall"                                         -> args[1] + 1
    [] op = "OpClosure"                                      -> args[2]
    [] OTHER                                                 -> 0

LeftBy(op) ==
  IF op \in {"OpSetGlobal", "OpSetLocal", "OpPop", "OpJump", "OpJumpNotTruthy"} THEN 0 ELSE 1

Takes(ins, p)  == TakenBy(OpAt(ins, p), ArgsAt(ins, p))
Leaves(ins, p) == LeftBy(OpAt(ins, p))

DepthAfter(ins, p, depth) == depth - Takes(ins, p) + Leaves(ins, p)

(* Where control goes from p inside the function.                          *)
Successors(ins, p) ==
  CASE OpAt(ins, p) = "OpJump"                       -> { ArgsAt(ins, p)[1] }
    [] OpAt(ins, p) = "OpJumpNotTruthy"              -> { After(ins, p), ArgsAt(ins, p)[1] }
    [] OpAt(ins, p) \in {"OpReturnValue", "OpReturn"} -> {}
    [] OTHER                                         -> { After(ins, p) }

(* The depth at every offset that control reaches, in one pass over the    *)
(* code: the compiler's jumps go forward.                                  *)
Depths(ins) ==
  LET known[n \in 0..Len(ins)] ==      \* when the offsets below n are done
        IF n = 0 THEN [p \in {0} |-> 0]
        ELSE LET d == known[n - 1]
                 p == n - 1
             IN IF p \in DOMAIN d /\ WholeInstruction(ins, p)
                THEN [q \in DOMAIN d \cup Successors(ins, p) |->
                        IF q \in DOMAIN d THEN d[q] ELSE DepthAfter(ins, p, d[p])]
                ELSE d
  IN known[Len(ins)]

(* d is a depth for every offset on a path from the start, the same on all *)
(* paths, and enough for the instruction there.                            *)
Balanced(ins, d) ==
  /\ d \in [DOMAIN d -> Nat] /\ DOMAIN d \subseteq 0..Len(ins)
  /\ 0 \in DOMAIN d /\ d[0] = 0
  /\ \A p \in DOMAIN d : p < Len(ins) =>
       /\ WholeInstruction(ins, p)
       /\ Takes(ins, p) <= d[p]
       /\ \A q \in Successors(ins, p) : q \in DOMAIN d /\ d[q] = DepthAfter(ins, p, d[p])

Reached(ins) == { p \in DOMAIN Depths(ins) : p < Len(ins) }

(* A closure with n captured values is enough for the code.                *)
FreeSuffices(ins, n) ==
  \A p \in Reached(ins) : OpAt(ins, p) = "OpGetFree" => ArgsAt(ins, p)[1] < n

(* What the instruction at p of fn addresses exists, in a heap h with the  *)
(* constants cs.                                                           *)
Addresses(h, cs, fn, p) ==
  LET op  == OpAt(fn.ins, p)
      arg == ArgsAt(fn.ins, p)[1]
  IN /\ op \in {"OpGetLocal", "OpSetLocal"} => arg < fn.numLocals
     /\ op \in {"OpGetGlobal", "OpSetGlobal"} => arg < GlobalsSize
     /\ op = "OpGetBuiltin" => arg < Len(BuiltinNames)
     /\ op \in {"OpConstant", "OpClosure"} => arg < Len(cs)
     /\ op = "OpClosure" =>
          /\ Is(h, cs[arg + 1], "COMPILED_FUNCTION")
          /\ FreeSuffices(h[cs[arg + 1]].ins, ArgsAt(fn.ins, p)[2])
     /\ op = "OpHash" => arg % 2 = 0

CertifiedCode(h, cs, fn) ==
  /\ Balanced(fn.ins, Depths(fn.ins))
  /\ \A p \in Reached(fn.ins) : Addresses(h, cs, fn, p)

(* A function does not run off its end.                                    *)
CertifiedFunction(h, cs, fn) ==
  CertifiedCode(h, cs, fn) /\ Len(fn.ins) \notin DOMAIN Depths(fn.ins)

(* The program does, with nothing left on the stack.  A return in it finds *)
(* no caller, but that is reported below, as a panic that is known.        *)
CertifiedProgram(h, cs, fn) ==
  LET d == Depths(fn.ins) IN
  /\ CertifiedCode(h, cs, fn)
  /\ FreeSuffices(fn.ins, 0)
  /\ Len(fn.ins) \in DOMAIN d => d[Len(fn.ins)] = 0
  /\ \A p \in Reached(fn.ins) : OpAt(fn.ins, p) \notin {"OpReturn", "OpCurrentClosure"}

(* The bytecode of a compiler, before New allocates its constants: they    *)
(* are the objects themselves, in their order.                             *)
CertifiedBytecode(b) ==
  LET cs == [i \in 1..Len(b.constants) |-> i] IN
  /\ \A i \in 1..Len(b.constants) :
       b.constants[i].t = "COMPILED_FUNCTION" =>
         CertifiedFunction(b.constants, cs, b.constants[i])
  /\ CertifiedProgram(b.constants, cs, CompiledFunction(b.instructions, 0, 0))
=============================================================================
