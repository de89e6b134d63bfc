----------------------------- MODULE MCByteFile -----------------------------
(***************************************************************************)
(* Bytecode with constants of every kind, and with as many constants and   *)
(* locals as a byte counts and one more; and code that no compiler makes,  *)
(* which the machine runs as well.                                         *)
(***************************************************************************)
EXTENDS FileRun

Ins(n) == [i \in 1..n |-> (7 * i) % Radix]

ConstantKinds ==
  { Integer(0), Integer(-IntHalf), Integer(IntHalf - 1), Integer(-2), String(<< >>), String(<< 6, 7 >>),
    CompiledFunction(<< >>, 0, 0), CompiledFunction(Ins(Radix + 2), Radix - 1, 1) }

ConstantsOf(n, c) == [constants |-> [i \in 1..n |-> c], instructions |-> Ins(3)]

(* Operands that address nothing, values that are not there, jumps into    *)
(* the middle, an instruction cut off, and a byte that is no opcode.       *)
Pieces ==
  { Make("OpConstant", << 7 >>), Make("OpClosure", << 1, 0 >>), Make("OpClosure", << 0, 1 >>),
    Make("OpCall", << 0 >>), Make("OpSetLocal", << 0 >>), Make("OpGetLocal", << 1 >>),
    Make("OpReturn", << >>), Make("OpArray", << 1 >>), Make("OpJump", << 5 >>),
    Make("OpGetFree", << 0 >>), << OpcodeByte("OpArray"), 0 >>, << 30 >>,
    Make("OpTrue", << >>) \o << OpcodeByte("OpJumpNotTruthy") >> }

LoadedFunction == CompiledFunction(Make("OpSetLocal", << 0 >>) \o Make("OpReturn", << >>), 1, 0)

SomeBytecodes ==
  { [constants |-> cs, instructions |-> Ins(n)] :
      cs \in UNION { [1..k -> ConstantKinds] : k \in 0..2 }, n \in {0, 5} }
  \cup { ConstantsOf(n, c) : n \in {Radix - 1, Radix, Radix + 1}, c \in { Integer(3), String(<< 1 >>) } }
  \cup { ConstantsOf(1, CompiledFunction(Ins(2), Radix, 0)) }
  \cup { [constants |-> << Integer(1), LoadedFunction >>, instructions |-> p \o q] : p, q \in Pieces }
=============================================================================
