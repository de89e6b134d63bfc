------------------------------ MODULE Bytecode ------------------------------
(***************************************************************************)
(* Package code: the opcodes, the widths of their operands, and the        *)
(* encoding of an instruction as bytes.  Byte offsets are those of the     *)
(* source (the first byte of ins is at offset 0); the TLA+ sequence ins    *)
(* holds the byte of offset p at index p + 1.                              *)
(***************************************************************************)
EXTENDS Integers, Sequences

CONSTANT Radix      \* the number of values of a byte: 256 in the program

(* Opcodes in the order of the iota of code.go, opcode 0 first. *)
Opcodes ==
  << "OpConstant", "OpSetGlobal", "OpGetGlobal", "OpSetLocal", "OpGetLocal",
     "OpGetBuiltin", "OpGetFree", "OpCurrentClosure", "OpPop", "OpAdd",
     "OpSub", "OpMul", "OpDiv", "OpEqual", "OpNotEqual", "OpGreaterThan",
     "OpMinus", "OpBang", "OpJumpNotTruthy", "OpJump", "OpCall",
     "OpReturnValue", "OpReturn", "OpClosure", "OpTrue", "OpFalse", "OpNull",
     "OpArray", "OpHash", "OpIndex" >>

OpcodeNames == { Opcodes[i] : i \in 1..30 }

(* A byte holds every opcode, so an opcode is never truncated. *)
ASSUME RadixAssumption == Radix \in Nat /\ Radix >= 30

ByteValues == 0..(Radix - 1)

(* The widths, in bytes, of the operands of each opcode (definitions). *)
OperandWidths(op) ==
  CASE op \in {"OpConstant", "OpGetGlobal", "OpSetGlobal", "OpJumpNotTruthy",
               "OpJump", "OpArray", "OpHash"}                        -> <<2>>
    [] op \in {"OpGetLocal", "OpSetLocal", "OpGetBuiltin", "OpGetFree",
               "OpCall"}                                             -> <<1>>
    [] op = "OpClosure"                                              -> <<2, 1>>
    [] OTHER                                                         -> << >>

(* The bytes of an instruction: the opcode and its operands. *)
InstructionLen(op) ==
  CASE OperandWidths(op) = <<2, 1>> -> 4
    [] OperandWidths(op) = <<2>>    -> 3
    [] OperandWidths(op) = <<1>>    -> 2
    [] OTHER                        -> 1

OpcodeByte(op) == (CHOOSE i \in 1..30 : Opcodes[i] = op) - 1

(* byte(o) and uint16(o): a value that does not fit is silently reduced. *)
PutUint8(o)  == << o % Radix >>
PutUint16(o) == << (o \div Radix) % Radix, o % Radix >>

(* Make encodes an instruction; the operands are big-endian. *)
Make(op, operands) ==
  LET widths == OperandWidths(op) IN
  << OpcodeByte(op) >> \o
  CASE widths = <<2, 1>> -> PutUint16(operands[1]) \o PutUint8(operands[2])
    [] widths = <<2>>    -> PutUint16(operands[1])
    [] widths = <<1>>    -> PutUint8(operands[1])
    [] OTHER             -> << >>

(* The operands are encoded as they are: none of them is reduced.          *)
Fit(op, operands) ==
  \A i \in 1..Len(operands) :
    operands[i] \in 0..((IF OperandWidths(op)[i] = 2 THEN Radix * Radix ELSE Radix) - 1)

(* Readers of the operand that starts at byte offset p. *)
ReadUint8(ins, p)  == ins[p + 1]
ReadUint16(ins, p) == ins[p + 1] * Radix + ins[p + 2]

(* The operands of the instruction of opcode op whose first byte is at p. *)
ReadOperands(op, ins, p) ==
  LET widths == OperandWidths(op) IN
  CASE widths = <<2, 1>> -> << ReadUint16(ins, p + 1), ReadUint8(ins, p + 3) >>
    [] widths = <<2>>    -> << ReadUint16(ins, p + 1) >>
    [] widths = <<1>>    -> << ReadUint8(ins, p + 1) >>
    [] OTHER             -> << >>

(* The instruction at p is there to the last byte of its operands; reading *)
(* beyond the slice is a Go panic.                                         *)
WholeInstruction(ins, p) ==
  /\ p \in 0..(Len(ins) - 1)
  /\ ins[p + 1] \in 0..29
  /\ p + InstructionLen(Opcodes[ins[p + 1] + 1]) <= Len(ins)
=============================================================================
