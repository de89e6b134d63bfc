------------------------------ MODULE Emitter ------------------------------
(***************************************************************************)
(* compiler/compiler.go without Compile: what the cases of Compile do to   *)
(* the compiler.  A Compiler is the record c of its constants, its chain   *)
(* of symbol tables, its compilation scopes (the last is current) and      *)
(* whether Compile has returned an error: from then on nothing more is     *)
(* done, and what was done stays, open scopes included.                    *)
(***************************************************************************)
EXTENDS Bytecode, SymbolTable, Objects

(* EmittedInstruction{}: its Opcode is 0.                                  *)
NoInstruction == [op |-> "OpConstant", pos |-> 0]

NewCompilationScope == [ins |-> << >>, last |-> NoInstruction, previous |-> NoInstruction]

NewCompiler ==
  [ constants |-> << >>, tables |-> << BuiltinTable(BuiltinNames) >>,
    scopes |-> << NewCompilationScope >>, err |-> FALSE ]

CurrentScope(c) == c.scopes[Len(c.scopes)]
SetScope(c, s)  == [c EXCEPT !.scopes = [@ EXCEPT ![Len(@)] = s]]

(* The offset at which the next instruction will be.                       *)
Here(c) == Len(CurrentScope(c).ins)

BytecodeOf(c) == [instructions |-> CurrentScope(c).ins, constants |-> c.constants]

(* emit, addInstruction, setLastInstruction.                               *)
Emit(c, op, operands) ==
  LET s == CurrentScope(c) IN
  IF c.err THEN c
  ELSE SetScope(c, [ ins      |-> s.ins \o Make(op, operands),
                     last     |-> [op |-> op, pos |-> Len(s.ins)],
                     previous |-> s.last ])

LastInstructionIs(c, op) == CurrentScope(c).ins # << >> /\ CurrentScope(c).last.op = op

RemoveLastInstruction(c) ==
  LET s == CurrentScope(c) IN
  SetScope(c, [ ins      |-> SubSeq(s.ins, 1, s.last.pos),
                last     |-> s.previous,
                previous |-> NoInstruction ])

(* Mutant of KeepLastValue: the value is popped.                           *)
KeepNoValue(c) == c

(* The value of a block's last expression statement stays on the stack.    *)
KeepLastValue(c) ==
  IF ~ c.err /\ LastInstructionIs(c, "OpPop") THEN RemoveLastInstruction(c) ELSE c

(* replaceInstruction: overwrite the bytes from offset pos on.             *)
ReplaceInstruction(ins, pos, new) ==
  [i \in 1..Len(ins) |-> IF i - pos \in 1..Len(new) THEN new[i - pos] ELSE ins[i]]

(* changeOperand.                                                          *)
JumpTo(c, pos, target) ==
  LET s == CurrentScope(c) IN
  IF c.err THEN c
  ELSE SetScope(c, [s EXCEPT !.ins =
         ReplaceInstruction(@, pos, Make(Opcodes[@[pos + 1] + 1], << target >>))])

(* Mutant of JumpHere: back to the jump itself.                            *)
JumpBack(c, pos) == JumpTo(c, pos, pos)

(* The jump at pos goes to the next instruction to be emitted.             *)
JumpHere(c, pos) == JumpTo(c, pos, Here(c))

AddConstant(c, obj) == [c EXCEPT !.constants = Append(@, obj)]

EmitConstant(c, obj) == Emit(AddConstant(c, obj), "OpConstant", << Len(c.constants) >>)

(* loadSymbol.  No instruction loads the index of a function's own name.   *)
LoadOpcode(symbol) ==
  CASE symbol.scope = "GLOBAL"   -> "OpGetGlobal"
    [] symbol.scope = "LOCAL"    -> "OpGetLocal"
    [] symbol.scope = "BUILTIN"  -> "OpGetBuiltin"
    [] symbol.scope = "FREE"     -> "OpGetFree"
    [] symbol.scope = "FUNCTION" -> "OpCurrentClosure"

LoadOperands(symbol) == IF symbol.scope = "FUNCTION" THEN << >> ELSE << symbol.index >>

LoadSymbol(c, symbol) == Emit(c, LoadOpcode(symbol), LoadOperands(symbol))

InfixOpcode(operator) ==
  CASE operator = "+"  -> "OpAdd"
    [] operator = "-"  -> "OpSub"
    [] operator = "*"  -> "OpMul"
    [] operator = "/"  -> "OpDiv"
    [] operator \in {">", "<"} -> "OpGreaterThan"
    [] operator = "==" -> "OpEqual"
    [] operator = "!=" -> "OpNotEqual"

(* The table of the current function once a let of name has found or made  *)
(* its symbol, and that symbol.                                            *)
LetSymbol(tables, name) ==
  IF ResolvedSymbol(tables, name).scope = "LOCAL"
  THEN ResolvedSymbol(tables, name)
  ELSE DefineSymbol(ResolvedTables(tables, name), name)

LetTables(tables, name) ==
  IF ResolvedSymbol(tables, name).scope = "LOCAL"
  THEN ResolvedTables(tables, name)
  ELSE Define(ResolvedTables(tables, name), name)

LetOpcode(tables, name) ==
  IF LetSymbol(tables, name).scope = "LOCAL" THEN "OpSetLocal" ELSE "OpSetGlobal"

(* enterScope and the symbols of the function's name and parameters.       *)
EnterScope(c, fn) ==
  [c EXCEPT !.scopes = Append(@, NewCompilationScope),
            !.tables = Append(@, FunctionTable(fn.fname, fn.parameters))]

LeaveScope(c) ==
  [c EXCEPT !.scopes = SubSeq(@, 1, Len(@) - 1), !.tables = SubSeq(@, 1, Len(@) - 1)]

(* A body that ends in an expression statement returns its value, a body   *)
(* that does not end in a return gets OpReturn.                            *)
ReturnLastValue(c) ==
  LET s == CurrentScope(c) IN
  IF LastInstructionIs(c, "OpPop")
  THEN SetScope(c, [s EXCEPT !.ins = ReplaceInstruction(@, s.last.pos, Make("OpReturnValue", << >>)),
                             !.last.op = "OpReturnValue"])
  ELSE IF LastInstructionIs(c, "OpReturnValue") THEN c
  ELSE Emit(c, "OpReturn", << >>)

(* Mutant of FunctionConstant: let adds no locals.                         *)
ParametersOnly(c, fn) ==
  CompiledFunction(CurrentScope(c).ins, Len(fn.parameters), Len(fn.parameters))

FunctionConstant(c, fn) ==
  CompiledFunction(CurrentScope(c).ins, Current(c.tables).num, Len(fn.parameters))
=============================================================================
