------------------------------ MODULE Compiling ------------------------------
(***************************************************************************)
(* Compile of compiler/compiler.go one call at a time.  The stack of Go is *)
(* todo: what the open calls of Compile still have to do, in order, one    *)
(* list for each open compilation scope.  A call that meets a node puts    *)
(* the rest of its case on the list: first what it compiles by calls of    *)
(* Compile, then what it emits itself.                                     *)
(*                                                                         *)
(* depth, at, to and doubts are auxiliary: no guard reads them.  A task    *)
(* starts when the code so far leaves at values on the stack of its frame  *)
(* and is done when it leaves to; depth[k] holds these numbers for the     *)
(* offsets of scope k at which an instruction starts or is to start.       *)
(***************************************************************************)
EXTENDS Emitter, Certificate

CONSTANTS
  Statements, Expressions,      \* the nodes of syntax trees, by their place
  Sources                       \* the programs, as sequences of statements

StatementKinds == {"ExpressionStatement", "LetStatement", "ReturnStatement"}

(* Expressions whose values are the operands of one instruction.           *)
OperationKinds ==
  {"PrefixExpression", "InfixExpression", "IndexExpression", "CallExpression",
   "ArrayLiteral", "HashLiteral"}

ExpressionKinds ==
  OperationKinds \cup
  {"IfExpression", "IntegerLiteral", "StringLiteral", "FunctionLiteral", "Boolean", "Identifier"}

(* The children of a node are nodes, each in its place.                    *)
StatementOK(s) ==
  /\ s.node \notin ExpressionKinds
  /\ s.node = "ExpressionStatement" => s.expression \in Expressions
  /\ s.node = "LetStatement" => s.name \in Names /\ s.value \in Expressions
  /\ s.node = "ReturnStatement" => s.value \in Expressions

BranchesOK(e) ==
  /\ e.condition \in Expressions
  /\ e.consequence.statements \in Seq(Statements)
  /\ e.alternative # << >> => e.alternative[1].statements \in Seq(Statements)

FunctionOK(e) ==
  /\ e.parameters \in Seq(Names)
  /\ e.fname \in Names \cup {""}
  /\ e.body.statements \in Seq(Statements)

ExpressionOK(e) ==
  /\ e.node \notin StatementKinds
  /\ e.node = "PrefixExpression" => e.operator \in {"!", "-"} /\ e.right \in Expressions
  /\ e.node = "InfixExpression" => /\ e.operator \in {"+", "-", "*", "/", "<", ">", "==", "!="}
                                   /\ e.left \in Expressions /\ e.right \in Expressions
  /\ e.node = "IndexExpression" => e.left \in Expressions /\ e.index \in Expressions
  /\ e.node = "CallExpression" => e.function \in Expressions /\ e.arguments \in Seq(Expressions)
  /\ e.node = "ArrayLiteral" => e.elements \in Seq(Expressions)
  /\ e.node = "HashLiteral" => e.pairs \in Seq(Expressions \X Expressions)
  /\ e.node = "IfExpression" => BranchesOK(e)
  /\ e.node = "FunctionLiteral" => FunctionOK(e)
  /\ e.node = "Identifier" => e.name \in Names

ASSUME TreesAssumption ==
  /\ \A s \in Statements : StatementOK(s)
  /\ \A e \in Expressions : ExpressionOK(e)
  /\ Sources \subseteq Seq(Statements)

(* The builtins are names like others; a function literal without a name   *)
(* has the name "".                                                        *)
ASSUME BuiltinsAssumption ==
  /\ \A i \in DOMAIN BuiltinNames : BuiltinNames[i] \in Names
  /\ "" \notin Names

VARIABLES
  source,
  c,            \* the Compiler
  todo,         \* tasks of each open scope, the current scope last
  doubts,       \* what Compile did without a check, see below
  depth

vars == << source, c, todo, doubts, depth >>

-----------------------------------------------------------------------------
(* Tasks.                                                                  *)
DoStatement(s, at)  == [do |-> "statement", node |-> s, at |-> at, to |-> at]
DoExpression(e, at) == [do |-> "expression", node |-> e, at |-> at, to |-> at + 1]

(* Mutant of DoExpressions: the last value is compiled first.              *)
DoLastFirst(es, at) == [i \in 1..Len(es) |-> DoExpression(es[Len(es) + 1 - i], at + i - 1)]

DoStatements(ss, at)  == [i \in 1..Len(ss) |-> DoStatement(ss[i], at)]
DoExpressions(es, at) == [i \in 1..Len(es) |-> DoExpression(es[i], at + i - 1)]

DoEmit(op, operands, at, to) ==
  [do |-> "emit", op |-> op, operands |-> operands, at |-> at, to |-> to]

DoLoads(symbols, at) ==
  [i \in 1..Len(symbols) |->
     DoEmit(LoadOpcode(symbols[i]), LoadOperands(symbols[i]), at + i - 1, at + i)]

(* The rest of an IfExpression: when its condition is compiled, when its   *)
(* consequence is, when its alternative is; jump is the jump to patch.     *)
DoBranch(e, at)     == [do |-> "branch", node |-> e, at |-> at, to |-> at]
DoElse(e, jump, at) == [do |-> "else", node |-> e, jump |-> jump, at |-> at, to |-> at]
DoEnd(jump, at)     == [do |-> "end", jump |-> jump, at |-> at, to |-> at]
DoKeep(at)          == [do |-> "keep", at |-> at, to |-> at + 1]

(* The rest of a FunctionLiteral: in the scope of its body, then outside.  *)
DoFinish(e) == [do |-> "finish", node |-> e, at |-> 0, to |-> 0]
DoClosure(fn, free, at) ==
  [do |-> "closure", fn |-> fn, free |-> free, at |-> at, to |-> at - free + 1]

Tasks == todo[Len(todo)]
Task  == Head(Tasks)
Node  == Task.node

Meets(place, kinds) ==
  /\ ~ c.err
  /\ Tasks # << >>
  /\ Task.do = place /\ Node.node \in kinds

Has(place) == ~ c.err /\ Tasks # << >> /\ Task.do = place

(* The first task is replaced by others.                                   *)
Replaced(lists, tasks) == [lists EXCEPT ![Len(lists)] = tasks \o Tail(@)]

(* The code of the current scope now ends at here, with to values on the   *)
(* stack.                                                                  *)
Marks(d, here, to) ==
  [q \in { p \in DOMAIN d : p < here } \cup { here } |-> IF q = here THEN to ELSE d[q]]

Marked(depths, here, to) == [depths EXCEPT ![Len(depths)] = Marks(@, here, to)]

(***************************************************************************)
(* Doubts: what nothing in Compile checks, and the machine relies on.      *)
(*   "operand"  an operand was cut off to the bytes that hold it           *)
(*   "global"   a global has no slot in the machine                        *)
(*   "block"    the block of a conditional left no value                   *)
(*   "node"     a node has no case                                         *)
(***************************************************************************)
CutOff(op, operands) == IF Fit(op, operands) THEN {} ELSE {"operand"}
Overfull(tables)     == IF tables[1].num > GlobalsSize THEN {"global"} ELSE {}

(* The task is done by calls of Compile.                                   *)
Calls(tasks) ==
  /\ todo' = Replaced(todo, tasks)
  /\ UNCHANGED << source, c, doubts, depth >>

(* The task is done, or its first part is, when before has emitted op.     *)
Emits(before, op, operands) ==
  /\ c' = Emit(before, op, operands)
  /\ doubts' = doubts \cup CutOff(op, operands)
  /\ depth' = Marked(depth, Here(c'), Task.to)
  /\ todo' = Replaced(todo, << >>)
  /\ UNCHANGED source

-----------------------------------------------------------------------------
Init ==
  /\ source \in Sources
  /\ c = NewCompiler
  /\ todo = << DoStatements(source, 0) >>
  /\ doubts = {}
  /\ depth = << [q \in {0} |-> 0] >>

OnExpressionStatement ==
  /\ Meets("statement", {"ExpressionStatement"})
  /\ Calls(<< DoExpression(Node.expression, Task.at),
              DoEmit("OpPop", << >>, Task.at + 1, Task.at) >>)

OnLetStatement ==
  /\ Meets("statement", {"LetStatement"})
  /\ c' = [c EXCEPT !.tables = LetTables(@, Node.name)]
  /\ doubts' = doubts \cup Overfull(c'.tables)
  /\ todo' = Replaced(todo,
       << DoExpression(Node.value, Task.at),
          DoEmit(LetOpcode(c.tables, Node.name), << LetSymbol(c.tables, Node.name).index >>,
                 Task.at + 1, Task.at) >>)
  /\ UNCHANGED << source, depth >>

OnReturnStatement ==
  /\ Meets("statement", {"ReturnStatement"})
  /\ Calls(<< DoExpression(Node.value, Task.at),
              DoEmit("OpReturnValue", << >>, Task.at + 1, Task.at) >>)

(* The expressions whose values an operation takes, in the order in which  *)
(* they are compiled: "<" is ">" of the right side and the left one.       *)
Operands(e) ==
  CASE e.node = "PrefixExpression" -> << e.right >>
    [] e.node = "InfixExpression"  ->
         IF e.operator = "<" THEN << e.right, e.left >> ELSE << e.left, e.right >>
    [] e.node = "IndexExpression"  -> << e.left, e.index >>
    [] e.node = "CallExpression"   -> << e.function >> \o e.arguments
    [] e.node = "ArrayLiteral"     -> e.elements
    [] e.node = "HashLiteral"      ->
         [i \in 1..(2 * Len(e.pairs)) |-> e.pairs[(i + 1) \div 2][IF i % 2 = 1 THEN 1 ELSE 2]]

OperationOpcode(e) ==
  CASE e.node = "PrefixExpression" -> IF e.operator = "!" THEN "OpBang" ELSE "OpMinus"
    [] e.node = "InfixExpression"  -> InfixOpcode(e.operator)
    [] e.node = "IndexExpression"  -> "OpIndex"
    [] e.node = "CallExpression"   -> "OpCall"
    [] e.node = "ArrayLiteral"     -> "OpArray"
    [] e.node = "HashLiteral"      -> "OpHash"

(* What the instruction is told of the number of its values.               *)
OperationCount(e) ==
  CASE e.node = "CallExpression" -> << Len(e.arguments) >>
    [] e.node = "ArrayLiteral"   -> << Len(e.elements) >>
    [] e.node = "HashLiteral"    -> << 2 * Len(e.pairs) >>
    [] OTHER                     -> << >>

OnOperation ==
  /\ Meets("expression", OperationKinds)
  /\ Calls(DoExpressions(Operands(Node), Task.at)
           \o << DoEmit(OperationOpcode(Node), OperationCount(Node),
                        Task.at + Len(Operands(Node)), Task.to) >>)

OnLiteral ==
  /\ Meets("expression", {"IntegerLiteral", "StringLiteral"})
  /\ Emits(AddConstant(c, IF Node.node = "IntegerLiteral" THEN Integer(Node.n) ELSE String(Node.s)),
           "OpConstant", << Len(c.constants) >>)

OnBoolean ==
  /\ Meets("expression", {"Boolean"})
  /\ Emits(c, IF Node.b THEN "OpTrue" ELSE "OpFalse", << >>)

OnIdentifier ==
  /\ Meets("expression", {"Identifier"})
  /\ Resolvable(c.tables, Node.name)
  /\ LET symbol == ResolvedSymbol(c.tables, Node.name) IN
     Emits([c EXCEPT !.tables = ResolvedTables(@, Node.name)],
           LoadOpcode(symbol), LoadOperands(symbol))

(* The error is returned by every open call.                               *)
OnUnknownIdentifier ==
  /\ Meets("expression", {"Identifier"})
  /\ ~ Resolvable(c.tables, Node.name)
  /\ c' = [c EXCEPT !.err = TRUE]
  /\ UNCHANGED << source, todo, doubts, depth >>

OnIf ==
  /\ Meets("expression", {"IfExpression"})
  /\ Calls(<< DoExpression(Node.condition, Task.at), DoBranch(Node, Task.at + 1) >>)

Branch ==
  /\ Has("branch")
  /\ c' = Emit(c, "OpJumpNotTruthy", << 9999 >>)
  /\ depth' = Marked(depth, Here(c'), Task.at - 1)
  /\ todo' = Replaced(todo,
       DoStatements(Node.consequence.statements, Task.at - 1)
       \o << DoKeep(Task.at - 1), DoElse(Node, Here(c), Task.at) >>)
  /\ UNCHANGED << source, doubts >>

Else ==
  LET jumped == Emit(c, "OpJump", << 9999 >>) IN
  /\ Has("else")
  /\ c' = JumpHere(jumped, Task.jump)
  /\ doubts' = doubts \cup CutOff("OpJumpNotTruthy", << Here(jumped) >>)
  /\ depth' = Marked(depth, Here(c'), Task.at - 1)
  /\ todo' = Replaced(todo,
       (IF Node.alternative = << >>
        THEN << DoEmit("OpNull", << >>, Task.at - 1, Task.at) >>
        ELSE DoStatements(Node.alternative[1].statements, Task.at - 1) \o << DoKeep(Task.at - 1) >>)
       \o << DoEnd(Here(c), Task.at) >>)
  /\ UNCHANGED source

End ==
  /\ Has("end")
  /\ c' = JumpHere(c, Task.jump)
  /\ doubts' = doubts \cup CutOff("OpJump", << Here(c) >>)
  /\ todo' = Replaced(todo, << >>)
  /\ UNCHANGED << source, depth >>

(* At the end of a block: a value that was to be popped stays.  A block    *)
(* that ends in a return needs none.                                       *)
Keep ==
  /\ Has("keep")
  /\ c' = KeepLastValue(c)
  /\ doubts' = doubts \cup (IF LastInstructionIs(c, "OpPop") \/ LastInstructionIs(c, "OpReturnValue")
                            THEN {} ELSE {"block"})
  /\ depth' = Marked(depth, Here(c'), Task.to)
  /\ todo' = Replaced(todo, << >>)
  /\ UNCHANGED source

(* The literal stays the first task outside until its body is compiled.    *)
OnFunction ==
  /\ Meets("expression", {"FunctionLiteral"})
  /\ c' = EnterScope(c, Node)
  /\ todo' = Append(todo, DoStatements(Node.body.statements, 0) \o << DoFinish(Node) >>)
  /\ depth' = Append(depth, [q \in {0} |-> 0])
  /\ UNCHANGED << source, doubts >>

Finish ==
  LET done == ReturnLastValue(c)
      free == Current(done.tables).free
      open == SubSeq(todo, 1, Len(todo) - 1)
      at   == Head(open[Len(open)]).at
  IN /\ Has("finish")
     /\ c' = LeaveScope(done)
     /\ todo' = Replaced(open, DoLoads(free, at)
                  \o << DoClosure(FunctionConstant(done, Node), Len(free), at + Len(free)) >>)
     /\ depth' = SubSeq(depth, 1, Len(depth) - 1)
     /\ UNCHANGED << source, doubts >>

MakeClosure ==
  /\ Has("closure")
  /\ Emits(AddConstant(c, Task.fn), "OpClosure", << Len(c.constants), Task.free >>)

EmitTask ==
  /\ Has("emit")
  /\ Emits(c, Task.op, Task.operands)

NoCase ==
  /\ \/ Meets("statement", { s.node : s \in Statements } \ StatementKinds)
     \/ Meets("expression", { e.node : e \in Expressions } \ ExpressionKinds)
  /\ doubts' = doubts \cup {"node"}
  /\ todo' = Replaced(todo, << >>)
  /\ UNCHANGED << source, c, depth >>

Done == todo = << << >> >>

(* Compile has returned.                                                   *)
Returned == (c.err \/ Done) /\ UNCHANGED vars

Next ==
  \/ OnExpressionStatement \/ OnLetStatement \/ OnReturnStatement
  \/ OnOperation \/ OnLiteral \/ OnBoolean \/ OnIdentifier \/ OnUnknownIdentifier
  \/ OnIf \/ Branch \/ Else \/ End \/ Keep
  \/ OnFunction \/ Finish \/ MakeClosure \/ EmitTask \/ NoCase
  \/ Returned

Spec == Init /\ [][Next]_vars

-----------------------------------------------------------------------------
(* What is true of the code of every open scope as long as nothing is in   *)
(* doubt.  First the code ins of one scope, of which d knows the depths.   *)

Starts(ins, d) == { p \in DOMAIN d : p < Len(ins) }

(* The instructions lie end to end and find the values they take.          *)
Laid(ins, d) ==
  /\ d \in [DOMAIN d -> Nat] /\ DOMAIN d \subseteq 0..Len(ins)
  /\ 0 \in DOMAIN d /\ Len(ins) \in DOMAIN d /\ d[0] = 0
  /\ \A p \in Starts(ins, d) :
       /\ WholeInstruction(ins, p)
       /\ After(ins, p) \in DOMAIN d
       /\ \A q \in DOMAIN d : q > p => q >= After(ins, p)
       /\ Takes(ins, p) <= d[p]

(* Control goes forward from p, to instructions that know what it leaves.  *)
Leads(ins, d, p) ==
  \A q \in Successors(ins, p) : q > p /\ q \in DOMAIN d /\ d[q] = DepthAfter(ins, p, d[p])

(* The jump at p has no target yet.                                        *)
Waiting(ins, d, p) ==
  /\ p \in Starts(ins, d)
  /\ \/ OpAt(ins, p) = "OpJump"
     \/ OpAt(ins, p) = "OpJumpNotTruthy" /\ d[After(ins, p)] = d[p] - 1

JumpsOf(tasks) ==
  { tasks[i].jump : i \in { j \in 1..Len(tasks) : tasks[j].do \in {"else", "end"} } }

CodeOK(ins, d, pending) ==
  /\ ins \in Seq(ByteValues)
  /\ Laid(ins, d)
  /\ \A p \in Starts(ins, d) \ pending : Leads(ins, d, p)
  /\ \A p \in pending : Waiting(ins, d, p)

(* A function among the constants, or to be one.                           *)
FunctionFits(cs, fn) ==
  fn.ins \in Seq(ByteValues) /\ CertifiedFunction(cs, [i \in 1..Len(cs) |-> i], fn)

(* What an instruction of scope k addresses exists.                        *)
Exists(x, k, op, args) ==
  /\ op \in {"OpGetLocal", "OpSetLocal"} => k > 1 /\ args[1] < x.tables[k].num
  /\ op \in {"OpGetGlobal", "OpSetGlobal"} => args[1] < x.tables[1].num
  /\ op = "OpGetBuiltin" => args[1] < Len(BuiltinNames)
  /\ op = "OpGetFree" => args[1] < Len(x.tables[k].free)
  /\ op \in {"OpConstant", "OpClosure"} => args[1] < Len(x.constants)
  /\ op = "OpClosure" =>
       /\ x.constants[args[1] + 1].t = "COMPILED_FUNCTION"
       /\ FreeSuffices(x.constants[args[1] + 1].ins, args[2])
  /\ op = "OpHash" => args[1] % 2 = 0
  /\ op = "OpCurrentClosure" => k > 1
  /\ op # "OpReturn"

(* The task t of scope k finds what it works on.                           *)
EmitOK(x, k, t) ==
  /\ t.op \in OpcodeNames \ {"OpJump", "OpJumpNotTruthy"}
  /\ t.operands \in Seq(Nat) /\ Len(t.operands) = Len(OperandWidths(t.op))
  /\ TakenBy(t.op, t.operands) <= t.at
  /\ t.to = t.at - TakenBy(t.op, t.operands) + (IF t.op = "OpReturnValue" THEN 0 ELSE LeftBy(t.op))
  /\ Exists(x, k, t.op, t.operands)

ClosureOK(x, t) ==
  /\ t.fn.t = "COMPILED_FUNCTION" /\ FunctionFits(x.constants, t.fn)
  /\ FreeSuffices(t.fn.ins, t.free)
  /\ t.free \in 0..t.at /\ t.to = t.at - t.free + 1

JumpOK(ins, d, t, op) ==
  /\ t.jump \in Starts(ins, d) /\ OpAt(ins, t.jump) = op
  /\ d[t.jump] = t.at /\ t.at >= 1 /\ t.to = t.at

TaskOK(x, k, ins, d, t) ==
  /\ t.at \in Nat /\ t.to \in Nat
  /\ \/ t.do = "statement" /\ t.node \in Statements /\ t.to = t.at
     \/ t.do = "expression" /\ t.node \in Expressions /\ t.to = t.at + 1
     \/ t.do = "emit" /\ EmitOK(x, k, t)
     \/ t.do = "closure" /\ ClosureOK(x, t)
     \/ t.do = "branch" /\ BranchesOK(t.node) /\ t.at >= 1 /\ t.to = t.at
     \/ t.do = "else" /\ BranchesOK(t.node) /\ JumpOK(ins, d, t, "OpJumpNotTruthy")
     \/ t.do = "end" /\ JumpOK(ins, d, t, "OpJump")
     \/ t.do = "keep" /\ t.to = t.at + 1
     \/ t.do = "finish" /\ FunctionOK(t.node) /\ t.at = 0 /\ t.to = 0 /\ k > 1

(* Tasks that end a statement, and so with an instruction that leaves no   *)
(* value; what pops or jumps over a value follows any other.               *)
EndsStatement(t) ==
  \/ t.do = "statement"
  \/ t.do = "emit" /\ t.op \in {"OpPop", "OpSetGlobal", "OpSetLocal", "OpReturnValue"}

TakesValue(t) == t.do = "end" \/ (t.do = "emit" /\ t.op = "OpPop")

Follows(t, u) ==
  /\ t.do # "finish"
  /\ u.at = t.to
  /\ u.do \in {"keep", "finish"} => EndsStatement(t)
  /\ TakesValue(u) => ~ EndsStatement(t)

TasksOK(x, k, ins, d, tasks) ==
  /\ \A i \in 1..Len(tasks) : TaskOK(x, k, ins, d, tasks[i])
  /\ \A i \in 1..(Len(tasks) - 1) : Follows(tasks[i], tasks[i + 1])
  /\ \A i, j \in 1..Len(tasks) :
       i # j /\ {tasks[i].do, tasks[j].do} \subseteq {"else", "end"} => tasks[i].jump # tasks[j].jump

(* The tasks of scope k start from the depth that the code has reached and *)
(* come to 0; those of a function end with its return.                     *)
Scheduled(k, tasks, reached) ==
  IF tasks = << >> THEN k = 1 /\ reached = 0
  ELSE /\ tasks[1].at = reached /\ tasks[Len(tasks)].to = 0
       /\ tasks[Len(tasks)].do = "finish" <=> k > 1

(* s.last is the last instruction, and no jump leads behind it.            *)
LastIsTrue(s, d, pending) ==
  /\ s.last.pos \in Starts(s.ins, d)
  /\ OpAt(s.ins, s.last.pos) = s.last.op
  /\ After(s.ins, s.last.pos) = Len(s.ins)
  /\ \A p \in Starts(s.ins, d) \ (pending \cup {s.last.pos}) : Len(s.ins) \notin Successors(s.ins, p)

(* What Compile concludes from the last instruction is so.                 *)
LastOK(s, d, tasks) ==
  /\ s.last.op = "OpPop" => s.previous.op # "OpPop"
  /\ tasks # << >> /\ tasks[1].do \in {"keep", "finish"} =>
       \/ s.last.op \notin {"OpPop", "OpReturnValue"}
       \/ LastIsTrue(s, d, JumpsOf(tasks))
  /\ tasks # << >> /\ TakesValue(tasks[1]) => s.last.op # "OpPop"

ScopeOK(x, k, s, d, tasks) ==
  /\ CodeOK(s.ins, d, JumpsOf(tasks))
  /\ \A p \in Starts(s.ins, d) : Exists(x, k, OpAt(s.ins, p), ArgsAt(s.ins, p))
  /\ TasksOK(x, k, s.ins, d, tasks)
  /\ Scheduled(k, tasks, d[Len(s.ins)])
  /\ LastOK(s, d, tasks)

(* Outside of the innermost scope a function literal is being compiled.    *)
ScopesOK(x, lists, ds) ==
  /\ Len(lists) >= 1
  /\ Len(x.tables) = Len(lists) /\ Len(x.scopes) = Len(lists) /\ Len(ds) = Len(lists)
  /\ x.tables[1].num <= GlobalsSize
  /\ \A i \in 1..Len(x.constants) :
       x.constants[i].t = "COMPILED_FUNCTION" => FunctionFits(x.constants, x.constants[i])
  /\ \A k \in 1..Len(lists) : ScopeOK(x, k, x.scopes[k], ds[k], lists[k])
  /\ \A k \in 1..(Len(lists) - 1) :
       /\ lists[k] # << >> /\ lists[k][1].do = "expression"
       /\ lists[k][1].node.node = "FunctionLiteral"

NoDoubt == doubts = {} /\ ~ c.err

CodeSoFar == NoDoubt => ScopesOK(c, todo, depth)

(* What Compile returns without a doubt, the machine can run.              *)
CompilesCertified == Done /\ NoDoubt => CertifiedBytecode(BytecodeOf(c))
=============================================================================
