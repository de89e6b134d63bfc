------------------------------ MODULE Compiler ------------------------------
(***************************************************************************)
(* Compile of compiler/compiler.go as a function of the node and of the    *)
(* compiler, in one piece.                                                 *)
(***************************************************************************)
EXTENDS Ast, Emitter
LOCAL INSTANCE SequencesExt

(* FunctionLiteral once its body is compiled into the innermost scope.     *)
FinishFunction(body, fn) ==
  LET done   == ReturnLastValue(body)
      free   == Current(done.tables).free
      loaded == FoldLeft(LoadSymbol, LeaveScope(done), free)
  IN Emit(AddConstant(loaded, FunctionConstant(done, fn)),
          "OpClosure", << Len(loaded.constants), Len(free) >>)

RECURSIVE Compile(_, _), CompileAll(_, _)

CompileAll(nodes, c) ==
  IF nodes = << >> THEN c ELSE CompileAll(Tail(nodes), Compile(Head(nodes), c))

CompileIf(node, c) ==
  LET condition   == Compile(node.condition, c)
      consequence == KeepLastValue(CompileAll(node.consequence.statements,
                       Emit(condition, "OpJumpNotTruthy", << 9999 >>)))
      jumped      == JumpHere(Emit(consequence, "OpJump", << 9999 >>), Here(condition))
      alternative == IF node.alternative = << >>
                     THEN Emit(jumped, "OpNull", << >>)
                     ELSE KeepLastValue(CompileAll(node.alternative[1].statements, jumped))
  IN JumpHere(alternative, Here(consequence))

CompileLet(node, c) ==
  LET value == Compile(node.value, [c EXCEPT !.tables = LetTables(@, node.name)])
  IN Emit(value, LetOpcode(c.tables, node.name), << LetSymbol(c.tables, node.name).index >>)

CompileIdentifier(node, c) ==
  IF Resolvable(c.tables, node.name)
  THEN LoadSymbol([c EXCEPT !.tables = ResolvedTables(@, node.name)],
                  ResolvedSymbol(c.tables, node.name))
  ELSE [c EXCEPT !.err = TRUE]

CompileFunction(node, c) ==
  LET body == CompileAll(node.body.statements, EnterScope(c, node)) IN
  IF body.err THEN body ELSE FinishFunction(body, node)

(* "<" compiles its right side first and becomes OpGreaterThan.            *)
CompileInfix(node, c) ==
  Emit(IF node.operator = "<" THEN CompileAll(<< node.right, node.left >>, c)
                              ELSE CompileAll(<< node.left, node.right >>, c),
       InfixOpcode(node.operator), << >>)

Compile(node, c) ==
  IF c.err THEN c ELSE
  CASE node.node = "Program"             -> CompileAll(node.statements, c)
    [] node.node = "ExpressionStatement" -> Emit(Compile(node.expression, c), "OpPop", << >>)
    [] node.node = "LetStatement"        -> CompileLet(node, c)
    [] node.node = "ReturnStatement"     -> Emit(Compile(node.value, c), "OpReturnValue", << >>)
    [] node.node = "PrefixExpression"    ->
         Emit(Compile(node.right, c), IF node.operator = "!" THEN "OpBang" ELSE "OpMinus", << >>)
    [] node.node = "InfixExpression"     -> CompileInfix(node, c)
    [] node.node = "IfExpression"        -> CompileIf(node, c)
    [] node.node = "IndexExpression"     ->
         Emit(CompileAll(<< node.left, node.index >>, c), "OpIndex", << >>)
    [] node.node = "CallExpression"      ->
         Emit(CompileAll(<< node.function >> \o node.arguments, c),
              "OpCall", << Len(node.arguments) >>)
    [] node.node = "IntegerLiteral"      -> EmitConstant(c, Integer(node.n))
    [] node.node = "StringLiteral"       -> EmitConstant(c, String(node.s))
    [] node.node = "ArrayLiteral"        ->
         Emit(CompileAll(node.elements, c), "OpArray", << Len(node.elements) >>)
    [] node.node = "HashLiteral"         ->
         Emit(CompileAll(FlattenSeq(node.pairs), c), "OpHash", << 2 * Len(node.pairs) >>)
    [] node.node = "FunctionLiteral"     -> CompileFunction(node, c)
    [] node.node = "Boolean"             -> Emit(c, IF node.b THEN "OpTrue" ELSE "OpFalse", << >>)
    [] node.node = "Identifier"          -> CompileIdentifier(node, c)
    [] OTHER                             -> c
=============================================================================
