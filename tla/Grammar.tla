------------------------------ MODULE Grammar -------------------------------
(***************************************************************************)
(* The language that the parser is for, given the other way round: the     *)
(* tokens of a tree, with parentheses exactly where precedence asks for    *)
(* them, and the trees that a program may have.                            *)
(***************************************************************************)
EXTENDS Parser
LOCAL INSTANCE SequencesExt

T(type) == [type |-> type]

(* A parameter may be named by any token.                                  *)
Types ==
  {"ILLEGAL", "EOF", "INT", "STRING", "TRUE", "FALSE", "LET", "RETURN", "IF", "ELSE", "FUNCTION",
   "MACRO", "=", "+", "-", "!", "*", "/", "<", ">", "==", "!=", ",", ";", ":",
   "(", ")", "{", "}", "[", "]"}

Ident(name) == IF name \in Types THEN T(name) ELSE [type |-> "IDENT", name |-> name]

(* How tightly the outermost operator of an expression binds: comparisons  *)
(* least, then sums, products, prefixes, and calls and indices most.       *)
Level(operator) ==
  CASE operator \in {"==", "!="} -> 1
    [] operator \in {"<", ">"}   -> 2
    [] operator \in {"+", "-"}   -> 3
    [] operator \in {"*", "/"}   -> 4

PrefixLevel  == 5
PostfixLevel == 6

Binding(e) ==
  CASE e.node = "InfixExpression"  -> Level(e.operator)
    [] e.node = "PrefixExpression" -> PrefixLevel
    [] OTHER                       -> PostfixLevel

Separated(texts) == FlattenSeq([i \in DOMAIN texts |->
  IF i = 1 THEN texts[i] ELSE << T(",") >> \o texts[i]])

RECURSIVE Unparse(_), UnparseStatement(_)

Operand_(e, least) ==
  IF Binding(e) >= least THEN Unparse(e) ELSE << T("(") >> \o Unparse(e) \o << T(")") >>

UnparseList(es) == Separated([i \in DOMAIN es |-> Unparse(es[i])])

UnparseBlock(block) ==
  << T("{") >> \o FlattenSeq([i \in DOMAIN block.statements |-> UnparseStatement(block.statements[i])]) \o << T("}") >>

UnparseParameters(names) ==
  << T("(") >> \o Separated([i \in DOMAIN names |-> << Ident(names[i]) >>]) \o << T(")") >>

(* Operators of one precedence group to the left.                          *)
Unparse(e) ==
  CASE e.node = "nil"              -> << T("nil") >>
    [] e.node = "Identifier"       -> << Ident(e.name) >>
    [] e.node = "IntegerLiteral"   -> << [type |-> "INT", digits |-> << e.n >>] >>
    [] e.node = "StringLiteral"    -> << [type |-> "STRING", s |-> e.s] >>
    [] e.node = "Boolean"          -> << T(IF e.b THEN "TRUE" ELSE "FALSE") >>
    [] e.node = "PrefixExpression" -> << T(e.operator) >> \o Operand_(e.right, PrefixLevel)
    [] e.node = "InfixExpression"  ->
         Operand_(e.left, Level(e.operator)) \o << T(e.operator) >>
           \o Operand_(e.right, Level(e.operator) + 1)
    [] e.node = "CallExpression"   ->
         Operand_(e.function, PostfixLevel) \o << T("(") >> \o UnparseList(e.arguments) \o << T(")") >>
    [] e.node = "IndexExpression"  ->
         Operand_(e.left, PostfixLevel) \o << T("[") >> \o Unparse(e.index) \o << T("]") >>
    [] e.node = "ArrayLiteral"     -> << T("[") >> \o UnparseList(e.elements) \o << T("]") >>
    [] e.node = "HashLiteral"      ->
         << T("{") >> \o Separated([i \in DOMAIN e.pairs |->
                           Unparse(e.pairs[i][1]) \o << T(":") >> \o Unparse(e.pairs[i][2])]) \o << T("}") >>
    [] e.node = "IfExpression"     ->
         << T("IF"), T("(") >> \o Unparse(e.condition) \o << T(")") >> \o UnparseBlock(e.consequence)
           \o IF e.alternative = << >> THEN << >>
              ELSE << T("ELSE") >> \o UnparseBlock(e.alternative[1])
    [] e.node = "FunctionLiteral"  -> << T("FUNCTION") >> \o UnparseParameters(e.parameters) \o UnparseBlock(e.body)
    [] e.node = "MacroLiteral"     -> << T("MACRO") >> \o UnparseParameters(e.parameters) \o UnparseBlock(e.body)

UnparseStatement(s) ==
  CASE s.node = "nil LetStatement" -> << T("nil") >>
    [] s.node = "LetStatement"    -> << T("LET"), Ident(s.name), T("=") >> \o Unparse(s.value) \o << T(";") >>
    [] s.node = "ReturnStatement" -> << T("RETURN") >> \o Unparse(s.value) \o << T(";") >>
    [] OTHER                      -> Unparse(s.expression) \o << T(";") >>

UnparseProgram(program) ==
  FlattenSeq([i \in DOMAIN program.statements |-> UnparseStatement(program.statements[i])])

-----------------------------------------------------------------------------
(* Is there a nil in a tree that the rest of the program would meet?       *)
RECURSIVE HasNil(_)
AnyNil(nodes) == \E i \in DOMAIN nodes : HasNil(nodes[i])
HasNil(n) ==
  CASE n.node \in {"nil", "nil LetStatement"} -> TRUE
    [] n.node \in {"Program", "BlockStatement"} -> AnyNil(n.statements)
    [] n.node = "ExpressionStatement" -> HasNil(n.expression)
    [] n.node \in {"LetStatement", "ReturnStatement"} -> HasNil(n.value)
    [] n.node = "PrefixExpression"    -> HasNil(n.right)
    [] n.node = "InfixExpression"     -> HasNil(n.left) \/ HasNil(n.right)
    [] n.node = "IndexExpression"     -> HasNil(n.left) \/ HasNil(n.index)
    [] n.node = "CallExpression"      -> HasNil(n.function) \/ AnyNil(n.arguments)
    [] n.node = "ArrayLiteral"        -> AnyNil(n.elements)
    [] n.node = "HashLiteral"         -> \E i \in DOMAIN n.pairs : AnyNil(n.pairs[i])
    [] n.node = "IfExpression"        ->
         HasNil(n.condition) \/ HasNil(n.consequence) \/ AnyNil(n.alternative)
    [] n.node \in {"FunctionLiteral", "MacroLiteral"} -> HasNil(n.body)
    [] OTHER                          -> FALSE
=============================================================================
