----------------------------- MODULE MCCompiling -----------------------------
(***************************************************************************)
(* Compile step by step over small programs, against Compile in one piece. *)
(***************************************************************************)
EXTENDS Compiling, Compiler, Families

RECURSIVE NodesOf(_)

Branches(e) ==
  { e.consequence.statements[i] : i \in DOMAIN e.consequence.statements }
  \cup UNION { { e.alternative[j].statements[i] : i \in DOMAIN e.alternative[j].statements } :
                  j \in DOMAIN e.alternative }

ChildrenOf(n) ==
  CASE n.node \in OperationKinds -> { Operands(n)[i] : i \in DOMAIN Operands(n) }
    [] n.node = "IfExpression" -> { n.condition } \cup Branches(n)
    [] n.node = "FunctionLiteral" -> { n.body.statements[i] : i \in DOMAIN n.body.statements }
    [] n.node = "ExpressionStatement" -> { n.expression }
    [] n.node \in {"LetStatement", "ReturnStatement"} -> { n.value }
    [] OTHER -> {}

NodesOf(n) == { n } \cup UNION { NodesOf(m) : m \in ChildrenOf(n) }

-----------------------------------------------------------------------------
(* Blocks that end in every way, one inside of another.                    *)
Blocks ==
  { << >>, << Do(V("a")) >>, << Return_(V("a")) >>, << Let("b", V("a")) >>,
    << Do(N(1)), Return_(N(2)), Do(V("a")) >>,
    << Do(IfExpression(V("a"), << Return_(N(1)) >>, << << Do(N(2)) >> >>)) >>,
    << Return_(IfExpression(V("a"), << Do(N(1)) >>, << >>)), Let("a", N(3)) >> }

BlockSources ==
  { << Let("a", FunctionLiteral(<< "a" >>, << s >>)), Do(V("a")) >> :
      s \in { Do(IfExpression(V("a"), block, alternative)) :
                block \in Blocks, alternative \in { << >> } \cup { << b >> : b \in Blocks } } }
  \cup { << Do(IfExpression(N(1), block, << >>)), Let("b", N(2)) >> : block \in Blocks }
  \cup { << Let("f", FunctionLiteral(<< >>, block)) >> : block \in Blocks }

(* Functions in functions that capture, shadow and call themselves.        *)
CapturingSources ==
  { << Let("f", FunctionLiteral(<< "a" >>, << s, Do(Call_(f, V("a"))) >>)) >> :
      s \in { Do(V("a")), Let("b", V("f")), Let("f", V("a")), Return_(Boolean(TRUE)) },
      f \in Capturing \cup
            { FunctionLiteral(<< "b" >>, << Let("len", FunctionLiteral(<< >>,
                << Do(Plus(V("len"), Call_(V("f"), V("b")))), Let("b", V("a")) >>)), Do(V("len")) >>) } }

(* Where nothing is checked: too many arguments, elements, globals; and    *)
(* nodes without a case.                                                   *)
Ones(n) == [i \in 1..n |-> N(1)]

DoubtfulSources ==
  { << Do(CallExpression(V("len"), Ones(Radix - i))) >> : i \in {0, 1} }
  \cup { << Let("a", N(1)), Let("b", V("a")), Let("f", e), Do(V("len")), Do(V("f")) >> :
           e \in { V("a"), MacroLiteral(<< >>, << >>), NilNode, V("last") } }
  \cup { << NilLet, Do(V("a")) >> }

SomeOperations ==
  { InfixExpression(V("len"), op, N(2)) : op \in {"+", "-", "*", "/", "==", "!=", "<", ">"} }
  \cup { PrefixExpression(op, StringLiteral(<< "s" >>)) : op \in {"!", "-"} }
  \cup { IndexExpression(ArrayLiteral(Ones(n)), N(0)) : n \in 0..2 }
  \cup { HashLiteral(<< << N(1), V("len") >>, << N(2), N(3) >> >>) }

(* Every expression of the control flow families, used and popped.        *)
FlowBodies ==
  { << Let("f", FunctionLiteral(<< "a" >>, << Let("b", e), Do(e) >>)) >> : e \in FlowExpressions }

AllSources ==
  BlockSources \cup CapturingSources \cup DoubtfulSources \cup LetInBlockSources
  \cup UnhashableKeySources
  \cup UnsetSources \cup LimitSources \cup FlowBodies
  \cup { << Let("a", e), Do(V("a")) >> : e \in SomeOperations }

AllNodes == UNION { NodesOf(s[i]) : <<s, i>> \in { p \in AllSources \X (1..5) : p[2] <= Len(p[1]) } }

AllStatements  == { n \in AllNodes : n.node \in StatementKinds \cup {"nil LetStatement"} }
AllExpressions == AllNodes \ AllStatements

(* Both end in the same compiler: a doubt, too, is one of what they do.    *)
StepsAgree == (Done \/ c.err) => c = Compile(Program(source), NewCompiler)
=============================================================================
