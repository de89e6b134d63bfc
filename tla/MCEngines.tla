------------------------------ MODULE MCEngines ------------------------------
(***************************************************************************)
(* The two engines side by side, as the benchmark runs them: a program is  *)
(* compiled and run by the machine, and evaluated on its tree.             *)
(***************************************************************************)
EXTENDS MCScript, Meanings
LOCAL INSTANCE SequencesExt

CONSTANT EngineRuns      \* programs, compiled and evaluated, see Runs

VARIABLES source, evaluated      \* evaluated is what Eval gives for the source

allVars == << vars, source, evaluated >>

(* Programs that do not compile never get to the machine: for instance     *)
(* those that use a global before its let, which the evaluator allows.     *)
Runs(sources) ==
  UNION { { [source |-> s, evaluated |-> Evaluation(s), bytecode |-> BytecodeOf(c)] :
              c \in { d \in { Compile(Program(s), NewCompiler) } : ~ d.err } } : s \in sources }

EnginesInit ==
  \E run \in EngineRuns :
    /\ source = run.source
    /\ evaluated = run.evaluated
    /\ InitWith(run.bytecode)

EnginesNext == Next /\ UNCHANGED << source, evaluated >>

EnginesSpec == EnginesInit /\ [][EnginesNext]_allVars

-----------------------------------------------------------------------------
(* What the machine has come to; its last popped value is that of the      *)
(* program's last statement.                                               *)
Machine ==
  CASE status = "halted"  -> Meaning(heap, stack[sp])
    [] status = "error"   -> Error
    [] status = "crashed" -> IF UnhashableKey THEN Error ELSE PanicMeaning

(* An Error that a builtin returns is a value like others to the machine,  *)
(* and the end of everything to the evaluator.                             *)
HoldsError == \E a \in 1..Len(heap) : Is(heap, a, "ERROR")

(* Both engines come to the same value, to an error or to a panic, but for *)
(* builtins' errors; an unhashable key, for which the machine panics       *)
(* (vm.go:418), counts as the error it means to be.                        *)
EnginesAgree == status # "running" => HoldsError \/ Machine = evaluated

-----------------------------------------------------------------------------
NumberedNames ==
  << "v1", "v2", "v3", "v4", "v5", "v6", "v7", "v8", "v9", "v10", "v11", "v12", "v13", "v14", "v15",
     "v16", "v17", "v18", "v19", "v20", "v21", "v22", "v23", "v24", "v25", "v26", "v27", "v28", "v29", "v30" >>

EngineNames ==
  { NumberedNames[i] : i \in 1..30 }
    \cup {"a", "b", "c", "d", "f", "g", "len", "puts", "first", "last", "rest", "push", "pop"}

Fn1(a, body)    == FunctionLiteral(<< a >>, body)
Fn2(a, b, body) == FunctionLiteral(<< a, b >>, body)
Infix(l, op, r) == InfixExpression(l, op, r)
If(c, e, f)     == IfExpression(c, << Do(e) >>, << << Do(f) >> >>)
Call2(f, x, y)  == CallExpression(f, << x, y >>)

(* One operation on operands of every type; strings are not compared, and  *)
(* the evaluator has no pop.                                               *)
Compared(e) ==
  e.node = "InfixExpression" /\ e.operator \in {"==", "!="} /\ e.left.node = "StringLiteral"
    /\ e.right.node = "StringLiteral"

OneOperation ==
  { << Let("a", e), Do(ArrayLiteral(<< V("a"), Infix(V("a"), "==", V("a")), PrefixExpression("!", V("a")) >>)) >> :
      e \in { o \in Operations : ~ Compared(o) /\ ~ (o.node = "CallExpression" /\ o.function = V("pop")) } }

(* A return in an operand: the machine leaves the function there, the      *)
(* evaluator takes the ReturnValue for a value of another type.            *)
ReturnsInOperand(e) ==
  /\ e.node = "InfixExpression" /\ e.right.node = "IfExpression"
  /\ \E block \in { e.right.consequence } \cup ToSet(e.right.alternative) :
       \E i \in DOMAIN block.statements : block.statements[i].node = "ReturnStatement"

Recursive(e) == e.node = "CallExpression" /\ e.function = V("f")

(* Conditionals, closures and early returns, called once or twice.         *)
TwoStatements ==
  { << Let("f", Fn1("a", << s, t >>)), Do(ArrayLiteral(<< Call_(V("f"), N(1)), Call_(V("f"), x) >>)) >> :
      s \in { Do(e) : e \in { d \in FlowExpressions : ~ ReturnsInOperand(d) /\ ~ Recursive(d) } },
      t \in { Do(V("a")), Do(Call_(Fn1("b", << Return_(Plus(V("a"), V("b"))) >>), N(1))), Return_(Plus(V("a"), N(1))) },
      x \in { N(2), Boolean(FALSE) } }

(* map.monkey and reduce.monkey, fibonacci.monkey for small arguments, and *)
(* functions that come back with what they captured.                       *)
Iterate(result) ==
  If(Infix(Call_(V("len"), V("a")), "==", N(0)), V("b"),
     Call2(V("f"), Call_(V("rest"), V("a")), result))

WholePrograms ==
  { << Let("g", Fn2("c", "d",
         << Let("f", Fn2("a", "b", << Do(Iterate(result)) >>)), Do(Call2(V("f"), V("c"), first)) >>)),
       Do(Call2(V("g"), ArrayLiteral(<< N(1), N(2), N(3) >>), Fn1("a", << Do(Infix(V("a"), "*", N(2))) >>))) >> :
      << result, first >> \in
        { << Call2(V("push"), V("b"), Call_(V("d"), Call_(V("first"), V("a")))), ArrayLiteral(<< >>) >>,
          << Infix(V("b"), "-", Call_(V("first"), V("a"))), N(0) >> } }
  \cup
  { << Let("f", Fn1("a", << Do(If(Infix(V("a"), "<", N(2)), V("a"),
                                  Plus(Call_(V("f"), Infix(V("a"), "-", N(1))),
                                       Call_(V("f"), Infix(V("a"), "-", N(2)))))) >>)),
       Do(Call_(V("f"), N(n))) >> : n \in 0..4 }
  \cup
  { << Let("f", Fn1("a", << Let("b", Plus(V("a"), N(1))),
                            Do(Fn1("c", << Do(Fn1("d", << Do(ArrayLiteral(<< x, y, V("c"), V("d") >>)) >>)) >>)) >>)),
       Let("g", Call_(V("f"), N(1))), Let("a", N(7)),
       Do(Call_(Call_(V("g"), V("a")), Call_(V("len"), ArrayLiteral(<< V("g") >>)))) >> :
      x \in { V("a"), V("b") }, y \in { V("a"), V("b") } }

(* As many locals, captured values and arguments as their operands can     *)
(* count, and one less: indices fit up to Radix - 1, and so do the counts  *)
(* of OpClosure and OpCall, which the compiler does not check.             *)
Numbered(n) == [i \in 1..n |-> NumberedNames[i]]

ManyLets(n)   == [i \in 1..n |-> Let(NumberedNames[i], N(i))]
FirstAndLast(n) == ArrayLiteral(<< V(NumberedNames[1]), V(NumberedNames[n]), V("a") >>)
AllOf(n)      == [i \in 1..n |-> Do(V(NumberedNames[i]))]

FullOperands ==
  UNION { { << Let("f", Fn1("a", ManyLets(n) \o << Do(FirstAndLast(n)) >>)), Do(Call_(V("f"), N(0))) >>,
            << Let("f", Fn1("a", ManyLets(n - 1) \o
                 << Do(Fn1("b", AllOf(n - 1) \o << Do(V("a")), Do(FirstAndLast(n - 1)) >>)) >>)),
               Do(Call_(Call_(V("f"), N(0)), N(1))) >>,
            << Let("f", FunctionLiteral(Numbered(n) , << Do(ArrayLiteral(<< V("v1"), V(NumberedNames[n]) >>)) >>)),
               Do(CallExpression(V("f"), [i \in 1..n |-> N(i)])) >> } :
          n \in { Radix - 2, Radix - 1 } }

AllRuns == Runs(OneOperation \cup TwoStatements \cup WholePrograms \cup FullOperands)
=============================================================================
