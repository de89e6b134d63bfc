------------------------------ MODULE MCParser ------------------------------
(***************************************************************************)
(* Programs as they are typed, every sequence of tokens that goes on from  *)
(* one of the Openings with up to MaxSteps tokens of Alphabet; and as they *)
(* are meant, the text of an expression that becomes, in up to MaxSteps    *)
(* steps, a part of a larger one, next to the operand a or to itself.      *)
(***************************************************************************)
EXTENDS Grammar
LOCAL INSTANCE SequencesExt

CONSTANT MaxSteps

VARIABLES
  tokens,     \* the text
  result,     \* what ParseProgram gives for it
  e,          \* the expression that is meant; NilNode if the text is just typed
  steps

vars == << tokens, result, e, steps >>

I(name) == [type |-> "IDENT", name |-> name]
One     == [type |-> "INT", digits |-> << 1 >>]

Alphabet ==
  { I("a"), One, T("-"), T("*"), T("=="), T("="), T("("), T(")"), T("["), T("]"),
    T("{"), T("}"), T(","), T(":"), T(";"), T("LET"), T("FUNCTION"), T("ELSE") }

Openings ==
  { << >>,
    << T("LET"), I("a"), T("=") >>,
    << T("RETURN") >>,
    << T("IF"), T("("), I("a"), T(")"), T("{") >>,
    << T("IF"), T("("), I("a"), T(")"), T("{"), T("}"), T("ELSE") >>,
    << T("FUNCTION"), T("("), I("a") >>,
    << T("MACRO"), T("("), T(")") >>,
    << One, T("-"), I("a") >>,
    << I("a"), T("("), One, T(",") >>,
    << T("{"), One, T(":"), T("TRUE") >>,
    << T("["), One >>,
    << T("!"), T("("), T("[") >>,
    << [type |-> "INT", digits |-> << 0, 1, 7 >>], T("/") >>,
    << [type |-> "INT", digits |-> << 0, 9 >>] >>,
    << [type |-> "INT", digits |-> << 9, 9, 9 >>] >>,
    << [type |-> "STRING", s |-> << "s" >>], T("ILLEGAL") >> }

a == Identifier("a")

Operators == {"-", "*", "=="}

(* The expression in a statement of each kind.                             *)
Meant(x) == Program(<< LetStatement("b", x), ExpressionStatement(x), ReturnStatement(x) >>)

OperandOf ==
  UNION { { InfixExpression(e, o, a), InfixExpression(a, o, e) } : o \in Operators } \cup { InfixExpression(e, "-", e) }

UnderPrefix == { PrefixExpression(o, e) : o \in {"!", "-"} }

InCall ==
  { CallExpression(e, << >>), CallExpression(a, << e, a >>), IndexExpression(e, a), IndexExpression(a, e) }

InLiteral ==
  { ArrayLiteral(<< a, e >>),
    HashLiteral(<< << a, e >>, << e, a >> >>),
    FunctionLiteral(<< "a", "b" >>, << ReturnStatement(e) >>),
    FunctionLiteral(<< >>, << LetStatement("b", e), ExpressionStatement(e) >>),
    MacroLiteral(<< "a" >>, << ExpressionStatement(e) >>) }

InConditional ==
  { IfExpression(e, << >>, << >>),
    IfExpression(a, << ExpressionStatement(e) >>, << << LetStatement("a", e) >> >>) }

Init ==
  /\ steps = 0
  /\ \/ tokens \in Openings /\ e = NilNode
     \/ /\ e \in { a, IntegerLiteral(1), StringLiteral(<< "s" >>), Boolean(TRUE) }
        /\ tokens = UnparseProgram(Meant(e))
  /\ result = ParseProgram(tokens)

Step == steps < MaxSteps /\ steps' = steps + 1 /\ result' = ParseProgram(tokens')

Type ==
  /\ e = NilNode
  /\ \E t \in Alphabet : tokens' = Append(tokens, t)
  /\ UNCHANGED e
  /\ Step

Grow ==
  /\ e # NilNode
  /\ e' \in OperandOf \cup UnderPrefix \cup InCall \cup InLiteral \cup InConditional
  /\ tokens' = UnparseProgram(Meant(e'))
  /\ Step

Done == steps = MaxSteps /\ UNCHANGED vars

Next == Type \/ Grow \/ Done

Spec == Init /\ [][Next]_vars

-----------------------------------------------------------------------------
(* What may be left out or repeated without a change of the meaning:       *)
(* grouping, separators, and what closes a block at the end of the text.   *)
Kinds(text) ==
  LET kept == SelectSeq(text, LAMBDA t : t.type \notin {"(", ")", ";", ",", "}"})
  IN [i \in DOMAIN kept |-> kept[i].type]

(* A program that is accepted is parsed from all its tokens: none is       *)
(* skipped and none is used twice, wherever a statement ends without a     *)
(* semicolon (nextToken, expectPeek).                                      *)
NoTokenIsLost == ~ result.p.failed => Kinds(UnparseProgram(result.node)) = Kinds(tokens)

(* Every nil in the tree, of a typed nil let too, comes with an error: the *)
(* REPL and loadScript look at Errors() only, and the compiler would       *)
(* dereference it (repl.go:71, main.go:183).                               *)
NilIsReported == HasNil(result.node) => result.p.failed

(* A text that is complete up to a semicolon means what its two parts mean *)
(* one after the other, as two lines of the REPL: the parser looks at no   *)
(* token beyond the statement (peekToken, parser.go:294, 439).             *)
Complete(text, parsed) ==
  /\ ~ parsed.p.failed
  /\ Len(SelectSeq(text, LAMBDA t : t.type = "{")) = Len(SelectSeq(text, LAMBDA t : t.type = "}"))

StatementsParseAlone ==
  \A i \in { j \in 1..(Len(tokens) - 1) : tokens[j].type = ";" } :
    \A line \in { ParseProgram(SubSeq(tokens, 1, i)) },
       rest \in { ParseProgram(SubSeq(tokens, i + 1, Len(tokens))) } :
      Complete(SubSeq(tokens, 1, i), line) =>
        /\ result.p.failed = rest.p.failed
        /\ result.node.statements = line.node.statements \o rest.node.statements

(* The parser gives back the tree whose tokens it reads, as a statement of *)
(* each kind and among others: parentheses group, operators bind and       *)
(* associate as TestOperatorPrecedenceParsing expects, for every nesting   *)
(* of constructs.                                                          *)
ParsesWhatIsWritten == e # NilNode => ~ result.p.failed /\ result.node = Meant(e)
=============================================================================
