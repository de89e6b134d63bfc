------------------------------- MODULE Parser -------------------------------
(***************************************************************************)
(* parser/parser.go: a Pratt parser over the tokens of the lexer.  A       *)
(* Parser is the record p of the tokens, the position of curToken among    *)
(* them (peekToken is the next one; after the last comes EOF for ever) and *)
(* whether errors is not empty.  A parse function takes p with curToken    *)
(* the first token of its construct and comes to a node and to p with      *)
(* curToken the last one.  NextToken errors arrive as ILLEGAL tokens.      *)
(***************************************************************************)
EXTENDS Ast, Integers
LOCAL INSTANCE SequencesExt

CONSTANT MaxInt       \* the largest int64

LOWEST == 1
PREFIX == 6

(* precedences, LOWEST for the types that are not in the map.              *)
Precedence(type) ==
  CASE type \in {"==", "!="} -> 2
    [] type \in {"<", ">"}   -> 3
    [] type \in {"+", "-"}   -> 4
    [] type \in {"/", "*"}   -> 5
    [] type = "("            -> 7
    [] type = "["            -> 8
    [] OTHER                 -> LOWEST

(* New: curToken is the first token.                                       *)
NewParser(tokens) == [tokens |-> tokens, pos |-> 1, failed |-> FALSE]

TokenAt(p, i) == IF i <= Len(p.tokens) THEN p.tokens[i] ELSE [type |-> "EOF"]
CurToken(p)   == TokenAt(p, p.pos)

CurIs(p, type)  == CurToken(p).type = type
PeekIs(p, type) == TokenAt(p, p.pos + 1).type = type
PeekPrecedence(p) == Precedence(TokenAt(p, p.pos + 1).type)

NextToken(p) == [p EXCEPT !.pos = @ + 1]
Second(p)    == NextToken(NextToken(p))

Parsed(node, p) == [node |-> node, p |-> p]

(* Mutant of Nothing: the missing token is not reported.                   *)
Silently(p) == Parsed(NilNode, p)

(* An error is recorded, of expectPeek mostly, and nil is returned.        *)
Nothing(p) == Parsed(NilNode, [p EXCEPT !.failed = TRUE])

(* strconv.ParseInt of base 0: a leading zero makes the digits octal.      *)
IntegerValue(digits) ==
  LET base == IF digits[1] = 0 /\ Len(digits) > 1 THEN 8 ELSE 10
  IN IF \E i \in DOMAIN digits : digits[i] >= base THEN MaxInt + 1
     ELSE FoldLeft(LAMBDA n, d : base * n + d, 0, digits)

ParseIntegerLiteral(p) ==
  LET n == IntegerValue(CurToken(p).digits)
  IN IF n > MaxInt THEN Nothing(p) ELSE Parsed(IntegerLiteral(n), p)

(* parseIdentifier; as a parameter any token will do, and is named by its  *)
(* type here.                                                              *)
NameOf(token) == IF token.type = "IDENT" THEN token.name ELSE token.type

(* parseFunctionParameters.  names holds the parameters up to curToken; a  *)
(* list that does not end is nil, and that is an error.                    *)
RECURSIVE MoreParameters(_, _)
MoreParameters(names, p) ==
  IF PeekIs(p, ",")
  THEN MoreParameters(Append(names, NameOf(CurToken(Second(p)))), Second(p))
  ELSE IF PeekIs(p, ")") THEN Parsed(names, NextToken(p))
  ELSE Parsed(<< >>, Nothing(p).p)

ParseFunctionParameters(p) ==
  LET first == NextToken(p) IN
  IF CurIs(first, ")") THEN Parsed(<< >>, first)
  ELSE MoreParameters(<< NameOf(CurToken(first)) >>, first)

-----------------------------------------------------------------------------
RECURSIVE ParseExpression(_, _), InfixLoop(_, _), MoreExpressions(_, _, _),
          MorePairs(_, _), MoreStatements(_, _, _), ParseStatement(_)

(* parseExpressionList up to the token end, ParseProgram's and             *)
(* parseBlockStatement's loops up to theirs.                               *)
MoreExpressions(nodes, p, end) ==
  LET e    == ParseExpression(p, LOWEST)
      list == Append(nodes, e.node)
  IN IF PeekIs(e.p, ",") THEN MoreExpressions(list, Second(e.p), end)
     ELSE IF PeekIs(e.p, end) THEN Parsed(list, NextToken(e.p))
     ELSE Parsed(<< >>, Nothing(e.p).p)

ParseExpressionList(p, end) ==
  IF CurIs(NextToken(p), end) THEN Parsed(<< >>, NextToken(p))
  ELSE MoreExpressions(<< >>, NextToken(p), end)

StatementsAfter(nodes, s, ends) == MoreStatements(Append(nodes, s.node), NextToken(s.p), ends)

MoreStatements(nodes, p, ends) ==
  IF CurToken(p).type \in ends THEN Parsed(nodes, p)
  ELSE StatementsAfter(nodes, ParseStatement(p), ends)

(* The end of the text ends a block, too.                                  *)
ParseBlockStatement(p) == MoreStatements(<< >>, NextToken(p), {"}", "EOF"})

MorePairs(pairs, p) ==
  LET key   == ParseExpression(NextToken(p), LOWEST)
      value == ParseExpression(Second(key.p), LOWEST)
      more  == Append(pairs, << key.node, value.node >>)
  IN IF PeekIs(p, "}") THEN Parsed(HashLiteral(pairs), NextToken(p))
     ELSE IF ~ PeekIs(key.p, ":") THEN Nothing(key.p)
     ELSE IF PeekIs(value.p, "}") THEN MorePairs(more, value.p)
     ELSE IF PeekIs(value.p, ",") THEN MorePairs(more, NextToken(value.p))
     ELSE Nothing(value.p)

ParseGroupedExpression(p) ==
  LET e == ParseExpression(NextToken(p), LOWEST)
  IN IF PeekIs(e.p, ")") THEN Parsed(e.node, NextToken(e.p)) ELSE Nothing(e.p)

(* parseFunctionLiteral and parseMacroLiteral, which differ in the node.   *)
ParseLiteralWithBody(kind, p) ==
  LET parameters == ParseFunctionParameters(NextToken(p))
      body       == ParseBlockStatement(NextToken(parameters.p))
  IN IF ~ PeekIs(p, "(") THEN Nothing(p)
     ELSE IF ~ PeekIs(parameters.p, "{") THEN Nothing(parameters.p)
     ELSE Parsed(IF kind = "MACRO" THEN MacroLiteral(parameters.node, body.node)
                 ELSE FunctionLiteral(parameters.node, body.node), body.p)

ParseAlternative(condition, consequence, p) ==
  LET alternative == ParseBlockStatement(Second(p))
  IN IF ~ PeekIs(p, "ELSE")
     THEN Parsed(IfExpression(condition, consequence, << >>), p)
     ELSE IF ~ PeekIs(NextToken(p), "{") THEN Nothing(NextToken(p))
     ELSE Parsed(IfExpression(condition, consequence, << alternative.node >>), alternative.p)

ParseIfExpression(p) ==
  LET condition   == ParseExpression(Second(p), LOWEST)
      consequence == ParseBlockStatement(Second(condition.p))
  IN IF ~ PeekIs(p, "(") THEN Nothing(p)
     ELSE IF ~ PeekIs(condition.p, ")") THEN Nothing(condition.p)
     ELSE IF ~ PeekIs(NextToken(condition.p), "{") THEN Nothing(NextToken(condition.p))
     ELSE ParseAlternative(condition.node, consequence.node, consequence.p)

ParsePrefixExpression(p) ==
  LET right == ParseExpression(NextToken(p), PREFIX)
  IN Parsed(PrefixExpression(CurToken(p).type, right.node), right.p)

ParseArrayLiteral(p) ==
  LET elements == ParseExpressionList(p, "]")
  IN Parsed(ArrayLiteral(elements.node), elements.p)

(* The types of prefixParseFns, and what is registered for them.           *)
PrefixTypes ==
  {"IDENT", "INT", "STRING", "TRUE", "FALSE", "!", "-", "(", "[", "{",
   "IF", "FUNCTION", "MACRO"}

ParsePrefix(p) ==
  LET token == CurToken(p) IN
  CASE token.type = "IDENT"            -> Parsed(Identifier(token.name), p)
    [] token.type = "INT"              -> ParseIntegerLiteral(p)
    [] token.type = "STRING"           -> Parsed(StringLiteral(token.s), p)
    [] token.type \in {"TRUE", "FALSE"} -> Parsed(Boolean(token.type = "TRUE"), p)
    [] token.type \in {"!", "-"}       -> ParsePrefixExpression(p)
    [] token.type = "("                -> ParseGroupedExpression(p)
    [] token.type = "["                -> ParseArrayLiteral(p)
    [] token.type = "{"                -> MorePairs(<< >>, p)
    [] token.type = "IF"               -> ParseIfExpression(p)
    [] token.type \in {"FUNCTION", "MACRO"} -> ParseLiteralWithBody(token.type, p)

(* Mutant of RightPrecedence: operators group to the right.                *)
LooserPrecedence(p) == Precedence(CurToken(p).type) - 1

(* curPrecedence: what binds tighter than this operator is its operand.    *)
RightPrecedence(p) == Precedence(CurToken(p).type)

ParseInfixExpression(left, p) ==
  LET right == ParseExpression(NextToken(p), RightPrecedence(p))
  IN Parsed(InfixExpression(left, CurToken(p).type, right.node), right.p)

ParseCallExpression(function, p) ==
  LET arguments == ParseExpressionList(p, ")")
  IN Parsed(CallExpression(function, arguments.node), arguments.p)

ParseIndexExpression(left, p) ==
  LET index == ParseExpression(NextToken(p), LOWEST)
  IN IF PeekIs(index.p, "]") THEN Parsed(IndexExpression(left, index.node), NextToken(index.p))
     ELSE Nothing(index.p)

(* curToken is an operator; every type with a precedence has a function.   *)
ParseInfix(left, p) ==
  CASE CurIs(p, "(") -> ParseCallExpression(left, p)
    [] CurIs(p, "[") -> ParseIndexExpression(left, p)
    [] OTHER         -> ParseInfixExpression(left, p)

(* The loop goes on with a left side that is nil, too.  A semicolon has    *)
(* the lowest precedence, so that no test for it is needed.                *)
InfixLoop(left, precedence) ==
  IF precedence >= PeekPrecedence(left.p) THEN left
  ELSE InfixLoop(ParseInfix(left.node, NextToken(left.p)), precedence)

ParseExpression(p, precedence) ==
  IF CurToken(p).type \notin PrefixTypes THEN Nothing(p)
  ELSE InfixLoop(ParsePrefix(p), precedence)

-----------------------------------------------------------------------------
(* Mutants of SkipSemicolon: whatever follows, and all semicolons.         *)
SkipToken(p) == NextToken(p)
SkipSemicolons(p) ==
  IF ~ PeekIs(p, ";") THEN p ELSE IF PeekIs(NextToken(p), ";") THEN Second(p) ELSE NextToken(p)

SkipSemicolon(p) == IF PeekIs(p, ";") THEN NextToken(p) ELSE p

(* A let that fails is a nil that goes into the program all the same.      *)
ParseLetStatement(p) ==
  LET name  == NextToken(p)
      value == ParseExpression(Second(name), LOWEST)
  IN IF ~ PeekIs(p, "IDENT") THEN Parsed(NilLet, Nothing(p).p)
     ELSE IF ~ PeekIs(name, "=") THEN Parsed(NilLet, Nothing(name).p)
     ELSE Parsed(LetStatement(CurToken(name).name, value.node), SkipSemicolon(value.p))

ParseReturnStatement(p) ==
  LET e == ParseExpression(NextToken(p), LOWEST)
  IN Parsed(ReturnStatement(e.node), SkipSemicolon(e.p))

ParseExpressionStatement(p) ==
  LET e == ParseExpression(p, LOWEST)
  IN Parsed(ExpressionStatement(e.node), SkipSemicolon(e.p))

ParseStatement(p) ==
  CASE CurIs(p, "LET")    -> ParseLetStatement(p)
    [] CurIs(p, "RETURN") -> ParseReturnStatement(p)
    [] OTHER              -> ParseExpressionStatement(p)

ProgramOf(statements) == Parsed(Program(statements.node), statements.p)

ParseProgram(tokens) == ProgramOf(MoreStatements(<< >>, NewParser(tokens), {"EOF"}))
=============================================================================
