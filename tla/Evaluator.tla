------------------------------ MODULE Evaluator ------------------------------
(***************************************************************************)
(* Package evaluator and ast.Modify: Eval walks the tree, quote and macro  *)
(* calls rewrite it while they do.  They call each other, and so they are  *)
(* one family of recursive operators; each comes to a Value, or for Modify *)
(* to the reference of a node, and to what the state has become.           *)
(***************************************************************************)
EXTENDS EvaluatorState
LOCAL INSTANCE SequencesExt

(* The builtins of evaluator/builtins.go: all but pop.                     *)
BuiltinNamed(name) == { BuiltinRef(i - 1) : i \in { j \in 1..6 : BuiltinNames[j] = name } }

EvalIdentifier(name, env, s) ==
  CASE IsBound(env, name, s)    -> Value(Get(env, name, s), s)
    [] ~ IsBound(env, name, s) /\ BuiltinNamed(name) # {} ->
         Value(CHOOSE b \in BuiltinNamed(name) : TRUE, s)
    [] OTHER                    -> NewError(s)

EvalPrefix(operator, right, s) ==
  IF operator = "!" THEN Value(NativeBool(~ IsTruthy(right)), s)
  ELSE IF right = Nil THEN Panics(s)
  ELSE Come(MinusOutcome(s.heap, right), s)

EvalInteger(operator, m, n) ==
  CASE operator = "+"            -> New(Integer(Wrap(m + n)))
    [] operator = "-"            -> New(Integer(Wrap(m - n)))
    [] operator = "*"            -> New(Integer(Wrap(m * n)))
    [] operator = "/" /\ n = 0   -> Panic
    [] operator = "/" /\ n # 0   -> New(Integer(Wrap(Quotient(m, n))))
    [] operator = "=="           -> Ref(NativeBool(m = n))
    [] operator = "!="           -> Ref(NativeBool(m # n))
    [] operator = "<"            -> Ref(NativeBool(m < n))
    [] operator = ">"            -> Ref(NativeBool(m > n))

EvalString(operator, x, y) ==
  CASE operator = "+"  -> New(String(x \o y))
    [] operator = "==" -> Ref(NativeBool(x = y))
    [] operator = "!=" -> Ref(NativeBool(x # y))
    [] OTHER           -> Failed

(* A nil operand panics at its Type(), which the right one is not asked    *)
(* for when the left one is neither integer nor string and the operator    *)
(* compares.                                                               *)
EvalInfix(operator, left, right, s) ==
  LET both(type)  == TypeIs(s, left, type) /\ TypeIs(s, right, type)
      compares    == operator \in {"==", "!="}
      rightIsRead == ~ compares \/ TypeIs(s, left, "INTEGER") \/ TypeIs(s, left, "STRING")
      byReference == CASE operator = "==" -> Ref(NativeBool(left = right))
                       [] operator = "!=" -> Ref(NativeBool(left # right))
                       [] OTHER           -> Failed
  IN Come(IF left = Nil \/ (right = Nil /\ rightIsRead) THEN Panic
          ELSE CASE both("INTEGER") -> EvalInteger(operator, s.heap[left].n, s.heap[right].n)
                 [] both("STRING")  -> EvalString(operator, s.heap[left].s, s.heap[right].s)
                 [] OTHER           -> byReference, s)

EvalIndex(left, index, s) ==
  IF index = Nil /\ (TypeIs(s, left, "ARRAY") \/ TypeIs(s, left, "HASH")) THEN Panics(s)
  ELSE Come(IndexOutcome(s.heap, left, index), s)

(* TokenLiteral; that of a string literal with the text quote would do,    *)
(* too, and is left out.                                                   *)
IsNamed(ref, name, s) == s.nodes[ref].node = "Identifier" /\ s.nodes[ref].name = name

(* Mutant of ConvertToAstNode: integers only.                              *)
ConvertIntegers(v, s) ==
  LET add(n) == [ref |-> Len(s.nodes) + 1, s |-> [s EXCEPT !.nodes = Append(@, n)]]
  IN IF TypeIs(s, v, "INTEGER") THEN add(IntegerLiteral(s.heap[v].n)) ELSE [ref |-> NilNodeRef, s |-> s]

(* The node of a boolean gets the token of its value, but not the value.   *)
ConvertToAstNode(v, s) ==
  LET add(n) == [ref |-> Len(s.nodes) + 1, s |-> [s EXCEPT !.nodes = Append(@, n)]]
  IN CASE TypeIs(s, v, "INTEGER") -> add(IntegerLiteral(s.heap[v].n))
       [] TypeIs(s, v, "BOOLEAN") -> add(Boolean(FALSE))
       [] TypeIs(s, v, "QUOTE")   -> [ref |-> s.heap[v].node, s |-> s]
       [] OTHER                   -> [ref |-> NilNodeRef, s |-> s]

-----------------------------------------------------------------------------
RECURSIVE Eval(_, _, _), EvalStatements(_, _, _, _), EvalExpressions(_, _, _, _),
          EvalPairs(_, _, _, _), Apply(_, _, _), Modify(_, _, _), ModifyChildren(_, _, _, _)

(* evalProgram's and evalBlockStatement's loop; last is result.            *)
EvalStatements(refs, env, s, last) ==
  IF refs = << >> THEN Value(last, s)
  ELSE LET r == Eval(Head(refs), env, s)
       IN IF Aborts(r) \/ TypeIs(r.s, r.v, "RETURN_VALUE") THEN r
          ELSE EvalStatements(Tail(refs), env, r.s, r.v)

UnwrapReturnValue(r) ==
  IF TypeIs(r.s, r.v, "RETURN_VALUE") THEN Value(r.s.heap[r.v].v, r.s) ELSE r

(* The values of the expressions, or the error of one alone.               *)
EvalExpressions(refs, env, s, values) ==
  IF refs = << >> THEN [values |-> values, s |-> s]
  ELSE LET r == Eval(Head(refs), env, s)
       IN IF Aborts(r) THEN [values |-> << r.v >>, s |-> r.s]
          ELSE EvalExpressions(Tail(refs), env, r.s, Append(values, r.v))

(* What the values are if one of the expressions does not come to one.     *)
Interrupted(all)  == all.s.panic \/ (Len(all.values) = 1 /\ TypeIs(all.s, all.values[1], "ERROR"))
Interruption(all) == Value(IF all.s.panic THEN Nil ELSE all.values[1], all.s)

EvalPairs(pairs, env, s, data) ==
  LET key   == Eval(pairs[1][1], env, s)
      value == Eval(pairs[1][2], env, key.s)
  IN IF pairs = << >> THEN NewObject(Hash(data), s)
     ELSE IF Aborts(key) THEN key
     ELSE IF key.v = Nil THEN Panics(key.s)
     ELSE IF ~ Hashable(key.s.heap, key.v) THEN NewError(key.s)
     ELSE IF Aborts(value) THEN value
     ELSE EvalPairs(Tail(pairs), env, value.s, Bind(data, HashKey(key.s.heap, key.v), value.v))

Apply(function, args, s) ==
  LET fn   == s.heap[function]
      call == Enclosed(fn.env, fn.parameters, args, s)
  IN CASE function = Nil        -> Panics(s)
       [] TypeIs(s, function, "FUNCTION") ->
            IF Len(args) # Len(fn.parameters) THEN NewError(s)
            ELSE UnwrapReturnValue(Eval(fn.body, call.env, call.s))
       [] TypeIs(s, function, "BUILTIN")  -> Come(BuiltinOutcome(s.heap, fn.name, args), s)
       [] OTHER                 -> NewError(s)

EvalQuote(n, env, s) ==
  LET m == Modify(n.arguments[1], [is |-> "unquote", env |-> env], s)
  IN IF n.arguments = << >> \/ m.s.panic THEN Panics(IF n.arguments = << >> THEN s ELSE m.s)
     ELSE NewObject(Quote(m.ref), m.s)

EvalCall(n, env, s) ==
  LET function == Eval(n.function, env, s)
      args     == EvalExpressions(n.arguments, env, function.s, << >>)
  IN IF n.function = NilNodeRef THEN Panics(s)
     ELSE IF IsNamed(n.function, "quote", s) THEN EvalQuote(n, env, s)
     ELSE IF Aborts(function) THEN function
     ELSE IF Interrupted(args) THEN Interruption(args)
     ELSE Apply(function.v, args.values, args.s)

EvalArrayLiteral(n, env, s) ==
  LET elements == EvalExpressions(n.elements, env, s, << >>)
  IN IF Interrupted(elements) THEN Interruption(elements)
     ELSE NewObject(Array(elements.values), elements.s)

EvalIf(n, env, s) ==
  LET condition == Eval(n.condition, env, s)
  IN IF Aborts(condition) THEN condition
     ELSE IF IsTruthy(condition.v) THEN Eval(n.consequence, env, condition.s)
     ELSE IF n.alternative # << >> THEN Eval(n.alternative[1], env, condition.s)
     ELSE Value(Null, condition.s)

EvalLet(n, env, s) ==
  LET r == Eval(n.value, env, s)
  IN IF Aborts(r) THEN r ELSE Value(Nil, Set(env, n.name, r.v, r.s))

EvalReturn(n, env, s) ==
  LET r == Eval(n.value, env, s)
  IN IF Aborts(r) THEN r ELSE NewObject(ReturnValue(r.v), r.s)

EvalPrefixExpression(n, env, s) ==
  LET r == Eval(n.right, env, s)
  IN IF Aborts(r) THEN r ELSE EvalPrefix(n.operator, r.v, r.s)

EvalInfixExpression(n, env, s) ==
  LET l == Eval(n.left, env, s)
      r == Eval(n.right, env, l.s)
  IN IF Aborts(l) THEN l ELSE IF Aborts(r) THEN r ELSE EvalInfix(n.operator, l.v, r.v, r.s)

EvalIndexExpression(n, env, s) ==
  LET l == Eval(n.left, env, s)
      i == Eval(n.index, env, l.s)
  IN IF Aborts(l) THEN l ELSE IF Aborts(i) THEN i ELSE EvalIndex(l.v, i.v, i.s)

EvalNode(n, env, s) ==
  CASE n.node = "Program"             -> UnwrapReturnValue(EvalStatements(n.statements, env, s, Nil))
    [] n.node = "BlockStatement"      -> EvalStatements(n.statements, env, s, Nil)
    [] n.node = "ExpressionStatement" -> Eval(n.expression, env, s)
    [] n.node = "LetStatement"        -> EvalLet(n, env, s)
    [] n.node = "ReturnStatement"     -> EvalReturn(n, env, s)
    [] n.node = "Identifier"          -> EvalIdentifier(n.name, env, s)
    [] n.node = "IfExpression"        -> EvalIf(n, env, s)
    [] n.node = "CallExpression"      -> EvalCall(n, env, s)
    [] n.node = "ArrayLiteral"        -> EvalArrayLiteral(n, env, s)
    [] n.node = "IndexExpression"     -> EvalIndexExpression(n, env, s)
    [] n.node = "HashLiteral"         -> EvalPairs(n.pairs, env, s, << >>)
    [] n.node = "FunctionLiteral"     -> NewObject(Function(n.parameters, n.body, env), s)
    [] n.node = "IntegerLiteral"      -> NewObject(Integer(n.n), s)
    [] n.node = "StringLiteral"       -> NewObject(String(n.s), s)
    [] n.node = "Boolean"             -> Value(NativeBool(n.b), s)
    [] n.node = "PrefixExpression"    -> EvalPrefixExpression(n, env, s)
    [] n.node = "InfixExpression"     -> EvalInfixExpression(n, env, s)
    [] OTHER                          -> NewError(s)

Eval(ref, env, s) ==
  IF ref \in {NilNodeRef, NilLetRef} THEN Panics(s) ELSE EvalNode(s.nodes[ref], env, s)

-----------------------------------------------------------------------------
(* ast.Modify: children first, each put back where it was, then the node   *)
(* itself.  The modifier is a record: is tells which of the two, env where *)
(* it evaluates or finds macros.                                           *)

(* Those of a call and of a macro are not looked at.                       *)
ModifiedChildren(n) ==
  IF n.node \in {"CallExpression", "MacroLiteral"} THEN << >> ELSE Children(n)

(* A node whose child i has become c; the pairs of a hash literal are      *)
(* copies, and the literal keeps the old ones.                             *)
WithChild(n, i, c) ==
  IF n.node = "HashLiteral" THEN n ELSE WithChildren(n, [Children(n) EXCEPT ![i] = c])

(* Elements and pairs have to be expressions, and a nil is none.           *)
NeedsExpression(n) == n.node \in {"ArrayLiteral", "HashLiteral"}

ModifyChildren(ref, i, modifier, s) ==
  LET n == s.nodes[ref]
      m == Modify(Children(n)[i], modifier, s)
  IN IF i > Len(ModifiedChildren(n)) \/ s.panic THEN s
     ELSE IF m.ref = NilNodeRef /\ NeedsExpression(n) THEN [m.s EXCEPT !.panic = TRUE]
     ELSE ModifyChildren(ref, i + 1, modifier, [m.s EXCEPT !.nodes[ref] = WithChild(@, i, m.ref)])

(* evalUnquoteCalls.                                                       *)
Unquoted(ref, env, s) ==
  LET n == s.nodes[ref]
      r == Eval(n.arguments[1], env, s)
  IN IF n.function = NilNodeRef THEN [ref |-> ref, s |-> [s EXCEPT !.panic = TRUE]]
     ELSE IF ~ IsNamed(n.function, "unquote", s) \/ Len(n.arguments) # 1 THEN [ref |-> ref, s |-> s]
     ELSE IF r.s.panic THEN [ref |-> ref, s |-> r.s]
     ELSE ConvertToAstNode(r.v, r.s)

(* isMacroCall.                                                            *)
IsMacroCall(n, env, s) ==
  /\ n.function # NilNodeRef
  /\ s.nodes[n.function].node = "Identifier"
  /\ IsBound(env, s.nodes[n.function].name, s)
  /\ TypeIs(s, Get(env, s.nodes[n.function].name, s), "MACRO")

(* Mutant of QuotedArgs: the loop's variable shared by all.                *)
LastArgQuoted(arguments, s) ==
  [s EXCEPT !.heap = @ \o [i \in DOMAIN arguments |-> Quote(arguments[Len(arguments)])]]

(* quoteArgs.                                                              *)
QuotedArgs(arguments, s) == [s EXCEPT !.heap = @ \o [i \in DOMAIN arguments |-> Quote(arguments[i])]]

(* What ExpandMacros puts in the place of a call: the node that the body   *)
(* of the macro quotes.  Its environment ends in the macros', and the call *)
(* needs an argument for each parameter.                                   *)
Expanded(ref, env, s) ==
  LET n     == s.nodes[ref]
      macro == s.heap[Get(env, s.nodes[n.function].name, s)]
      args  == [i \in 1..Len(n.arguments) |-> Len(s.heap) + i]
      call  == Enclosed(macro.env, macro.parameters, args, QuotedArgs(n.arguments, s))
      r     == Eval(macro.body, call.env, call.s)
  IN IF ~ IsMacroCall(n, env, s) THEN [ref |-> ref, s |-> s]
     ELSE IF Len(n.arguments) < Len(macro.parameters) THEN [ref |-> ref, s |-> [s EXCEPT !.panic = TRUE]]
     ELSE IF r.s.panic \/ ~ TypeIs(r.s, r.v, "QUOTE") THEN [ref |-> ref, s |-> [r.s EXCEPT !.panic = TRUE]]
     ELSE [ref |-> r.s.heap[r.v].node, s |-> r.s]

Modify(ref, modifier, s) ==
  LET t == ModifyChildren(ref, 1, modifier, s)
  IN IF ref \in {NilNodeRef, NilLetRef} THEN [ref |-> ref, s |-> s]
     ELSE IF t.panic \/ t.nodes[ref].node # "CallExpression" THEN [ref |-> ref, s |-> t]
     ELSE IF modifier.is = "unquote" THEN Unquoted(ref, modifier.env, t)
     ELSE Expanded(ref, modifier.env, t)
=============================================================================
