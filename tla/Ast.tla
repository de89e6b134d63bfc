--------------------------------- MODULE Ast ---------------------------------
(***************************************************************************)
(* Package ast: the nodes of a program as records, tokens left out.  The   *)
(* blocks of conditionals and functions are given by their statements;     *)
(* alternative is << >> when the if has no else, and << block >> when it   *)
(* has one.  NilNode is a nil Expression, NilLet the nil *LetStatement     *)
(* that a Statement may hold: as an interface it is not nil.               *)
(***************************************************************************)
EXTENDS Sequences

Identifier(name)        == [node |-> "Identifier", name |-> name]
IntegerLiteral(n)       == [node |-> "IntegerLiteral", n |-> n]
StringLiteral(s)        == [node |-> "StringLiteral", s |-> s]
Boolean(b)              == [node |-> "Boolean", b |-> b]
ArrayLiteral(elements)  == [node |-> "ArrayLiteral", elements |-> elements]
HashLiteral(pairs)      == [node |-> "HashLiteral", pairs |-> pairs]
IndexExpression(l, i)   == [node |-> "IndexExpression", left |-> l, index |-> i]
CallExpression(f, args) == [node |-> "CallExpression", function |-> f, arguments |-> args]

PrefixExpression(op, r)   == [node |-> "PrefixExpression", operator |-> op, right |-> r]
InfixExpression(l, op, r) ==
  [node |-> "InfixExpression", operator |-> op, left |-> l, right |-> r]

BlockStatement(statements) == [node |-> "BlockStatement", statements |-> statements]

IfExpression(condition, consequence, alternative) ==
  [ node |-> "IfExpression", condition |-> condition,
    consequence |-> BlockStatement(consequence),
    alternative |-> [i \in DOMAIN alternative |-> BlockStatement(alternative[i])] ]

FunctionLiteral(parameters, body) ==
  [node |-> "FunctionLiteral", fname |-> "", parameters |-> parameters,
   body |-> BlockStatement(body)]

MacroLiteral(parameters, body) ==
  [node |-> "MacroLiteral", parameters |-> parameters, body |-> BlockStatement(body)]

NilNode == [node |-> "nil"]
NilLet  == [node |-> "nil LetStatement"]

Program(statements)    == [node |-> "Program", statements |-> statements]
ExpressionStatement(e) == [node |-> "ExpressionStatement", expression |-> e]
ReturnStatement(e)     == [node |-> "ReturnStatement", value |-> e]

(* The parser gives a function literal the name that let binds it to.      *)
LetStatement(name, e) ==
  [ node  |-> "LetStatement", name |-> name,
    value |-> IF e.node = "FunctionLiteral" THEN [e EXCEPT !.fname = name] ELSE e ]
=============================================================================
