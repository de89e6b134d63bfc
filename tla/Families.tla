------------------------------ MODULE Families ------------------------------
(***************************************************************************)
(* Families of small programs, each given by its statements.               *)
(***************************************************************************)
EXTENDS Ast, Integers

Do(e)        == ExpressionStatement(e)
Let(x, e)    == LetStatement(x, e)
Return_(e)   == ReturnStatement(e)
N(n)         == IntegerLiteral(n)
V(x)         == Identifier(x)
Call_(f, e)  == CallExpression(f, << e >>)
Plus(l, r)   == InfixExpression(l, "+", r)

-----------------------------------------------------------------------------
(* Control flow: let f = fn(a) { s1; s2 }; [3, f(1)];  where the blocks of *)
(* conditionals end in an expression or a return, and functions nest,      *)
(* capture a, shadow it and call each other.                               *)
Atoms == { V("a"), N(2), Boolean(FALSE) }

FlowBlocks ==
  { << Do(e) >> : e \in Atoms } \cup { << Return_(V("a")) >> }
  \cup { << Let("b", N(4)), Do(Plus(V("b"), V("a"))) >> }

Conditionals ==
  { IfExpression(c, block, alternative) :
      c \in { V("a"), Boolean(FALSE) }, block \in FlowBlocks,
      alternative \in { << >> } \cup { << b >> : b \in FlowBlocks } }

Capturing ==
  { FunctionLiteral(<< >>, << Do(V("a")) >>),
    FunctionLiteral(<< "b" >>, << Let("a", N(5)), Do(Plus(V("a"), V("b"))) >>),
    FunctionLiteral(<< "b" >>, << Do(Call_(FunctionLiteral(<< >>, << Do(Plus(V("a"), V("b"))) >>), V("a"))) >>),
    FunctionLiteral(<< "b" >>, << Return_(Call_(FunctionLiteral(<< "a" >>, << Do(Plus(V("a"), V("b"))) >>), V("a"))) >>) }

FlowExpressions ==
  Atoms \cup Conditionals
  \cup { Plus(N(1), e) : e \in Conditionals }
  \cup { CallExpression(f, args) : f \in Capturing, args \in { << >>, << V("a") >> } }
  \cup { Call_(V("f"), e) : e \in Atoms }

FlowSources ==
  { << Let("f", FunctionLiteral(<< "a" >>, << s, t >>)),
       Do(ArrayLiteral(<< N(3), Call_(V("f"), e) >>)) >> :
      s \in { Do(e) : e \in FlowExpressions } \cup { Let("b", e) : e \in FlowExpressions },
      t \in { Do(V("a")), Let("a", Plus(V("a"), N(1))),
              Do(Call_(V("f"), V("a"))), Do(Plus(V("a"), V("b"))),
              Do(IfExpression(V("a"), << Do(Call_(V("len"), V("a"))) >>, << >>)) },
      e \in { N(1), Boolean(FALSE) } }

-----------------------------------------------------------------------------
(* Values: one operation on operands of every type, then uses of what it   *)
(* gave.                                                                   *)
Null_  == Call_(V("first"), ArrayLiteral(<< >>))
Error_ == Call_(V("len"), N(1))

Operands_ ==
  { N(0), N(1), N(100), StringLiteral(<< "s" >>), Boolean(TRUE), Boolean(FALSE),
    ArrayLiteral(<< >>), ArrayLiteral(<< N(1), Null_ >>),
    HashLiteral(<< << N(1), Boolean(TRUE) >> >>),
    FunctionLiteral(<< "b" >>, << Do(V("b")) >>), V("len"), Null_, Error_ }

Operations ==
  { InfixExpression(l, op, r) : l \in Operands_, r \in Operands_,
      op \in {"+", "-", "*", "/", "==", "!=", "<", ">"} }
  \cup { IndexExpression(l, r) : l \in Operands_, r \in Operands_ }
  \cup { PrefixExpression(op, r) : op \in {"!", "-"}, r \in Operands_ }
  \cup { HashLiteral(<< << N(1), l >>, << r, N(2) >> >>) : l \in Operands_, r \in Operands_ }
  \cup { Call_(f, r) : f \in Operands_ \cup { V("first"), V("last"), V("rest"), V("pop"), V("puts") },
                       r \in Operands_ }
  \cup { CallExpression(V("push"), << l, r >>) : l \in Operands_, r \in Operands_ }
  \cup { IfExpression(c, << Do(N(2)) >>, << >>) : c \in Operands_ }

ValueSources ==
  { << Let("a", e), Do(ArrayLiteral(<< V("a"), InfixExpression(V("a"), "==", V("a")),
                                       Call_(V("first"), V("a")), PrefixExpression("!", V("a")) >>)) >> :
      e \in Operations }

(* Variables that are read before they were written, by themselves and     *)
(* inside of what is made of them.                                         *)
UnsetSources ==
  { << Let("a", e), Do(Call_(V("puts"), V("a"))) >> :
      e \in { V("a"), ArrayLiteral(<< V("a") >>), HashLiteral(<< << N(1), V("a") >> >>),
              HashLiteral(<< << V("a"), N(1) >> >>), Plus(N(1), V("a")),
              Call_(V("len"), V("a")), Call_(V("first"), ArrayLiteral(<< V("a") >>)),
              Call_(FunctionLiteral(<< "b" >>, << Let("f", V("f")), Do(ArrayLiteral(<< V("b"), V("f") >>)) >>), N(1)) } }

-----------------------------------------------------------------------------
(* Limits: functions that call themselves with their locals and            *)
(* temporaries piling up, and calls that reserve locals at the stack's end. *)
LimitBodies ==
  { << Do(Call_(V("f"), V("a"))) >>,
    << Do(Plus(N(1), Call_(V("f"), V("a")))) >>,
    << Let("b", V("a")), Do(Call_(V("f"), V("b"))) >>,
    << Let("b", Call_(V("f"), V("a"))), Do(V("b")) >>,
    << Do(ArrayLiteral(<< V("a"), V("a"), V("a"), Call_(V("f"), V("a")) >>)) >>,
    << Let("b", FunctionLiteral(<< >>, << >>)), Do(Call_(V("f"), V("b"))) >>,
    << Do(Call_(V("f"), ArrayLiteral(<< V("a"), V("a"), V("a"), V("a") >>))) >>,
    << Do(CallExpression(FunctionLiteral(<< >>, << Do(Call_(V("f"), V("a"))) >>), << >>)) >>,
    << Do(IfExpression(PrefixExpression("!", V("a")), << Do(N(1)) >>,
                       << << Do(Call_(V("f"), ArrayLiteral(<< V("a"), V("a") >>))) >> >>)) >>,
    << Let("b", N(1)), Let("b", FunctionLiteral(<< >>, << Return_(V("a")) >>)), Do(V("a")) >>,
    << Let("b", V("b")), Do(Call_(V("f"), V("a"))) >> }

Nested(e, n) ==
  LET nest[i \in 0..n] == IF i = 0 THEN e ELSE Plus(N(1), nest[i - 1]) IN nest[n]

LimitSources ==
  { << Let("f", FunctionLiteral(<< "a" >>, body)), Do(Nested(Call_(V("f"), N(2)), n)) >> :
      body \in LimitBodies, n \in 0..15 }

-----------------------------------------------------------------------------
(* A conditional whose block ends in a let, in the way of perm.monkey: no  *)
(* value is left for it.                                                   *)
LetInBlockSources ==
  { << Let("f", FunctionLiteral(<< >>,
                 << Let("a", N(1)), Let("b", N(2)),
                    Do(IfExpression(Boolean(TRUE), << Let("a", N(3)) >>, << >>)),
                    Do(Plus(V("a"), V("b"))) >>)),
               Do(CallExpression(V("f"), << >>)) >> }

(* A function as the key of a hash literal.                                *)
UnhashableKeySources ==
  { << Do(HashLiteral(<< << FunctionLiteral(<< >>, << >>), N(1) >> >>)) >> }
=============================================================================
