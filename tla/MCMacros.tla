------------------------------ MODULE MCMacros ------------------------------
(***************************************************************************)
(* Programs with macros, whole, cut off at any token or with a wrong one,  *)
(* and what their expansion should be.                                     *)
(***************************************************************************)
EXTENDS Script
LOCAL INSTANCE SequencesExt
LOCAL G == INSTANCE Grammar

V(x)    == Identifier(x)
N(n)    == IntegerLiteral(n)
Do(e)   == ExpressionStatement(e)
Call(f, args) == CallExpression(V(f), args)
Minus(l, r)   == InfixExpression(l, "-", r)
Unquote(e)    == Call("unquote", << e >>)
Quoting(e)    == << Do(Call("quote", << e >>)) >>

DefMacro(name, quoted) == LetStatement(name, MacroLiteral(<< "a", "b" >>, Quoting(quoted)))

Quoted ==
  { Unquote(V("a")),
    Minus(Unquote(V("b")), Unquote(V("a"))),
    Minus(Unquote(InfixExpression(N(1), "+", N(1))), PrefixExpression("!", Unquote(V("b")))),
    IfExpression(Unquote(V("a")), << Do(Unquote(V("b"))) >>, << << ReturnStatement(Unquote(V("a"))) >> >>),
    IndexExpression(ArrayLiteral(<< Unquote(V("b")), Unquote(V("a")) >>), Unquote(V("a"))),
    FunctionLiteral(<< "a" >>, << LetStatement("c", Unquote(V("a"))), Do(Call("len", << Unquote(V("b")) >>)) >>),
    HashLiteral(<< << N(1), Minus(Unquote(V("b")), Unquote(V("a"))) >>, << PrefixExpression("!", Unquote(V("a"))), N(2) >> >>),
    HashLiteral(<< << N(1), Unquote(V("a")) >> >>),
    Minus(Unquote(Boolean(TRUE)), Unquote(V("a"))) }

Definitions == { DefMacro("m", q) : q \in Quoted } \cup { DefMacro("n", Minus(Unquote(V("a")), V("b"))) }

Uses ==
  { Do(Call("m", << N(3), Minus(V("c"), N(4)) >>)),
    LetStatement("d", IfExpression(V("c"), << Do(Call("m", << N(5), V("c") >>)) >>,
                                   << << Do(Minus(N(6), Call("n", << N(7), N(8) >>))) >> >>)),
    Do(ArrayLiteral(<< Call("n", << Call("m", << N(1), N(2) >>), V("d") >>) >>)),
    Do(HashLiteral(<< << N(1), Call("len", << N(2) >>) >>, << V("c"), PrefixExpression("!", Call("m", << N(9), N(3) >>)) >> >>)),
    Do(HashLiteral(<< << Call("m", << N(3), N(4) >>), N(5) >> >>)) }

Scripts(n) == UNION { [1..k -> Definitions \cup Uses] : k \in 0..n }

Text(statements) == G!UnparseProgram(Program(statements))

(* Also macros that are misused, and texts that do not parse.              *)
Misuses ==
  { << DefMacro("m", Unquote(V("a"))), Do(Call("m", << N(1) >>)) >>,
    << LetStatement("m", MacroLiteral(<< >>, << Do(N(1)) >>)), Do(Call("m", << >>)) >>,
    << LetStatement("m", MacroLiteral(<< >>, << ReturnStatement(Call("quote", << N(1) >>)) >>)),
       Do(Call("m", << N(2) >>)) >>,
    << LetStatement("m", MacroLiteral(<< >>, << Do(Call("quote", << >>)) >>)), Do(Call("m", << >>)) >> }

Whole == { Text(s) : s \in Scripts(3) }

CutOff ==
  UNION { { SubSeq(Text(s), 1, i) : i \in 0..Len(Text(s)) } : s \in Scripts(2) \cup Misuses }

(* Statements in which a semicolon stands for one token.                   *)
Garbled ==
  UNION { { Text(<< d >>) \o ReplaceAt(Text(<< u >>), i, [type |-> ";"]) : i \in DOMAIN Text(<< u >>) }
          : d \in Definitions, u \in Uses }

MacroSources == Whole \cup CutOff \cup Garbled

(* A macro that is called thrice, the second time as a key.                *)
ThriceCalledSources ==
  { Text(<< DefMacro("m", IfExpression(Unquote(Boolean(TRUE)), << Do(Unquote(V("a"))) >>, << >>)),
            Do(Call("m", << N(1), N(2) >>)),
            Do(HashLiteral(<< << Call("m", << N(3), N(4) >>), N(5) >> >>)),
            Do(Call("m", << N(6), N(7) >>)) >>) }

-----------------------------------------------------------------------------
(* The program as it was written, the macros that it defines, by name, and *)
(* its calls of them.                                                      *)
Written == ParseProgram(source).node.statements

IsDefinition(statement) == statement.node = "LetStatement" /\ statement.value.node = "MacroLiteral"

Others(statements) == SelectSeq(statements, LAMBDA s : ~ IsDefinition(s))

MacrosOf(statements) ==
  LET definitions == SelectSeq(statements, IsDefinition)
      last(name)  == CHOOSE i \in DOMAIN definitions :
        /\ definitions[i].name = name
        /\ \A j \in (i + 1)..Len(definitions) : definitions[j].name # name
  IN [name \in { definitions[i].name : i \in DOMAIN definitions } |-> definitions[last(name)].value]

IsCallOf(e, names) ==
  e.node = "CallExpression" /\ e.function.node = "Identifier" /\ e.function.name \in names

(* The nodes of a tree that are not inside a call: Modify does not look    *)
(* there.                                                                  *)
RECURSIVE Nodes(_)
Nodes(e) ==
  {e} \cup IF e.node = "CallExpression" THEN {}
           ELSE UNION { Nodes(Children(e)[i]) : i \in DOMAIN Children(e) }

CallsIn(e, names) == { c \in Nodes(e) : IsCallOf(c, names) }

CallsOf(macros, statements) == CallsIn(Program(statements), DOMAIN macros)

Called(macros, calls) == { macros[c.function.name] : c \in calls }

IsMisused(call, macro) ==
  \/ Len(call.arguments) < Len(macro.parameters)
  \/ ~ \E i \in DOMAIN macro.body.statements :
         LET s == macro.body.statements[i]
         IN s.node = "ExpressionStatement" /\ IsCallOf(s.expression, {"quote"}) /\ s.expression.arguments # << >>

UsedWell(macros, calls) == \A c \in calls : ~ IsMisused(c, macros[c.function.name])

QuotedBy(macro) == macro.body.statements[1].expression.arguments[1]

(* What stands for unquote(e): an argument, true, or 2 for 1 + 1.          *)
Fill(unquote, args) ==
  LET e == unquote.arguments[1]
  IN CASE e.node = "Identifier" -> args[e.name]
       [] e.node = "Boolean"    -> e
       [] OTHER                 -> N(2)

Filling(macro, call) ==
  [p \in ToSet(macro.parameters) |-> call.arguments[CHOOSE i \in DOMAIN macro.parameters : macro.parameters[i] = p]]

(* The tree with by[c] for every call c of DOMAIN by, unless it is inside  *)
(* another call.                                                           *)
RECURSIVE Replaced(_, _)
Replaced(e, by) ==
  IF e.node = "CallExpression" THEN IF e \in DOMAIN by THEN by[e] ELSE e
  ELSE WithChildren(e, [i \in 1..Len(Children(e)) |-> Replaced(Children(e)[i], by)])

Expansion(macro, call) ==
  Replaced(QuotedBy(macro),
           [u \in CallsIn(QuotedBy(macro), {"unquote"}) |-> Fill(u, Filling(macro, call))])

Substituted(macros, calls, statements) ==
  Replaced(Program(statements), [c \in calls |-> Expansion(macros[c.function.name], c)]).statements

Current_ == Harvest(program, state.nodes).statements

-----------------------------------------------------------------------------
(* What expansion gets wrong.  What a call becomes that is itself the key  *)
(* or the value of a pair is put into a copy of the pair and lost          *)
(* (modify.go:64).                                                         *)
LostInPair(e, names) ==
  \E h \in Nodes(e) : h.node = "HashLiteral" /\ \E i \in DOMAIN Children(h) : IsCallOf(Children(h)[i], names)

(* unquote(true) becomes a node whose Value is false (quote_unquote.go:51).*)
UnquotesTrue(macro) == \E u \in CallsIn(QuotedBy(macro), {"unquote"}) : u.arguments[1] = Boolean(TRUE)

(* The first call of a macro rewrites its body, so that another one finds  *)
(* no unquote in it (quote_unquote.go:16); only an unquote that is all     *)
(* that is quoted is not a part that could be rewritten.                   *)
UsedUp(macros, calls) ==
  \E c, d \in calls : /\ c # d /\ c.function = d.function
                      /\ ~ IsCallOf(QuotedBy(macros[c.function.name]), {"unquote"})

IsAffected(macros, calls, statements) ==
  \/ LostInPair(Program(statements), DOMAIN macros)
  \/ \E m \in Called(macros, calls) : UnquotesTrue(m) \/ LostInPair(QuotedBy(m), {"unquote"})
  \/ UsedUp(macros, calls)

-----------------------------------------------------------------------------
(* DefineMacros takes the macro definitions out of a program and nothing   *)
(* else, wherever they lie between the other statements, which stay in     *)
(* their order.  One definition stays: that at the start of a program with *)
(* another one in it (macro_expansion.go:22-34).                           *)
Staying(statements) ==
  IF statements # << >> /\ IsDefinition(statements[1]) /\ Len(statements) > Len(Others(statements)) + 1
  THEN << statements[1] >> ELSE << >>

OnlyDefinitionsGo ==
  stage = "defined" => \A written \in { Written } : Current_ = Staying(written) \o Others(written)

(* A macro call becomes the macro's quoted tree with the call's own        *)
(* arguments in place of what it unquotes, and the rest of the program     *)
(* stays as it is: whatever the order of definitions, redefinitions and    *)
(* calls, and inside which constructs they are (macro_expansion.go:38-61,  *)
(* quote_unquote.go:11-39, modify.go:64-67).                               *)
ExpandedAsWritten(macros, calls, statements) ==
  UsedWell(macros, calls) => Others(Current_) = Substituted(macros, calls, statements)

ExpansionIsSubstitution ==
  stage = "expanded" /\ ~ failed =>
    \A written \in { Written } : \A macros \in { MacrosOf(written) } :
      ExpandedAsWritten(macros, CallsOf(macros, Others(written)), Others(written))

(* All other programs expand as they are written: the three faults above   *)
(* are all that ast.Modify, quote and ExpandMacros have                    *)
(* (macro_expansion.go:38-61, quote_unquote.go:11-39, modify.go:16-69).    *)
OtherExpansionIsSubstitution ==
  stage = "expanded" /\ ~ failed =>
    \A written \in { Written } : \A macros \in { MacrosOf(written) } :
      \A calls \in { CallsOf(macros, Others(written)) } :
        IsAffected(macros, calls, Others(written)) \/ ExpandedAsWritten(macros, calls, Others(written))

(* The process goes down before the parser's errors are looked at exactly  *)
(* for a let at top level that does not parse, a macro that is called with *)
(* too few arguments or does not come to a quote, and an array or a hash   *)
(* in which something does not parse, or an argument that does not is put  *)
(* (main.go:179-182; macro_expansion.go:14, 57, 68; modify.go:60, 65-66).  *)
NilInList(e) ==
  \E n \in Nodes(e) : n.node \in {"ArrayLiteral", "HashLiteral"} /\ NilNode \in ToSet(Children(n))

OnlyTheseTextsPanic ==
  stage \in {"expanded", "crashed"} =>
    \A written \in { Written } : \A macros \in { MacrosOf(written) } :
      \A calls \in { CallsOf(macros, Others(written)) } :
        stage = "crashed" <=>
          \/ NilLet \in ToSet(written)
          \/ ~ UsedWell(macros, calls)
          \/ NilInList(Program(Substituted(macros, calls, Others(written))))

MacroNames == {"a", "b", "c", "d", "m", "n", "len", "quote", "unquote"}
=============================================================================
