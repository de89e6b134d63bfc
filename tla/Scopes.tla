------------------------------- MODULE Scopes -------------------------------
(***************************************************************************)
(* The compiler's use of its symbol tables (compiler.go): one action per   *)
(* AST node that touches them.  The order of the actions is the order in   *)
(* which Compile meets the nodes of some program; what the instructions    *)
(* load and store is remembered in access.                                 *)
(***************************************************************************)
EXTENDS SymbolTable

CONSTANTS
  Builtins,         \* the sequence of builtin names, object.Builtins
  MaxDepth,         \* bound: nested functions, the program counted
  MaxDefinitions,   \* bound: definitions in one table
  MaxParameters     \* bound: parameters of a function literal

ASSUME NamesAssumption ==
  /\ Builtins \in Seq(Names)
  /\ "" \notin Names
  /\ MaxDepth \in Nat /\ MaxDefinitions \in Nat /\ MaxParameters \in Nat

VARIABLES
  tables,     \* the chain of symbol tables, innermost last
  access      \* the symbols the last node's instructions load or store

vars == << tables, access >>

(* What an AST node did: its kind, the name it is about, "" if none, and   *)
(* the symbols of its instructions.                                        *)
Access(kind, name, symbols) == [kind |-> kind, name |-> name, symbols |-> symbols]

-----------------------------------------------------------------------------
Init ==
  /\ tables = << BuiltinTable(Builtins) >>
  /\ access = Access("none", "", << >>)

(* LetStatement: a local that the name resolves to is stored to again,     *)
(* any other name is defined.  Resolve may capture on the way.             *)
Let(x) ==
  LET resolved == ResolvedTables(tables, x)
      symbol   == ResolvedSymbol(tables, x)
  IN \/ /\ symbol.scope = "LOCAL"
        /\ tables' = resolved
        /\ access' = Access("let", x, << symbol >>)
     \/ /\ symbol.scope # "LOCAL"
        /\ Current(tables).num < MaxDefinitions
        /\ tables' = Define(resolved, x)
        /\ access' = Access("let", x, << DefineSymbol(resolved, x) >>)

(* Identifier: resolve and load.                                           *)
Use(x) ==
  /\ Resolvable(tables, x)
  /\ tables' = ResolvedTables(tables, x)
  /\ access' = Access("use", x, << ResolvedSymbol(tables, x) >>)

(* FunctionLiteral before its body: enterScope, DefineFunctionName when it *)
(* has a name, Define for the parameters.                                  *)
EnterFunction(name, parameters) ==
  /\ Len(tables) < MaxDepth
  /\ tables' = Append(tables, FunctionTable(name, parameters))
  /\ access' = Access("enter", "", << >>)

(* FunctionLiteral after its body: leaveScope, then the symbols that the   *)
(* body captured are loaded in the enclosing function.                     *)
LeaveFunction ==
  /\ Len(tables) > 1
  /\ tables' = SubSeq(tables, 1, Len(tables) - 1)
  /\ access' = Access("leave", "", Current(tables).free)

Next ==
  \/ \E x \in Names : Let(x) \/ Use(x)
  \/ \E name \in Names \cup {""}, k \in 0..MaxParameters :
       \E parameters \in [1..k -> Names] : EnterFunction(name, parameters)
  \/ LeaveFunction

Spec == Init /\ [][Next]_vars

-----------------------------------------------------------------------------
TypeOK ==
  /\ tables \in Seq(Table)
  /\ Len(tables) > 0
  /\ access \in [ kind : {"none", "let", "use", "enter", "leave"}, name : Names \cup {""},
                  symbols : Seq(Symbol) ]

(***************************************************************************)
(* What a function captured is, name by name, what that name denotes in    *)
(* the function around it, for as long as the function is open: the values *)
(* copied into its closure when it is left are the values of the names it  *)
(* used (defineFree, compiler.go:292-298).                                 *)
(***************************************************************************)
CapturesAreFaithful ==
  \A i \in 1..Len(tables) : \A j \in 1..Len(tables[i].free) :
    /\ i > 1
    /\ tables[i].free[j] = tables[i - 1].store[tables[i].free[j].name]
    /\ tables[i].free[j].scope \in {"LOCAL", "FREE", "FUNCTION"}

(* A symbol of a table points at a slot that exists: a local below         *)
(* NumLocals, a captured value below the length of Free, a global that was *)
(* defined.  Globals and builtins live in the table of the program only.   *)
SlotsExist ==
  \A i \in 1..Len(tables) : \A x \in Names :
    LET symbol == tables[i].store[x] IN
    /\ symbol.scope # "ABSENT" => symbol.name = x
    /\ symbol.scope \in {"GLOBAL", "BUILTIN"} => i = 1
    /\ symbol.scope \in {"LOCAL", "FREE", "FUNCTION"} => i > 1
    /\ symbol.scope \in {"GLOBAL", "LOCAL"} => symbol.index < tables[i].num
    /\ symbol.scope = "FREE" =>
         /\ symbol.index < Len(tables[i].free)
         /\ tables[i].free[symbol.index + 1].name = x

(* Two names never share a slot of a table: neither a global, a builtin or *)
(* a local, nor a position of Free, nor the function itself.               *)
SlotsAreNotShared ==
  \A i \in 1..Len(tables) : \A x, y \in Names :
    LET s == tables[i].store[x]
        t == tables[i].store[y]
    IN x # y /\ s.scope = t.scope /\ s.scope # "ABSENT" => s.index # t.index

(***************************************************************************)
(* Every instruction emitted for a symbol can be executed by the function  *)
(* it is emitted into: OpGetLocal and OpSetLocal stay below NumLocals,     *)
(* OpGetFree below the number of values OpClosure will copy, and the       *)
(* captured symbols loaded for OpClosure are those of the enclosing        *)
(* function, not of the one just left (loadSymbol, compiler.go:296-298).   *)
(***************************************************************************)
AccessIsAddressable ==
  \A j \in 1..Len(access.symbols) :
    LET symbol == access.symbols[j] IN
    /\ symbol.scope = "LOCAL" =>
         Len(tables) > 1 /\ symbol.index < Current(tables).num
    /\ symbol.scope = "FREE" => symbol.index < Len(Current(tables).free)
    /\ symbol.scope = "FUNCTION" => Len(tables) > 1
    /\ symbol.scope = "GLOBAL" => symbol.index < tables[1].num
    /\ access.kind = "leave" => symbol.scope \in {"LOCAL", "FREE", "FUNCTION"}

(***************************************************************************)
(* Refinement of LexicalScoping: what an instruction reads or writes is    *)
(* found by its operand alone.  It is a slot of a function, and the        *)
(* binding is that of the name which has this slot there.                  *)
(***************************************************************************)
Owner(table, symbol) ==
  LET owners == { x \in Names : /\ table.store[x].scope = symbol.scope
                                /\ table.store[x].index = symbol.index }
  IN IF owners = {} THEN "" ELSE CHOOSE x \in owners : TRUE

(* What a captured value is a copy of: from Free list to Free list to the  *)
(* function that it comes from.                                            *)
Origins(ts) ==
  LET origins[i \in 1..Len(ts)] ==
        [j \in 1..Len(ts[i].free) |->
           IF ts[i].free[j].scope = "FREE"
           THEN origins[i - 1][ts[i].free[j].index + 1]
           ELSE << i - 1, Owner(ts[i - 1], ts[i].free[j]) >>]
  IN origins

(* The binding that a symbol of the current table stands for.              *)
Binding(ts, symbol) ==
  CASE symbol.scope \in {"GLOBAL", "BUILTIN"} -> << 1, Owner(ts[1], symbol) >>
    [] symbol.scope \in {"LOCAL", "FUNCTION"} -> << Len(ts), Owner(Current(ts), symbol) >>
    [] symbol.scope = "FREE" -> Origins(ts)[Len(ts)][symbol.index + 1]

(* The names that a table binds itself.                                    *)
Binds(table) == { x \in Names : table.store[x].scope \notin {"ABSENT", "FREE"} }

Lexical == INSTANCE LexicalScoping WITH
  Predeclared <- { x \in Names : Defined(BuiltinTable(Builtins), x) },
  bound       <- [i \in 1..Len(tables) |-> Binds(tables[i])],
  denotes     <- IF access.kind \in {"let", "use"}
                 THEN << access.name, Binding(tables, access.symbols[1]) >> ELSE << >>

(* What a compiled identifier reads is the binding that lexical scoping    *)
(* gives this name, and what a let writes is the binding of its name in    *)
(* its function, whatever was captured, shadowed or redefined before: no   *)
(* other name's slot, at this level or another (symbol_table.go:51-68).    *)
UsesFollowLexicalScoping == Lexical!Spec
=============================================================================
