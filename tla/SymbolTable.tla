----------------------------- MODULE SymbolTable -----------------------------
(***************************************************************************)
(* compiler/symbol_table.go.  The chain of symbol tables that outer links  *)
(* is the sequence tables: tables[1] is the table of the program, the last *)
(* element the table of the function being compiled, and tables[i].outer   *)
(* is tables[i - 1].  A table is never shared by two chains, because only  *)
(* enterScope makes one and leaveScope drops it.                           *)
(***************************************************************************)
EXTENDS Integers, Sequences, FiniteSets

CONSTANT Names      \* the identifiers a program may use

Scope == {"GLOBAL", "LOCAL", "BUILTIN", "FREE", "FUNCTION"}

(* The index of a function's own name; nothing ever emits it. *)
FunctionIndex == 69420

Symbol == [name : Names, scope : Scope, index : Nat]

(* What store holds for a name that is not in the map. *)
Absent == [name |-> "", scope |-> "ABSENT", index |-> 0]

(* store, FreeSymbols and numDefinitions of a SymbolTable. *)
Table == [store : [Names -> Symbol \cup {Absent}], free : Seq(Symbol), num : Nat]

Current(tables) == tables[Len(tables)]

Defined(table, name) == table.store[name].scope # "ABSENT"

(* Mutant of DefineSymbol: numbered from 1.                                *)
DefineFromOne(tables, name) ==
  [ name  |-> name,
    scope |-> IF Len(tables) = 1 THEN "GLOBAL" ELSE "LOCAL",
    index |-> Current(tables).num + 1 ]

(* The symbol Define returns: a global in the outermost table, else a local. *)
DefineSymbol(tables, name) ==
  [ name  |-> name,
    scope |-> IF Len(tables) = 1 THEN "GLOBAL" ELSE "LOCAL",
    index |-> Current(tables).num ]

(* Mutant of Define: numDefinitions does not count.                        *)
DefineInPlace(tables, name) ==
  LET current == Current(tables) IN
  Append(SubSeq(tables, 1, Len(tables) - 1),
         [current EXCEPT !.store[name] = DefineSymbol(tables, name)])

(* Define always takes a new index, for a name that had one too. *)
Define(tables, name) ==
  LET current == Current(tables) IN
  Append(SubSeq(tables, 1, Len(tables) - 1),
         [store |-> [current.store EXCEPT ![name] = DefineSymbol(tables, name)],
          free  |-> current.free,
          num   |-> current.num + 1])

(***************************************************************************)
(* The table of the program: New defines the builtins in it, numbered by   *)
(* their position in object.Builtins, whose names are distinct.            *)
(***************************************************************************)
BuiltinTable(builtins) ==
  [ store |-> [x \in Names |->
                 IF \E i \in DOMAIN builtins : builtins[i] = x
                 THEN [name |-> x, scope |-> "BUILTIN",
                       index |-> (CHOOSE i \in DOMAIN builtins : builtins[i] = x) - 1]
                 ELSE Absent],
    free  |-> << >>,
    num   |-> 0 ]

(***************************************************************************)
(* The table of a function literal when its body is compiled: enterScope,  *)
(* DefineFunctionName when it has a name ("" when not), then Define for    *)
(* each parameter, which takes the next index even if the name repeats.    *)
(***************************************************************************)
FunctionTable(name, parameters) ==
  LET lastOf(x) == CHOOSE i \in DOMAIN parameters :
                     /\ parameters[i] = x
                     /\ \A j \in DOMAIN parameters : parameters[j] = x => j <= i
  IN [ store |-> [x \in Names |->
                    IF \E i \in DOMAIN parameters : parameters[i] = x
                    THEN [name |-> x, scope |-> "LOCAL", index |-> lastOf(x) - 1]
                    ELSE IF x = name
                    THEN [name |-> x, scope |-> "FUNCTION", index |-> FunctionIndex]
                    ELSE Absent],
       free  |-> << >>,
       num   |-> Len(parameters) ]

(* Mutant of FreeSymbol: the index taken before the append.                *)
FreeSymbolTooEarly(table, name) ==
  [name |-> name, scope |-> "FREE", index |-> Len(table.free) - 1]

(* The symbol defineFree makes for name in a table. *)
FreeSymbol(table, name) ==
  [name |-> name, scope |-> "FREE", index |-> Len(table.free)]

(* defineFree: remember orig as captured and give its name a FREE symbol. *)
DefineFree(table, orig) ==
  [store |-> [table.store EXCEPT ![orig.name] = FreeSymbol(table, orig.name)],
   free  |-> Append(table.free, orig),
   num   |-> table.num]

(***************************************************************************)
(* Resolve walks outwards to the innermost table that holds the name.  On  *)
(* the way back every table between that one and the current one captures  *)
(* the name, unless it is a global or a builtin.  The recursion of the     *)
(* source is written by what it does to each table of the chain.           *)
(***************************************************************************)
Resolvable(tables, name) == \E i \in 1..Len(tables) : Defined(tables[i], name)

(* Mutant of Holder: the outermost table that has the name.                *)
Outermost(tables, name) ==
  CHOOSE i \in 1..Len(tables) :
    Defined(tables[i], name) /\ \A j \in 1..(i - 1) : ~ Defined(tables[j], name)

Holder(tables, name) ==
  CHOOSE i \in 1..Len(tables) :
    /\ Defined(tables[i], name)
    /\ \A j \in (i + 1)..Len(tables) : ~ Defined(tables[j], name)

IsCaptured(tables, name) ==
  /\ Resolvable(tables, name)
  /\ tables[Holder(tables, name)].store[name].scope \notin {"GLOBAL", "BUILTIN"}

(* Mutant of ResolvedSymbol: the symbol of the table that has the name.    *)
HolderSymbol(tables, name) ==
  IF Resolvable(tables, name) THEN tables[Holder(tables, name)].store[name] ELSE Absent

(* The symbol Resolve returns, Absent for (_, false). *)
ResolvedSymbol(tables, name) ==
  IF ~ Resolvable(tables, name)
  THEN Absent
  ELSE IF IsCaptured(tables, name) /\ Holder(tables, name) < Len(tables)
  THEN FreeSymbol(Current(tables), name)
  ELSE tables[Holder(tables, name)].store[name]

(* Mutant of Captured: what the holder has, not what the outer table has.  *)
CapturedFromHolder(tables, name, i) == tables[Holder(tables, name)].store[name]

(* The symbol that table i captures when the holder of name is below it:   *)
(* what the call on its outer table returned.                              *)
Captured(tables, name, i) ==
  IF Holder(tables, name) = i - 1
  THEN tables[i - 1].store[name]
  ELSE FreeSymbol(tables[i - 1], name)

(* The chain of tables after Resolve. *)
ResolvedTables(tables, name) ==
  [i \in 1..Len(tables) |->
     IF IsCaptured(tables, name) /\ Holder(tables, name) < i
     THEN DefineFree(tables[i], Captured(tables, name, i))
     ELSE tables[i]]
=============================================================================
