------------------------------- MODULE Macros -------------------------------
(***************************************************************************)
(* evaluator/macro_expansion.go: the macros of a program are taken out of  *)
(* it, and their calls are replaced by what they quote.  macroEnv is the   *)
(* first environment of the state; the program is the node it refers to.   *)
(***************************************************************************)
EXTENDS Evaluator
LOCAL INSTANCE SequencesExt

MacroEnv == 1

(* isMacroDefinition.                                                      *)
IsMacroDefinition(ref, s) ==
  /\ s.nodes[ref].node = "LetStatement"
  /\ s.nodes[ref].value # NilNodeRef
  /\ s.nodes[s.nodes[ref].value].node = "MacroLiteral"

AddMacro(s, ref) ==
  LET literal == s.nodes[s.nodes[ref].value]
      macro   == NewObject(Macro(literal.parameters, literal.body, MacroEnv), s)
  IN Set(MacroEnv, s.nodes[ref].name, macro.v, macro.s)

(* Mutant of Between: all that comes before a definition.                  *)
FromTheStart(statements, previous, next) == SubSeq(statements, 1, next - 1)

(* What DefineMacros copies of the statements before the definition at     *)
(* next, where previous is the position of the last one and 0 if there is  *)
(* none.  A definition in front of all others is taken for none.           *)
Between(statements, previous, next) ==
  SubSeq(statements, IF previous > 1 THEN previous + 1 ELSE 1, next - 1)

(* The state once the macros of the program are defined.  The Value of a   *)
(* nil *LetStatement is read like that of any other.                       *)
DefineMacros(program, s) ==
  LET statements  == s.nodes[program].statements
      isMacro(i)  == IsMacroDefinition(statements[i], s)
      macroIdxs   == SelectSeq([i \in 1..Len(statements) |-> i], isMacro)
      parts       == [k \in 1..Len(macroIdxs) |->
                        Between(statements, IF k = 1 THEN 0 ELSE macroIdxs[k - 1], macroIdxs[k])]
      defined     == FoldLeft(LAMBDA t, i : AddMacro(t, statements[i]), s, macroIdxs)
  IN IF NilLetRef \in ToSet(statements) THEN [s EXCEPT !.panic = TRUE]
     ELSE IF macroIdxs = << >> THEN s
     ELSE [defined EXCEPT !.nodes[program].statements =
             FlattenSeq(parts) \o SubSeq(statements, Last(macroIdxs) + 1, Len(statements))]

(* The program and the state once its macro calls are replaced.            *)
ExpandMacros(program, s) == Modify(program, [is |-> "expand", env |-> MacroEnv], s)
=============================================================================
