------------------------------- MODULE MCRepl -------------------------------
(***************************************************************************)
(* Sessions of the REPL, with a record of what has been executed in them.  *)
(***************************************************************************)
EXTENDS Repl, Meanings
LOCAL INSTANCE SequencesExt
LOCAL G == INSTANCE Grammar

VARIABLES
  statements,   \* of the line, if it is or was executed
  done,         \* of all earlier lines that were executed without an error
  spoilt,       \* an error has left names without values or an open scope
  base          \* how many frames there were when the line was begun

sessionVars == << statements, done, spoilt, base >>

SessionInit == ReplInit /\ statements = << >> /\ done = << >> /\ spoilt = FALSE /\ base = 1

HasLet(nodes) == \E i \in DOMAIN nodes : nodes[i].node = "LetStatement"

Expanded_(line) ==
  CHOOSE nodes \in { Harvest(e.ref, e.s.nodes).statements : e \in { ExpandedLine(line) } } : TRUE

(* What the last line leaves to the ones that follow.                      *)
Done     == IF written = "value" THEN done \o statements ELSE done
IsSpoilt == spoilt \/ (written = "execution failed" /\ HasLet(statements))

Begun(line) ==
  /\ ReadLine(line)
  /\ statements' = IF phase' = "running" THEN Expanded_(line) ELSE << >>
  /\ done' = Done
  /\ spoilt' = ( \/ IsSpoilt
                 \/ /\ phase' = "prompt" /\ written' = "compilation failed"
                    /\ HasLet(Expanded_(line)) \/ Len(compiler'.scopes) > 1 )
  /\ base' = Len(frames)

SessionNext ==
  \/ \E line \in Lines : Begun(line)
  \/ (EndOfInput \/ Run \/ Answer \/ RunPanics \/ Over) /\ UNCHANGED sessionVars

SessionSpec == SessionInit /\ [][SessionNext]_<< replVars, sessionVars >>

-----------------------------------------------------------------------------
(* All that was executed, as one program.                                  *)
OneProgram == done \o statements

(* A name that is defined twice has two variables for the compiler and one *)
(* for the evaluator.                                                      *)
Redefines ==
  \E i, j \in DOMAIN OneProgram :
    /\ i # j /\ OneProgram[i].node = "LetStatement" /\ OneProgram[j].node = "LetStatement"
    /\ OneProgram[i].name = OneProgram[j].name

EndsInExpression == statements # << >> /\ Last(statements).node = "ExpressionStatement"

Outcome ==
  CASE phase = "crashed"                                  -> PanicMeaning
    [] phase = "prompt" /\ written = "execution failed"   -> Error
    [] phase = "prompt" /\ written = "value"              -> Meaning(heap, answer)

(* A line comes to what it would at the end of one program of all lines so *)
(* far: constants, symbols and globals that earlier lines left are what    *)
(* they were, and lines with errors in between leave nothing behind unless *)
(* they were to define something (repl.go:79-92).                          *)
SessionIsOneProgram ==
  phase \in {"prompt", "crashed"} /\ EndsInExpression /\ ~ spoilt /\ ~ Redefines =>
    Outcome = Evaluation(OneProgram)

(* The compiler knows no global that the machine has no value for, unless  *)
(* a line with a let has failed (compiler.go:88, vm.go:78).                *)
GlobalsAreSet ==
  phase = "prompt" /\ ~ IsSpoilt =>
    \A name \in Names : compiler.tables[1].store[name].scope = "GLOBAL" =>
      globals[compiler.tables[1].store[name].index] # Nil

(* Functions refer to constants by their positions: no later line, however *)
(* it ends, puts another constant in the place of one (compiler.go:54,     *)
(* vm.go:80).                                                              *)
ConstantsStay ==
  [][\A i \in DOMAIN constants : i \in DOMAIN constants' /\ constants'[i] = constants[i]]_constants

(* The frames that an error has left are never run again, nor dropped:     *)
(* only the frame that the line was put in place of changes (vm.go:84).    *)
LeftFramesRest ==
  [][\A k \in 1..(base - 1) : k <= Len(frames') /\ frames'[k] = frames[k]]_frames

-----------------------------------------------------------------------------
Do(e)     == ExpressionStatement(e)
Let(x, e) == LetStatement(x, e)
N(n)      == IntegerLiteral(n)
V(x)      == Identifier(x)
Call_(f, e) == CallExpression(f, << e >>)
Plus(l, r)  == InfixExpression(l, "+", r)
FN(a, s)    == FunctionLiteral(a, s)

Text(s) == [command |-> "", tokens |-> G!UnparseProgram(Program(s))]
File(s) == [command |-> "load file", tokens |-> G!UnparseProgram(Program(s))]
CommandLine(c) == [command |-> c, tokens |-> << >>]

SessionLines ==
  { File(<< Let("a", N(5)), Let("f", FN(<< "b" >>, << Do(Plus(V("a"), V("b"))) >>)) >>),
    Text(<< Let("g", FN(<< "b" >>, << Do(FN(<< >>, << Do(ArrayLiteral(<< Call_(V("f"), V("b")), N(7) >>)) >>)) >>)) >>),
    Text(<< Do(CallExpression(Call_(V("g"), N(2)), << >>)) >>),
    Text(<< Let("a", N(3)), Do(Call_(V("f"), V("a"))) >>),
    Text(<< Do(Call_(V("f"), Boolean(TRUE))) >>),
    Text(<< Do(Plus(N(1), Boolean(TRUE))) >>),
    Text(<< Let("a", Plus(N(1), Boolean(TRUE))) >>),
    Text(<< Do(FN(<< "b" >>, << Do(FN(<< >>, << Do(V("c")) >>)) >>)) >>),
    Text(<< Do(ArrayLiteral(<< V("a") >>)) >>),
    Text(<< Let("m", MacroLiteral(<< "a" >>, << Do(Call_(V("quote"), Plus(Call_(V("unquote"), V("a")), N(1)))) >>)) >>),
    Text(<< Do(Call_(V("m"), N(8))) >>),
    Text(<< ReturnStatement(N(9)) >>),
    Text(<< >>), [command |-> "", tokens |-> << G!T("LET") >>] }
  \cup { CommandLine(c) : c \in {"empty", "load", "load blank", "load missing", "macros"} }

SessionNames ==
  {"a", "b", "c", "f", "g", "m", "len", "puts", "first", "last", "rest", "push", "pop", "quote", "unquote"}
=============================================================================
