-------------------------------- MODULE Repl --------------------------------
(***************************************************************************)
(* repl/repl.go: lines are parsed, expanded, compiled and run one after    *)
(* the other by one compiler, one machine and one macro environment, which *)
(* keep what earlier lines have made of them.  The variables of VM are the *)
(* machine; a line is the record of its command, "" for none, and of the   *)
(* tokens of its text or of the file to be loaded.                         *)
(***************************************************************************)
EXTENDS Parser, Macros, Compiler, VM

CONSTANTS Lines, MaxLines      \* the lines that may be entered, and how many

VARIABLES
  compiler,     \* comp
  state,        \* the evaluator's, its first environment is macroEnv
  phase,        \* "prompt", "running", "ended" or, after a Go panic, "crashed"
  written,      \* what the last line has been answered with
  answer,       \* the value, for "value"
  count         \* lines read so far

replVars == << vars, compiler, state, phase, written, answer, count >>

ReplInit ==
  /\ compiler = NewCompiler
  /\ state = InitialState
  /\ InitWith(BytecodeOf(NewCompiler))
  /\ phase = "prompt"
  /\ written = "nothing"
  /\ answer = Nil
  /\ count = 0

-----------------------------------------------------------------------------
(* Mutant of Reset: the constants are dropped with the instructions.       *)
ResetAll(c) == SetScope([c EXCEPT !.err = FALSE, !.constants = << >>], NewCompilationScope)

(* Compiler.Reset: what is in the current scope; a scope that an error has *)
(* left open is the current one.                                           *)
Reset(c) == SetScope([c EXCEPT !.err = FALSE], NewCompilationScope)

(* A constant that the machine has already is the same object still.       *)
Known(bytecode, i) == i <= Len(constants) /\ heap[constants[i]] = bytecode.constants[i]

(* Mutant of FrameOfLine: the first frame, whatever an error has left.     *)
BottomFrame(f) == << f >> \o Tail(frames)

(* The frame of the line's instructions takes the place of the current     *)
(* frame, that of a function when an error has ended the last line.        *)
FrameOfLine(f) == [frames EXCEPT ![Len(frames)] = f]

(* Mutant of Recode: a new machine.                                        *)
RecodeAfresh(bytecode) ==
  /\ heap' = heap \o bytecode.constants
               \o << CompiledFunction(bytecode.instructions, 0, 0),
                     Closure(Len(heap) + Len(bytecode.constants) + 1, << >>) >>
  /\ constants' = [i \in 1..Len(bytecode.constants) |-> Len(heap) + i]
  /\ frames' = << NewFrame(Len(heap) + Len(bytecode.constants) + 2, 0) >>
  /\ stack' = [i \in 0..(StackSize - 1) |-> Nil]
  /\ sp' = 0
  /\ globals' = [i \in 0..(GlobalsSize - 1) |-> Nil]
  /\ status' = "running"

(* VM.Recode.  Stack and globals keep their values.  The heap gets objects *)
(* for all constants; those of the ones known already are not referred to. *)
Recode(bytecode) ==
  LET n == Len(heap) + Len(bytecode.constants) IN
  /\ heap' = heap \o bytecode.constants
               \o << CompiledFunction(bytecode.instructions, 0, 0), Closure(n + 1, << >>) >>
  /\ constants' = [i \in 1..Len(bytecode.constants) |->
                     IF Known(bytecode, i) THEN constants[i] ELSE Len(heap) + i]
  /\ frames' = FrameOfLine(NewFrame(n + 2, 0))
  /\ sp' = 0
  /\ status' = "running"
  /\ UNCHANGED << stack, globals >>

-----------------------------------------------------------------------------
(* Back at the prompt, or not at all.                                      *)
Say(words) == phase' = "prompt" /\ written' = words /\ answer' = Nil

Dies == phase' = "crashed" /\ written' = "nothing" /\ answer' = Nil

Entered(line) == phase = "prompt" /\ count < MaxLines /\ count' = count + 1

EndOfInput ==
  /\ phase = "prompt"
  /\ phase' = "ended"
  /\ UNCHANGED << vars, compiler, state, written, answer, count >>

(* line[0] of an empty line, and line[i+1:] of ":load" alone.              *)
CannotBeRead(line) ==
  /\ Entered(line)
  /\ line.command \in {"empty", "load"}
  /\ Dies
  /\ UNCHANGED << vars, compiler, state >>

(* ":load " without a name or of a file that is not there, and ":macros".  *)
Command(line) ==
  /\ Entered(line)
  /\ line.command \in {"load blank", "load missing", "macros"}
  /\ Say(line.command)
  /\ UNCHANGED << vars, compiler, state >>

IsText(line) == line.command \in {"", "load file"}

(* Once printParserErrors is done, the line is forgotten.                  *)
DoesNotParse(line) ==
  /\ Entered(line) /\ IsText(line)
  /\ ParseProgram(line.tokens).p.failed
  /\ Say("parser errors")
  /\ UNCHANGED << vars, compiler, state >>

(* The tree of the line, and the state once its macros are defined and     *)
(* expanded; a panic stays in the state.                                   *)
ExpandedLine(line) ==
  LET planted == Plant(ParseProgram(line.tokens).node, state.nodes)
      defined == DefineMacros(planted.ref, [state EXCEPT !.nodes = planted.nodes])
  IN ExpandMacros(planted.ref, defined)

Parses(line) == IsText(line) /\ ~ ParseProgram(line.tokens).p.failed

DoesNotExpand(line) ==
  /\ Entered(line) /\ Parses(line)
  /\ ExpandedLine(line).s.panic
  /\ Dies
  /\ UNCHANGED << vars, compiler, state >>

(* The line compiled into what the compiler has been left with.  An error  *)
(* leaves the constants, symbols and scopes as they are then.              *)
CompiledBy(c, expanded) == Compile(Harvest(expanded.ref, expanded.s.nodes), Reset(c))

(* The machine is not given anything of a line that does not compile.      *)
TextLine(line) ==
  /\ Entered(line) /\ Parses(line)
  /\ \E expanded \in { ExpandedLine(line) } :
       /\ ~ expanded.s.panic
       /\ state' = expanded.s
       /\ \E compiled \in { CompiledBy(compiler, expanded) } :
            /\ compiler' = compiled
            /\ \/ compiled.err /\ Say("compilation failed") /\ UNCHANGED vars
               \/ /\ ~ compiled.err
                  /\ Recode(BytecodeOf(compiled))
                  /\ phase' = "running"
                  /\ UNCHANGED << written, answer >>

ReadLine(line) ==
  CannotBeRead(line) \/ Command(line) \/ DoesNotParse(line) \/ DoesNotExpand(line) \/ TextLine(line)

Run ==
  /\ phase = "running" /\ status = "running"
  /\ Next
  /\ UNCHANGED << compiler, state, phase, written, answer, count >>

(* LastPoppedStackElem and its Inspect, after an error, too; a value that  *)
(* is nil is not written.                                                  *)
CanBeWritten == sp < StackSize /\ (stack[sp] = Nil \/ Inspectable(heap)[stack[sp]])

Answer ==
  /\ phase = "running" /\ status \in {"halted", "error"}
  /\ \/ /\ CanBeWritten
        /\ phase' = "prompt"
        /\ written' = IF status = "error" THEN "execution failed" ELSE "value"
        /\ answer' = stack[sp]
     \/ ~ CanBeWritten /\ Dies
  /\ UNCHANGED << vars, compiler, state, count >>

RunPanics ==
  /\ phase = "running" /\ status = "crashed"
  /\ Dies
  /\ UNCHANGED << vars, compiler, state, count >>

(* The process is gone, or waits for more than MaxLines lines.             *)
Over == (phase \in {"ended", "crashed"}) /\ UNCHANGED replVars

ReplNext == EndOfInput \/ (\E line \in Lines : ReadLine(line)) \/ Run \/ Answer \/ RunPanics \/ Over

ReplSpec == ReplInit /\ [][ReplNext]_replVars
=============================================================================
