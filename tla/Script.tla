------------------------------- MODULE Script -------------------------------
(***************************************************************************)
(* loadScript of main.go: a file is parsed, its macros are defined and     *)
(* expanded, errors of the parser are reported, and what is left is        *)
(* compiled.  A source is the sequence of its tokens.                      *)
(***************************************************************************)
EXTENDS Parser, Macros, Compiler

CONSTANT Sources

VARIABLES
  source,
  stage,        \* how far it has come; "exited" after a report, "crashed" after a Go panic
  failed,       \* the parser has errors
  program,      \* a reference of a node
  state,        \* the evaluator's
  compiler

vars == << source, stage, failed, program, state, compiler >>

Init ==
  /\ source \in Sources
  /\ stage = "read"
  /\ failed = FALSE
  /\ program = NilNodeRef
  /\ state = InitialState
  /\ compiler = NewCompiler

Parse ==
  LET result  == ParseProgram(source)
      planted == Plant(result.node, << >>)
  IN /\ stage = "read"
     /\ stage' = "parsed"
     /\ failed' = result.p.failed
     /\ program' = planted.ref
     /\ state' = [state EXCEPT !.nodes = planted.nodes]
     /\ UNCHANGED << source, compiler >>

(* A step of the evaluator that may panic.                                 *)
Reach(next, s) ==
  /\ state' = s
  /\ stage' = IF s.panic THEN "crashed" ELSE next
  /\ UNCHANGED << source, failed, program, compiler >>

Define_ == stage = "parsed" /\ Reach("defined", DefineMacros(program, state))

Expand == stage = "defined" /\ Reach("expanded", ExpandMacros(program, state).s)

ReportErrors ==
  /\ stage = "expanded" /\ failed
  /\ stage' = "exited"
  /\ UNCHANGED << source, failed, program, state, compiler >>

CompileExpanded ==
  LET compiled == Compile(Harvest(program, state.nodes), compiler)
  IN /\ stage = "expanded" /\ ~ failed
     /\ compiler' = compiled
     /\ stage' = IF compiled.err THEN "exited" ELSE "compiled"
     /\ UNCHANGED << source, failed, program, state >>

(* The bytecode is written or run, or the process is gone.                 *)
Loaded == stage \in {"exited", "crashed", "compiled"} /\ UNCHANGED vars

Next == Parse \/ Define_ \/ Expand \/ ReportErrors \/ CompileExpanded \/ Loaded

Spec == Init /\ [][Next]_vars
=============================================================================
