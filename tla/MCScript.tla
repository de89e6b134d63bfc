------------------------------ MODULE MCScript ------------------------------
(***************************************************************************)
(* runScript of main.go over families of small programs: every program of  *)
(* a family that compiles is one initial state of the machine.             *)
(***************************************************************************)
EXTENDS Compiler, Verifier, Families

Scripts(sources) ==
  LET compiled == { Compile(Program(s), NewCompiler) : s \in sources }
  IN { BytecodeOf(c) : c \in { d \in compiled : ~ d.err } }

FlowPrograms   == Scripts(FlowSources)
ValuePrograms  == Scripts(ValueSources)
UnsetPrograms  == Scripts(UnsetSources)
LimitPrograms  == Scripts(LimitSources)

AllPrograms == FlowPrograms \cup ValuePrograms \cup UnsetPrograms \cup LimitPrograms

LetInBlockPrograms    == Scripts(LetInBlockSources)
UnhashableKeyPrograms == Scripts(UnhashableKeySources)
=============================================================================
