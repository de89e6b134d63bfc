------------------------------- MODULE FileRun -------------------------------
(***************************************************************************)
(* runBytecode of main.go to its end: what Load gives is run by a machine  *)
(* of its own, with no check but those of the loader.                      *)
(***************************************************************************)
EXTENDS ByteFile, Limits

VARIABLES heap, constants, frames, stack, sp, globals, status

machine == << heap, constants, frames, stack, sp, globals, status >>

VM == INSTANCE VM WITH Programs <- {}      \* the programs are those of the files

RunInit ==
  /\ Init
  /\ heap = << >> /\ constants = << >> /\ frames = << >> /\ globals = << >>
  /\ stack = << >> /\ sp = 0
  /\ status = "none"      \* no machine yet

(* New of vm.go with what has been loaded, see InitWith of VM.             *)
NewMachine(p) ==
  LET n == Len(SharedObjects) + Len(p.constants) IN
  /\ heap' = SharedObjects \o p.constants
               \o << CompiledFunction(p.instructions, 0, 0), Closure(n + 1, << >>) >>
  /\ constants' = [i \in 1..Len(p.constants) |-> Len(SharedObjects) + i]
  /\ frames' = << VM!NewFrame(n + 2, 0) >>
  /\ stack' = [i \in 0..(StackSize - 1) |-> Nil]
  /\ sp' = 0
  /\ globals' = [i \in 0..(GlobalsSize - 1) |-> Nil]
  /\ status' = "running"

(* A program that cannot be loaded is not run.                             *)
StartProgram ==
  /\ RunBytecode
  /\ \/ outcome'.is = "new" /\ NewMachine(outcome'.obj)
     \/ outcome'.is # "new" /\ UNCHANGED machine

(* The file, in the meantime, is not looked at.                            *)
RunProgram == stage = "loaded" /\ VM!Next /\ UNCHANGED vars

RunNext ==
  \/ (CompileScript \/ CutOff \/ Change) /\ UNCHANGED machine
  \/ StartProgram
  \/ RunProgram
  \/ Loaded /\ status = "none" /\ UNCHANGED machine

RunSpec == RunInit /\ [][RunNext]_<< vars, machine >>

-----------------------------------------------------------------------------
(* Whatever a file makes the machine do, jumps into the middle of          *)
(* instructions and stores below a frame included, what it keeps refers to *)
(* objects that are there, every frame runs a closure of a function, and   *)
(* sp and the frames stay within their bounds until it stops               *)
(* (vm.go:97-310).                                                         *)
LoadedCodeStaysInBounds ==
  status # "none" =>
    /\ Len(frames) \in 1..MaxFrames /\ sp \in 0..(StackSize + Radix)
    /\ \A k \in 1..Len(frames) : LET f == frames[k] IN
         /\ f.ip >= -1 /\ (f.bp = 0 <=> k = 1) /\ f.bp \in 0..StackSize
         /\ heap[f.cl].t = "CLOSURE" /\ heap[heap[f.cl].fn].t = "COMPILED_FUNCTION"
    /\ \A i \in 0..(StackSize - 1) : stack[i] \in 0..Len(heap)
    /\ \A i \in 0..(GlobalsSize - 1) : globals[i] \in 0..Len(heap)
=============================================================================
