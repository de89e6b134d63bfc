------------------------------ MODULE ByteFile ------------------------------
(***************************************************************************)
(* compileScript and runBytecode of main.go: one process writes a file,    *)
(* another one loads it later, and in between it may be cut off, by a      *)
(* crash while os.WriteFile is at work, or be changed.                     *)
(***************************************************************************)
EXTENDS Serializer

CONSTANTS
  Bytecodes,       \* what loadScript may give
  MaxFaults        \* how often the file is damaged at most

ASSUME BytecodesAssumption ==
  Bytecodes \subseteq [constants : Seq(Constants), instructions : Code]

VARIABLES
  bytecode,
  file,            \* the content of the .mky file
  stage,           \* "compiled", "written" (exit status 0), "loaded"
  faults,
  outcome          \* what Load comes to

vars == << bytecode, file, stage, faults, outcome >>

Init ==
  /\ bytecode \in Bytecodes
  /\ file = << >>
  /\ stage = "compiled"
  /\ faults = 0
  /\ outcome = [is |-> "none"]

(* The error that Write returns is not looked at.                          *)
CompileScript ==
  /\ stage = "compiled"
  /\ file' = Write(bytecode).output
  /\ stage' = "written"
  /\ UNCHANGED << bytecode, faults, outcome >>

Damage ==
  /\ stage = "written" /\ faults < MaxFaults
  /\ faults' = faults + 1
  /\ UNCHANGED << bytecode, stage, outcome >>

CutOff ==
  /\ Damage
  /\ \E n \in 0..(Len(file) - 1) : file' = SubSeq(file, 1, n)

Changed(i) ==
  CASE i <= HeaderLen                    -> {"#"}
    [] i > HeaderLen /\ i <= PayloadStart -> { ReservedChecksum[i - HeaderLen] }
    [] i > PayloadStart                  -> { (file[i] + 1) % Radix, (file[i] + Radix - 1) % Radix }

Change ==
  /\ Damage
  /\ \E i \in 1..Len(file) : \E b \in Changed(i) : file' = [file EXCEPT ![i] = b]

RunBytecode ==
  /\ stage = "written"
  /\ outcome' = Load(file)
  /\ stage' = "loaded"
  /\ UNCHANGED << bytecode, file, faults >>

Loaded == stage = "loaded" /\ UNCHANGED vars

Next == CompileScript \/ CutOff \/ Change \/ RunBytecode \/ Loaded

Spec == Init /\ [][Next]_vars

-----------------------------------------------------------------------------
(* A byte counts a function's locals.                                      *)
LocalsFit ==
  \A i \in DOMAIN bytecode.constants :
    bytecode.constants[i].t = "COMPILED_FUNCTION" => bytecode.constants[i].numLocals < Radix

ConstantsFit == Len(bytecode.constants) < Radix

Undamaged == file = Write(bytecode).output

-----------------------------------------------------------------------------
(* A file that nothing has happened to is loaded as what was compiled,     *)
(* with the largest numbers, empty strings and functions, and strings that *)
(* hold the bytes of types (serializer.go:41-119, loader.go:29-129).       *)
WholeFilesLoad ==
  stage = "loaded" /\ Undamaged /\ ConstantsFit /\ LocalsFit => outcome = New(bytecode)

(* Nothing else is ever run: no file that was cut off or changed anywhere, *)
(* and none that Write has left unfinished (loader.go:131-153).            *)
OnlyWholeFilesLoad ==
  stage = "loaded" /\ outcome.is = "new" => Undamaged /\ ConstantsFit

(* The loader dies of no file but one that ends in its header or checksum, *)
(* which is sliced before its length is looked at (loader.go:133, 139):    *)
(* the lengths inside never reach beyond the end of the file.              *)
OnlyShortFilesPanic ==
  stage = "loaded" /\ outcome.is = "panic" => Len(file) < PayloadStart
=============================================================================
