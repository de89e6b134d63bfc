------------------------------- MODULE Verifier -------------------------------
(***************************************************************************)
(* The virtual machine on certified code: what it takes for granted of the *)
(* code it runs, and what such code keeps true of the machine.             *)
(***************************************************************************)
EXTENDS VM, Certificate

(***************************************************************************)
(* The code of the program and of every function among its constants is    *)
(* certified.  The code does not change: this is a property of what the    *)
(* compiler gave to New, or of what a file held (runBytecode).             *)
(***************************************************************************)
CodeIsCertified ==
  /\ \A i \in 1..Len(constants) :
       Is(heap, constants[i], "COMPILED_FUNCTION") =>
         CertifiedFunction(heap, constants, heap[constants[i]])
  /\ CertifiedProgram(heap, constants, FunctionOf(1))

(* What Compile gives to New is certified: the machine starts on nothing   *)
(* else when it is run on a script.                                        *)
CompiledCodeIsCertified ==
  Len(frames) = 1 /\ Frame.ip = -1 => CodeIsCertified

-----------------------------------------------------------------------------
(* What certified code keeps true of the machine while it runs.            *)

(* The closure of the program, which no instruction can get hold of.       *)
MainClosure == frames[1].cl

(* An object that holds no reference a.                                    *)
Avoids(o, a) ==
  /\ o.t = "ARRAY" => \A i \in DOMAIN o.e : o.e[i] # a
  /\ o.t = "HASH" => \A k \in DOMAIN o.d : o.d[k] # a
  /\ o.t = "CLOSURE" => \A i \in DOMAIN o.free : o.free[i] # a

MainIsPrivate ==
  /\ MainClosure > Len(SharedObjects)
  /\ \A i \in 0..(StackSize - 1) : stack[i] # MainClosure
  /\ \A i \in 0..(GlobalsSize - 1) : globals[i] # MainClosure
  /\ \A a \in 1..Len(heap) : Avoids(heap[a], MainClosure)
  /\ \A i \in 1..Len(constants) : constants[i] # MainClosure
  /\ \A k \in 2..Len(frames) : frames[k].cl # MainClosure

ClosuresAreCertified ==
  \A a \in 1..Len(heap) : Is(heap, a, "CLOSURE") /\ a # MainClosure =>
    /\ \E i \in 1..Len(constants) : constants[i] = heap[a].fn
    /\ FreeSuffices(heap[heap[a].fn].ins, Len(heap[a].free))

(* Frame k waits in its OpCall for frame k + 1, which stands on the        *)
(* closure and the temporaries below it.                                   *)
Waits(k) ==
  LET ins == FunctionOf(k).ins
      ip  == frames[k].ip
  IN /\ ip \in 1..(Len(ins) - 1)
     /\ ins[ip] = OpcodeByte("OpCall") /\ ins[ip + 1] = FunctionOf(k + 1).numParameters
     /\ ip + 1 \in DOMAIN Depths(ins) /\ Depths(ins)[ip + 1] >= 1
     /\ frames[k + 1].bp = Floor(k) + Depths(ins)[ip + 1]
     /\ frames[k + 1].bp <= StackSize
     /\ stack[frames[k + 1].bp - 1] = frames[k + 1].cl

(* The current frame is at an offset that control reaches, at its depth.   *)
(* Only the locals that a call reserves can be above the end of the stack. *)
Proceeds ==
  /\ Lip \in DOMAIN Depths(Fn.ins)
  /\ sp = Floor(Len(frames)) + Depths(Fn.ins)[Lip]
  /\ Depths(Fn.ins)[Lip] > 0 => sp <= StackSize

RunsCertified ==
  /\ CodeIsCertified
  /\ FunctionOf(1).numLocals = 0
  /\ MainIsPrivate
  /\ ClosuresAreCertified
  /\ \A k \in 1..(Len(frames) - 1) : Waits(k)
  /\ status = "running" => Proceeds
  /\ CleanHalt
=============================================================================
