-------------------------------- MODULE Limits --------------------------------
(***************************************************************************)
(* The sizes of the machine's arrays (vm/vm.go): slots of the stack, slots *)
(* for globals, frames.                                                    *)
(***************************************************************************)
EXTENDS Naturals

CONSTANTS StackSize, GlobalsSize, MaxFrames

ASSUME SizesAssumption ==
  StackSize \in Nat \ {0} /\ GlobalsSize \in Nat /\ MaxFrames \in Nat \ {0}
=============================================================================
