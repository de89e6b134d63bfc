--------------------------- MODULE EvaluatorState ---------------------------
(***************************************************************************)
(* What the evaluator works on: the record s of the nodes of the tree, the *)
(* objects, the environments and whether a Go panic has ended everything.  *)
(* An evaluation comes to the record of a reference v of an object, 0 for  *)
(* Go's nil, and of what s has become.                                     *)
(***************************************************************************)
EXTENDS Tree, Objects
LOCAL INSTANCE SequencesExt

(* Function, Quote, Macro and ReturnValue of object.go; body and node are  *)
(* references of nodes, env is one of an environment.                      *)
Function(parameters, body, env) ==
  [t |-> "FUNCTION", parameters |-> parameters, body |-> body, env |-> env]

Macro(parameters, body, env) ==
  [t |-> "MACRO", parameters |-> parameters, body |-> body, env |-> env]

Quote(node)     == [t |-> "QUOTE", node |-> node]
ReturnValue(v)  == [t |-> "RETURN_VALUE", v |-> v]

(* NewEnvironment makes one without an outer one, which is 0.              *)
NoEnv == 0

InitialState ==
  [ nodes |-> << >>, heap |-> SharedObjects,
    envs |-> << [store |-> << >>, outer |-> NoEnv] >>, panic |-> FALSE ]

Value(v, s)     == [v |-> v, s |-> s]
Panics(s)       == Value(Nil, [s EXCEPT !.panic = TRUE])
NewObject(o, s) == Value(Len(s.heap) + 1, [s EXCEPT !.heap = Append(@, o)])
NewError(s)     == NewObject(Error, s)

(* What a builtin or an operator has come to, where errors are values.     *)
Come(outcome, s) ==
  CASE outcome.is = "ref"   -> Value(outcome.ref, s)
    [] outcome.is = "new"   -> NewObject(outcome.obj, s)
    [] outcome.is = "error" -> NewError(s)
    [] outcome.is = "panic" -> Panics(s)

TypeIs(s, v, type) == Is(s.heap, v, type)

(* isError, or no more evaluation at all.                                  *)
Aborts(r) == r.s.panic \/ TypeIs(r.s, r.v, "ERROR")

-----------------------------------------------------------------------------
(* Environment: Get looks outwards, Set changes the innermost store.       *)
RECURSIVE Binder(_, _, _)
Binder(env, name, s) ==
  IF env = NoEnv \/ name \in DOMAIN s.envs[env].store THEN env
  ELSE Binder(s.envs[env].outer, name, s)

IsBound(env, name, s) == Binder(env, name, s) # NoEnv
Get(env, name, s)     == s.envs[Binder(env, name, s)].store[name]

Bind(store, name, v) ==
  [x \in DOMAIN store \cup {name} |-> IF x = name THEN v ELSE store[x]]

Set(env, name, v, s) == [s EXCEPT !.envs[env].store = Bind(@, name, v)]

NewEnvironment(outer, store, s) ==
  [ env |-> Len(s.envs) + 1,
    s   |-> [s EXCEPT !.envs = Append(@, [store |-> store, outer |-> outer])] ]

(* Parameters are bound one after the other: of two that have one name the *)
(* last counts.                                                            *)
Bindings(names, values) ==
  FoldLeft(LAMBDA store, i : Bind(store, names[i], values[i]), << >>, [i \in 1..Len(names) |-> i])

(* Mutant of Enclosed: nothing but the parameters and globals.             *)
EnclosedInGlobals(outer, names, values, s) == NewEnvironment(1, Bindings(names, values), s)

(* extendFunctionEnv and extendMacroEnv.                                   *)
Enclosed(outer, names, values, s) == NewEnvironment(outer, Bindings(names, values), s)
=============================================================================
