------------------------------- MODULE Meanings -------------------------------
(***************************************************************************)
(* What a program comes to in the evaluator, in a form that does not       *)
(* depend on the engine.                                                   *)
(***************************************************************************)
EXTENDS Evaluator

(* A value without references: functions are all the same here, and errors *)
(* have no text.                                                           *)
RECURSIVE Meaning(_, _)
Meaning(h, a) ==
  CASE a = Nil                                  -> [t |-> "nil"]
    [] a # Nil /\ h[a].t = "ARRAY"              -> Array([i \in DOMAIN h[a].e |-> Meaning(h, h[a].e[i])])
    [] a # Nil /\ h[a].t = "HASH"               -> Hash([k \in DOMAIN h[a].d |-> Meaning(h, h[a].d[k])])
    [] a # Nil /\ h[a].t \in {"CLOSURE", "FUNCTION"} -> [t |-> "FUNCTION"]
    [] OTHER                                    -> h[a]

PanicMeaning == [t |-> "panic"]

Evaluation(s) ==
  LET planted == Plant(Program(s), << >>)
      r       == Eval(planted.ref, 1, [InitialState EXCEPT !.nodes = planted.nodes])
  IN IF r.s.panic THEN PanicMeaning ELSE Meaning(r.s.heap, r.v)
=============================================================================
