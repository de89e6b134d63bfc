--------------------------- MODULE LexicalScoping ---------------------------
(***************************************************************************)
(* What the compiler's symbol tables promise, without indices and without  *)
(* capture: the functions open at a point of the source bind sets of       *)
(* names; a use of a name reads the binding that the innermost open        *)
(* function which binds it has of this name, and a let writes the one of   *)
(* the function that it stands in.                                         *)
(***************************************************************************)
EXTENDS Integers, Sequences

CONSTANTS Names, Predeclared    \* Predeclared: the names bound from the start

VARIABLES
  bound,        \* bound[i]: the names the i-th open function binds
  denotes       \* the name that the last step was about, and the binding it read or wrote

vars == << bound, denotes >>

(* A binding is that of a name by the function at a level.                 *)
Denotes(x, level) == << x, << level, x >> >>
Nothing           == << >>

BindingLevel(x) ==
  CHOOSE i \in 1..Len(bound) :
    x \in bound[i] /\ \A j \in (i + 1)..Len(bound) : x \notin bound[j]

Init == bound = << Predeclared >> /\ denotes = Nothing

Open(names) == bound' = Append(bound, names) /\ denotes' = Nothing

Close ==
  /\ Len(bound) > 1
  /\ bound' = SubSeq(bound, 1, Len(bound) - 1)
  /\ denotes' = Nothing

Bind(x) ==
  /\ bound' = [bound EXCEPT ![Len(bound)] = @ \cup {x}]
  /\ denotes' = Denotes(x, Len(bound))

Denote(x) ==
  /\ \E i \in 1..Len(bound) : x \in bound[i]
  /\ denotes' = Denotes(x, BindingLevel(x))
  /\ UNCHANGED bound

Next ==
  \/ \E names \in SUBSET Names : Open(names)
  \/ Close
  \/ \E x \in Names : Bind(x) \/ Denote(x)

Spec == Init /\ [][Next]_vars
=============================================================================
