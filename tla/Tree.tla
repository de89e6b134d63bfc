-------------------------------- MODULE Tree --------------------------------
(***************************************************************************)
(* The syntax tree as Go keeps it: nodes in memory, which refer to each    *)
(* other by pointers and are changed in place.  nodes is the sequence of   *)
(* all nodes, a reference is a position in it.  A node is a record of Ast  *)
(* with references for its children: 0 for a nil, -1 for a nil             *)
(* *LetStatement, which as an interface is not nil.                        *)
(***************************************************************************)
EXTENDS Ast, Integers
LOCAL INSTANCE SequencesExt

NilNodeRef == 0
NilLetRef  == -1

(* The children of a node, in the order of its fields.                     *)
Children(n) ==
  CASE n.node \in {"Program", "BlockStatement"}       -> n.statements
    [] n.node = "ExpressionStatement"                 -> << n.expression >>
    [] n.node \in {"LetStatement", "ReturnStatement"} -> << n.value >>
    [] n.node = "PrefixExpression"                    -> << n.right >>
    [] n.node = "InfixExpression"                     -> << n.left, n.right >>
    [] n.node = "IndexExpression"                     -> << n.left, n.index >>
    [] n.node = "IfExpression"                        -> << n.condition, n.consequence >> \o n.alternative
    [] n.node \in {"FunctionLiteral", "MacroLiteral"} -> << n.body >>
    [] n.node = "ArrayLiteral"                        -> n.elements
    [] n.node = "HashLiteral"                         -> FlattenSeq(n.pairs)
    [] n.node = "CallExpression"                      -> << n.function >> \o n.arguments
    [] OTHER                                          -> << >>

(* The node with other children, as many as it has.                        *)
WithChildren(n, c) ==
  CASE n.node \in {"Program", "BlockStatement"}       -> [n EXCEPT !.statements = c]
    [] n.node = "ExpressionStatement"                 -> [n EXCEPT !.expression = c[1]]
    [] n.node \in {"LetStatement", "ReturnStatement"} -> [n EXCEPT !.value = c[1]]
    [] n.node = "PrefixExpression"                    -> [n EXCEPT !.right = c[1]]
    [] n.node = "InfixExpression"                     -> [n EXCEPT !.left = c[1], !.right = c[2]]
    [] n.node = "IndexExpression"                     -> [n EXCEPT !.left = c[1], !.index = c[2]]
    [] n.node = "IfExpression"                        ->
         [n EXCEPT !.condition = c[1], !.consequence = c[2], !.alternative = SubSeq(c, 3, Len(c))]
    [] n.node \in {"FunctionLiteral", "MacroLiteral"} -> [n EXCEPT !.body = c[1]]
    [] n.node = "ArrayLiteral"                        -> [n EXCEPT !.elements = c]
    [] n.node = "HashLiteral"                         ->
         [n EXCEPT !.pairs = [i \in 1..Len(n.pairs) |-> << c[2 * i - 1], c[2 * i] >>]]
    [] n.node = "CallExpression"                      ->
         [n EXCEPT !.function = c[1], !.arguments = Tail(c)]
    [] OTHER                                          -> n

(* The nodes of a tree put into memory, children first.                    *)
RECURSIVE Plant(_, _)
Plant(tree, nodes) ==
  LET PlantChild(planted, child) ==
        LET p == Plant(child, planted.nodes)
        IN [refs |-> Append(planted.refs, p.ref), nodes |-> p.nodes]
      all == FoldLeft(PlantChild, [refs |-> << >>, nodes |-> nodes], Children(tree))
  IN CASE tree = NilNode -> [ref |-> NilNodeRef, nodes |-> nodes]
       [] tree = NilLet  -> [ref |-> NilLetRef, nodes |-> nodes]
       [] OTHER          -> [ref   |-> Len(all.nodes) + 1,
                             nodes |-> Append(all.nodes, WithChildren(tree, all.refs))]

(* The tree that a reference leads to.                                     *)
RECURSIVE Harvest(_, _)
Harvest(ref, nodes) ==
  CASE ref = NilNodeRef -> NilNode
    [] ref = NilLetRef  -> NilLet
    [] OTHER            ->
         LET children == Children(nodes[ref])
         IN WithChildren(nodes[ref], [i \in 1..Len(children) |-> Harvest(children[i], nodes)])
=============================================================================
