------------------------------ MODULE MCScopes ------------------------------
(* The symbol tables over a variable and a builtin, which may be shadowed.                     *)
EXTENDS Scopes

MCBuiltins == << "len" >>
=============================================================================
