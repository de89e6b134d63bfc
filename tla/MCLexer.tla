------------------------------- MODULE MCLexer -------------------------------
(***************************************************************************)
(* All texts of up to four characters of a few kinds are read, and longer  *)
(* ones with strings.                                                      *)
(***************************************************************************)
EXTENDS Lexer

SomeCharacters == {"f", "n", "7", "(", " ", "=", "!", "\"", "\\", "@", NUL}

SomeTexts ==
  UNION { [1..n -> SomeCharacters] : n \in 0..4 } \cup UNION { [1..n -> {"\"", "\\", "f"}] : n \in 5..7 }
=============================================================================
