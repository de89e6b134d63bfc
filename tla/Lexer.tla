-------------------------------- MODULE Lexer --------------------------------
(***************************************************************************)
(* lexer/lexer.go and token/token.go.  A Lexer is the record l of its      *)
(* input, a sequence of characters, and of the position of ch in it,       *)
(* counted from 1; readPosition is the next one.  NextToken comes to a     *)
(* token as the parser gets it, where an error is an ILLEGAL token.        *)
(***************************************************************************)
EXTENDS Integers, Sequences

CONSTANTS
  Letters, Digits,
  Others,          \* characters that begin no token
  Texts

VARIABLES lexer, output      \* output is the sequence of the tokens so far

vars == << lexer, output >>

Whitespace == {" ", "\t", "\n", "\r"}
Quote      == "\""
NUL        == "NUL"          \* the byte 0, in a text or behind it
Delimiters == {"+", "-", "/", "*", "<", ">", ";", ":", "(", ")", ",", "{", "}", "[", "]"}
Symbols    == Delimiters \cup {"=", "!"}

(* A character is of one kind.                                             *)
ASSUME AlphabetAssumption ==
  /\ Letters \cap Digits = {}
  /\ (Letters \cup Digits) \cap (Whitespace \cup Symbols \cup {Quote, "\\", NUL}) = {}

Characters == Letters \cup Digits \cup Whitespace \cup Symbols \cup {Quote, "\\", NUL} \cup Others

ASSUME TextsAssumption == Texts \subseteq Seq(Characters)

Keyword(word, type) == [word |-> word, type |-> type]

Keywords ==
  { Keyword(<< "f", "n" >>, "FUNCTION"), Keyword(<< "l", "e", "t" >>, "LET"),
    Keyword(<< "i", "f" >>, "IF"), Keyword(<< "e", "l", "s", "e" >>, "ELSE"),
    Keyword(<< "r", "e", "t", "u", "r", "n" >>, "RETURN"),
    Keyword(<< "t", "r", "u", "e" >>, "TRUE"), Keyword(<< "f", "a", "l", "s", "e" >>, "FALSE"),
    Keyword(<< "m", "a", "c", "r", "o" >>, "MACRO") }

LookupIdent(word) ==
  IF \E k \in Keywords : k.word = word THEN (CHOOSE k \in Keywords : k.word = word).type
  ELSE "IDENT"

NewLexer(input) == [input |-> input, position |-> 1]

CharAt(l, i) == IF i <= Len(l.input) THEN l.input[i] ELSE NUL
Ch(l)        == CharAt(l, l.position)
PeekChar(l)  == CharAt(l, l.position + 1)
At(l, i)     == [l EXCEPT !.position = i]
ReadChar(l)  == At(l, l.position + 1)

Lexed(type, literal, l) == [token |-> [type |-> type, literal |-> literal], l |-> l]

(* readSequence: the characters from ch on that are all in chars; it is    *)
(* skipWhitespace, too.                                                    *)
EndOf(l, chars) ==
  CHOOSE i \in l.position..(Len(l.input) + 1) :
    /\ CharAt(l, i) \notin chars
    /\ \A j \in l.position..(i - 1) : CharAt(l, j) \in chars

Skipped(l, chars)  == At(l, EndOf(l, chars))
Sequence(l, chars) == SubSeq(l.input, l.position, EndOf(l, chars) - 1)

Word(l) ==
  Lexed(LookupIdent(Sequence(l, Letters)), Sequence(l, Letters), Skipped(l, Letters))

Number(l) == Lexed("INT", Sequence(l, Digits), Skipped(l, Digits))

(* readString, with ch the opening quote: which characters are escaped by  *)
(* the one before, what ends the loop, what the string is up to i.         *)
Escaped(l) ==
  LET escaped[i \in l.position..(Len(l.input) + 1)] ==
        i > l.position + 1 /\ CharAt(l, i - 1) = "\\" /\ ~ escaped[i - 1]
  IN escaped

(* Mutant of Stops: an escaped quote ends the string, too.                 *)
StopsAtAny(l, i) ==
  \/ CharAt(l, i) \in {Quote, NUL}
  \/ CharAt(l, i) = "\\" /\ ~ Escaped(l)[i] /\ CharAt(l, i + 1) \notin {"\\", Quote}

Stops(l, i) ==
  /\ ~ Escaped(l)[i]
  /\ \/ CharAt(l, i) \in {Quote, NUL}
     \/ CharAt(l, i) = "\\" /\ CharAt(l, i + 1) \notin {"\\", Quote}

StringEnd(l) ==
  CHOOSE i \in (l.position + 1)..(Len(l.input) + 1) :
    Stops(l, i) /\ \A j \in (l.position + 1)..(i - 1) : ~ Stops(l, j)

Str(l) ==
  LET str[i \in l.position..Len(l.input)] ==
        IF i = l.position THEN << >>
        ELSE IF CharAt(l, i) = "\\" /\ ~ Escaped(l)[i] THEN str[i - 1]
        ELSE Append(str[i - 1], CharAt(l, i))
  IN str

(* After an error ch is the character it was found at: the next token      *)
(* begins there.                                                           *)
ReadString(l) ==
  IF CharAt(l, StringEnd(l)) = Quote
  THEN Lexed("STRING", Str(l)[StringEnd(l) - 1], At(l, StringEnd(l) + 1))
  ELSE Lexed("ILLEGAL", << >>, At(l, StringEnd(l)))

(* Mutants of Operator: a character that is not read past.                 *)
UnreadOperator(l) ==
  IF Ch(l) \in {"=", "!"} /\ PeekChar(l) = "="
  THEN Lexed(IF Ch(l) = "=" THEN "==" ELSE "!=", << Ch(l), "=" >>, ReadChar(l))
  ELSE Lexed(IF Ch(l) \in Symbols THEN Ch(l) ELSE "ILLEGAL", << Ch(l) >>, ReadChar(l))

StuckOperator(l) ==
  IF Ch(l) \in Symbols THEN Lexed(Ch(l), << Ch(l) >>, ReadChar(l))
  ELSE Lexed("ILLEGAL", << Ch(l) >>, l)

(* What is made of one character, or of two for == and !=.                 *)
Operator(l) ==
  IF Ch(l) \in {"=", "!"} /\ PeekChar(l) = "="
  THEN Lexed(IF Ch(l) = "=" THEN "==" ELSE "!=", << Ch(l), "=" >>, ReadChar(ReadChar(l)))
  ELSE Lexed(IF Ch(l) \in Symbols THEN Ch(l) ELSE "ILLEGAL", << Ch(l) >>, ReadChar(l))

(* A NUL in the text is an EOF, and the text goes on after it.             *)
NextToken(before) ==
  LET l == Skipped(before, Whitespace) IN
  CASE Ch(l) = Quote      -> ReadString(l)
    [] Ch(l) = NUL        -> Lexed("EOF", << >>, ReadChar(l))
    [] Ch(l) \in Letters  -> Word(l)
    [] Ch(l) \in Digits   -> Number(l)
    [] OTHER              -> Operator(l)

-----------------------------------------------------------------------------
Latest == output[Len(output)]

AtEnd == output # << >> /\ Latest.type = "EOF"

Init == \E text \in Texts : lexer = NewLexer(text) /\ output = << >>

(* A bound on the number of tokens: one for each character, and EOF.       *)
TooMany == Len(output) > Len(lexer.input)

(* The parser asks for the next token until it gets EOF.                   *)
Ask ==
  /\ ~ AtEnd /\ ~ TooMany
  /\ lexer' = NextToken(lexer).l
  /\ output' = Append(output, NextToken(lexer).token)

Done == (AtEnd \/ TooMany) /\ UNCHANGED vars

Next == Ask \/ Done

Spec == Init /\ [][Next]_vars

-----------------------------------------------------------------------------
(* How a token is written.                                                 *)
WithEscapes(s) ==
  LET written[k \in 0..Len(s)] ==
        IF k = 0 THEN << >>
        ELSE written[k - 1] \o (IF s[k] \in {"\\", Quote} THEN << "\\", s[k] >> ELSE << s[k] >>)
  IN written[Len(s)]

Spelling(token) ==
  CASE token.type \in {"IDENT", "INT"} -> token.literal
    [] token.type = "STRING"           -> << Quote >> \o WithEscapes(token.literal) \o << Quote >>
    [] token.type \in Symbols          -> << token.type >>
    [] token.type = "=="               -> << "=", "=" >>
    [] token.type = "!="               -> << "!", "=" >>
    [] token.type = "EOF"              -> << NUL >>
    [] OTHER                           -> (CHOOSE k \in Keywords : k.type = token.type).word

(* What may stand in a text for a token.  A string has characters that     *)
(* escape the next one, and no other backslashes and quotes.               *)
IsQuoted(s) ==
  /\ Len(s) > 1 /\ s[1] = Quote /\ s[Len(s)] = Quote
  /\ \E escaping \in SUBSET (2..(Len(s) - 2)) :
       \A i \in 2..(Len(s) - 1) :
         /\ i \in escaping => s[i] = "\\" /\ i - 1 \notin escaping
         /\ i - 1 \in escaping => s[i] \in {"\\", Quote}
         /\ i \notin escaping /\ i - 1 \notin escaping => s[i] \notin {"\\", Quote, NUL}

IsLexeme(s) ==
  \/ s # << >> /\ \A i \in 1..Len(s) : s[i] \in Letters
  \/ s # << >> /\ \A i \in 1..Len(s) : s[i] \in Digits
  \/ s \in { << "=", "=" >>, << "!", "=" >> } \cup { << c >> : c \in Symbols }
  \/ IsQuoted(s)

Begin     == EndOf(lexer, Whitespace)
Text(end) == SubSeq(lexer.input \o << NUL >>, Begin, end)

-----------------------------------------------------------------------------
(* No character is left out and none is read twice: a token spells all of  *)
(* the text between the whitespace before it and where the next one is     *)
(* looked for, strings with the escapes they were written with             *)
(* (lexer.go:22-102, 120-144).                                             *)
TokensSpellTheText ==
  [][vars' # vars /\ Latest'.type # "ILLEGAL" =>
       Spelling(Latest') = Text(lexer'.position - 1)]_vars

(* A token is the longest one that begins there: no name, number, operator *)
(* or string ends early.  An error is reported only where none begins      *)
(* (lexer.go:29, 42, 87-94, 120-144, 164).                                 *)
TokensAreLongest ==
  [][vars' # vars =>
       IF Latest'.type \in {"EOF", "ILLEGAL"}
       THEN \A end \in Begin..Len(lexer.input) : ~ IsLexeme(Text(end))
       ELSE /\ IsLexeme(Text(lexer'.position - 1))
            /\ \A end \in lexer'.position..Len(lexer.input) : ~ IsLexeme(Text(end))]_vars

(* There are no more tokens than characters, and then EOF, whatever is     *)
(* wrong in the text: the lexer never stays where it is (lexer.go:81,      *)
(* 100).                                                                   *)
EofComesInTime == TooMany => AtEnd
=============================================================================
