------------------------------- MODULE Lexer -------------------------------
(***************************************************************************)
(* The words and the punctuation of C and Cilk (src/cilk2c/c4.c).          *)
(*                                                                         *)
(* A text is a sequence of pieces: words, punctuation, and the blank " ".  *)
(* Two pieces with no blank between them touch: the lexer takes the        *)
(* longest token it can, wherever the pieces end.                          *)
(***************************************************************************)
EXTENDS Naturals, Sequences, SequencesExt, FiniteSetsExt, TLC

CONSTANT TypedefNames  \* The names that are types in the scope of the text.

Brackets   == {"(", ")", "[", "]", "{", "}", ";", ",", ":", "?", ".", "->", "..."}
Operators  == {"++", "--", "!", "~", "*", "/", "%", "+", "-", "<<", ">>", "<", ">", "<=",
               ">=", "==", "!=", "&", "^", "|", "&&", "||"}
AssignmentOperators == {"=", "*=", "/=", "%=", "+=", "-=", "<<=", ">>=", "&=", "^=", "|="}
Punctuation == Brackets \cup Operators \cup AssignmentOperators

NotWords == Punctuation \cup {" "}
IsWord(piece) == piece \notin NotWords

StatementKeywords ==
  {"break", "case", "continue", "default", "do", "else", "for", "goto", "if", "return",
   "switch", "while", "sizeof", "__alignof__", "__asm__", "__builtin_va_arg"}
TypeKeywords ==
  {"auto", "char", "__complex__", "const", "double", "enum", "extern", "float", "inline",
   "int", "long", "register", "__restrict", "short", "signed", "static", "struct",
   "typedef", "union", "unsigned", "void", "volatile"}
CilkKeywords ==
  {"abort", "cilk", "inlet", "private", "shared", "spawn", "sync", "SYNCHED", "xbegin", "xend"}
Keywords == StatementKeywords \cup TypeKeywords \cup CilkKeywords

\* The type that the suffix and the point of a number give it.
Numbers ==
  ("0" :> "Sint") @@ ("1" :> "Sint") @@ ("2" :> "Sint") @@ ("3" :> "Sint") @@ ("0U" :> "Uint")
  @@ ("1U" :> "Uint") @@ ("1L" :> "Slong") @@ ("1UL" :> "Ulong") @@ ("1.5" :> "Double") @@ ("1.5F" :> "Float")
  @@ ("'a'" :> "Char")
Strings == {"\"s\""}

OtherTokens == NotWords \cup Keywords \cup TypedefNames \cup DOMAIN Numbers \cup Strings
IsIdentifier(word) == word \notin OtherTokens

-----------------------------------------------------------------------------
(* Runs of characters: pieces that touch, words apart from punctuation. *)

Join(runs, piece) ==
  LET last == runs[Len(runs)]
      kind == IF IsWord(piece) THEN "word" ELSE "punctuation"
  IN CASE piece = " " -> Append(runs, [kind |-> "blank", text |-> ""])
       [] runs # <<>> /\ last.kind = kind ->
            [runs EXCEPT ![Len(runs)].text = @ \o piece]
       [] OTHER -> Append(runs, [kind |-> kind, text |-> piece])

\* The longest operator first.
RECURSIVE Munch(_)
Munch(text) ==
  IF text = "" THEN <<>>
  ELSE LET n == Max({k \in 1 .. Min({3, Len(text)}) : SubSeq(text, 1, k) \in Punctuation})
       IN <<SubSeq(text, 1, n)>> \o Munch(SubSeq(text, n + 1, Len(text)))

RECURSIVE Runs(_), Scan(_)
Runs(text) == IF text = <<>> THEN <<>> ELSE Join(Runs(Front(text)), Last(text))

Scan(runs) ==
  IF runs = <<>> THEN <<>>
  ELSE Scan(Front(runs)) \o CASE Last(runs).kind = "word"        -> <<Last(runs).text>>
                               [] Last(runs).kind = "punctuation" -> Munch(Last(runs).text)
                               [] Last(runs).kind = "blank"       -> <<>>

Tokens(text) == Scan(Runs(text))
=============================================================================
