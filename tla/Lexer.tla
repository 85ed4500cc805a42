------------------------------- MODULE Lexer ---------------------------------
(***************************************************************************)
(* The lexer of src/lib/lexer.c: a text is a sequence of characters, each  *)
(* a string of one, but for two that have a name.  What the compiler reads *)
(* in the lexeme of a literal (compile_int, compile_string of compiler.c)  *)
(* is here too.                                                            *)
(***************************************************************************)
EXTENDS Integers, Sequences, SequencesExt

BACKQUOTE == "BACKQUOTE"
NUL == "NUL"

Lowercase == {"a", "b", "c", "d", "e", "f", "g", "h", "i", "j", "k", "l", "m",
              "n", "o", "p", "q", "r", "s", "t", "u", "v", "w", "x", "y", "z"}
Uppercase == {"A", "B", "C", "D", "E", "F", "G", "H", "I", "J", "K", "L", "M",
              "N", "O", "P", "Q", "R", "S", "T", "U", "V", "W", "X", "Y", "Z"}
DigitSeq == <<"0", "1", "2", "3", "4", "5", "6", "7", "8", "9">>

isalpha == Lowercase \cup Uppercase
isdigit == Range(DigitSeq)
isalnum == isalpha \cup isdigit
isspace == {" ", "\t", "\n", "\f", "\r"}
OP_CHARSET == {"~", "!", "@", "#", "$", "%", "^", "&", "*", "-", "+", "=", "|",
               ":", "<", ">", ".", "/", "?"}

(* Keywords: pairs of a lexeme and the type of its token. *)
KEYWORDS == {<<"let", "LET">>, <<"if", "IF">>, <<"then", "THEN">>, <<"else", "ELSE">>,
             <<"match", "MATCH">>, <<"case", "CASE">>, <<"rec", "REC">>, <<"_", "UNDER">>}
KEYWORD_GLYPHS == {<<"@", "AT">>, <<"=", "EQ">>, <<"<-", "LARROW">>, <<"->", "RARROW">>,
                   <<"...", "ELLIPS">>}
KEYWORD_CHARS == {<<"\\", "BSLASH">>, <<"(", "POPEN">>, <<")", "PCLOSE">>, <<"[", "SOPEN">>,
                  <<"]", "SCLOSE">>, <<"{", "COPEN">>, <<"}", "CCLOSE">>, <<",", "COMMA">>,
                  <<";", "SEMI">>}

RECURSIVE String(_)
String(characters) ==
  IF characters = <<>> THEN "" ELSE Head(characters) \o String(Tail(characters))

token_find_keyword(keywords, s, otherwise) ==
  IF \E k \in keywords : k[1] = s THEN (CHOOSE k \in keywords : k[1] = s)[2] ELSE otherwise

-----------------------------------------------------------------------------
(* Lexemes: each is looked for at a place p that is not blank, and ends      *)
(* before the place returned.  A text goes on with the null character.       *)

CharAt(text, p) == IF p \in DOMAIN text THEN text[p] ELSE NUL
LooksAt(text, p, a, b) == CharAt(text, p) = a /\ CharAt(text, p + 1) = b

RECURSIVE RunEnd(_, _, _)
RunEnd(text, p, characters) ==
  IF CharAt(text, p) \in characters THEN RunEnd(text, p + 1, characters) ELSE p

(* The first place from p where character a is followed by b, or 0. *)
RECURSIVE Find(_, _, _, _)
Find(text, p, a, b) ==
  CASE p >= Len(text) -> 0
    [] LooksAt(text, p, a, b) -> p
    [] OTHER -> Find(text, p + 1, a, b)

RECURSIVE LineEnd(_, _)
LineEnd(text, p) ==
  IF CharAt(text, p) \in {NUL, "\n", "\r"} THEN p ELSE LineEnd(text, p + 1)

(* After the quote that ends a string, or 0 if it is not closed.  escape
   stays TRUE from one backslash to the next. *)
RECURSIVE StringEnd(_, _, _)
StringEnd(text, p, escape) ==
  CASE CharAt(text, p) = NUL -> 0
    [] CharAt(text, p) = "\"" /\ ~escape -> p + 1
    [] OTHER -> StringEnd(text, p + 1, text[p] = "\\")

-----------------------------------------------------------------------------
(* Tokens: str is where the lexeme begins, len its length. *)

token(type, p, end) == [type |-> type, str |-> p, len |-> end - p]
LexError(p) == token("BAD", p, p)
LEX_NONE(p) == token("NONE", p, p)

Lexeme(text, t) == SubSeq(text, t.str, t.str + t.len - 1)

OrKeyword(text, t, keywords) ==
  [t EXCEPT !.type = token_find_keyword(keywords, String(Lexeme(text, t)), @)]

(* `{-` must not be the last of a text: the code then looks for the end of
   the comment behind that of the text. *)
token_next_block_comment(text, p) ==
  LET close == Find(text, p + 2, "-", "}")
  IN IF close = 0 THEN LexError(p) ELSE token("BCOMM", p, close + 2)

token_next_line_comment(text, p) == token("LCOMM", p, LineEnd(text, p + 2))

(* Mutant: a string that is not closed is no token, as if the text ended. *)
token_next_string_unclosed(text, p) ==
  LET end == StringEnd(text, p + 1, FALSE)
  IN IF end = 0 THEN LEX_NONE(p) ELSE token("STRING", p, end)

token_next_string(text, p) ==
  LET end == StringEnd(text, p + 1, FALSE)
  IN IF end = 0 THEN LexError(p) ELSE token("STRING", p, end)

token_next_word(text, p) ==
  OrKeyword(text, token("IDENT", p, RunEnd(text, p + 1, isalnum \cup {"_"})), KEYWORDS)

token_next_glyph(text, p) ==
  OrKeyword(text, token("OP", p, RunEnd(text, p + 1, OP_CHARSET)), KEYWORD_GLYPHS)

token_next_char(text, p) ==
  token(token_find_keyword(KEYWORD_CHARS, text[p], "NONE"), p, p + 1)

token_next_infix(text, p) == token("INFIX", p, RunEnd(text, p + 1, isalnum))

token_next_number(text, p) ==
  LET point == RunEnd(text, p + 1, isdigit)
      end == RunEnd(text, point + 1, isdigit)
  IN CASE CharAt(text, point) # "." -> token("INT", p, point)
       [] end = point + 1 -> LexError(p)
       [] OTHER -> token("DEC", p, end)

(* No kind of token begins like one that is tried before it, but for the
   comments.  LEX_NONE, what a character that begins none gives, is what the
   end of the text gives. *)
token_next_(text, p) ==
  LET c == CharAt(text, p)
  IN CASE LooksAt(text, p, "{", "-") -> token_next_block_comment(text, p)
       [] LooksAt(text, p, "-", "-") -> token_next_line_comment(text, p)
       [] c = "\"" -> token_next_string(text, p)
       [] c \in isalpha \cup {"_"} -> token_next_word(text, p)
       [] c \in OP_CHARSET -> token_next_glyph(text, p)
       [] c = BACKQUOTE -> token_next_infix(text, p)
       [] c \in isdigit -> token_next_number(text, p)
       [] c = NUL -> LEX_NONE(p)
       [] OTHER -> token_next_char(text, p)

RECURSIVE token_next(_, _)
token_next(text, p) ==
  LET t == token_next_(text, RunEnd(text, p, isspace))
  IN IF t.type \in {"BCOMM", "LCOMM"} THEN token_next(text, t.str + t.len) ELSE t

-----------------------------------------------------------------------------
(* What the rest of the program reads in a token. *)

RECURSIVE compile_int(_)
compile_int(digits) ==
  IF digits = <<>> THEN 0
  ELSE 10 * compile_int(Front(digits)) + (CHOOSE i \in 1..10 : DigitSeq[i] = Last(digits)) - 1

(* Character i of a string is a backslash that escapes the next one. *)
RECURSIVE Escapes(_, _)
Escapes(s, i) == i > 0 /\ s[i] = "\\" /\ ~Escapes(s, i - 1)

compile_string(lexeme) ==
  LET s == SubSeq(lexeme, 2, Len(lexeme) - 1)
      meaning(i) == CASE Escapes(s, i) -> ""
                      [] Escapes(s, i - 1) /\ s[i] = "n" -> "\n"
                      [] Escapes(s, i - 1) /\ s[i] = "r" -> "\r"
                      [] OTHER -> s[i]
  IN String([i \in DOMAIN s |-> meaning(i)])

token_ident(type, lexeme) == String(IF type = "INFIX" THEN Tail(lexeme) ELSE lexeme)

(* A token with what is read in it. *)
Token(text, t) ==
  LET lexeme == Lexeme(text, t)
  IN [type |-> t.type, str |-> t.str, len |-> t.len,
      name  |-> CASE t.type \in {"IDENT", "OP", "INFIX"} -> token_ident(t.type, lexeme)
                  [] t.type = "STRING" -> compile_string(lexeme)
                  [] OTHER -> "",
      value |-> IF t.type = "INT" THEN compile_int(lexeme) ELSE 0]

(* The tokens of a text from p; the last is no token, but "NONE" or "BAD". *)
RECURSIVE Tokens(_, _)
Tokens(text, p) ==
  LET t == token_next(text, p)
  IN <<Token(text, t)>>
       \o IF t.type \in {"NONE", "BAD"} THEN <<>> ELSE Tokens(text, t.str + t.len)
=============================================================================
