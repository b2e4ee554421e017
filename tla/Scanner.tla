------------------------------- MODULE Scanner -------------------------------
(***************************************************************************)
(* The scanner of src/slox/lib/scanner.c.  A source is a sequence of       *)
(* one-character strings followed by the NUL terminator; the scanner keeps *)
(* start/current positions and the line, and every scanToken() call        *)
(* returns one token.  The compiler calls scanToken() until EOF, also      *)
(* after error tokens.  Positions are 1-based; position Len(src)+1 holds   *)
(* the terminator.                                                         *)
(***************************************************************************)
EXTENDS Integers, Sequences, SequencesExt

CONSTANTS
  Sources,    \* the source texts scanned
  MaxLen      \* the longest of them

NUL == "NUL"

VARIABLES
  src,       \* the source text
  current,   \* scanner.current
  line,      \* scanner.line
  tokens,    \* the set of tokens returned so far: [type, from, to, line, text]
  comments,  \* block comments skipped so far: [open, close] positions
  status     \* "scanning", "eof", or "overrun" (current past the terminator)

vars == <<src, current, line, tokens, comments, status>>

LetterChars == {"a", "b", "c", "d", "e", "f", "g", "h", "i", "j", "k", "l", "m",
                "n", "o", "p", "q", "r", "s", "t", "u", "v", "w", "x", "y", "z", "_"}
DigitChars == {"0", "1", "2", "3", "4", "5", "6", "7", "8", "9"}

isAlpha(c) == c \in LetterChars
isDigit(c) == c \in DigitChars

\* peek() at position i: the terminator after the last character.
Char(i) == IF i <= Len(src) THEN src[i] ELSE NUL

\* The first position at or after i whose character is not in S.
SpanEnd(i, S) == Min({j \in i..Len(src) + 1 : Char(j) \notin S})

\* The '//' comment loop: the newline or the terminator that ends the line.
LineEnd(i) == Min({j \in i..Len(src) + 1 : Char(j) \in {"\n", NUL}})

(***************************************************************************)
(* The multi-line comment loop of skipWhitespace, entered after advance() *)
(* has consumed the '/' only: WSS_SCAN / WSS_STAR over the characters     *)
(* until '/' follows a '*' or the source ends.                            *)
(***************************************************************************)
\* Mutant: a newline read in the WSS_STAR state is not counted.
RECURSIVE BlockComment_starNewline(_, _, _)
BlockComment_starNewline(i, ln, st) ==
  IF i > Len(src) THEN [state |-> st, pos |-> i, line |-> ln]
  ELSE LET ch == src[i]
           next == IF st = "SCAN" THEN IF ch = "*" THEN "STAR" ELSE "SCAN"
                   ELSE IF ch = "/" THEN "DONE" ELSE "SCAN"
           ln2 == IF ch = "\n" /\ st = "SCAN" THEN ln + 1 ELSE ln
       IN  IF next = "DONE" THEN [state |-> "DONE", pos |-> i + 1, line |-> ln2]
           ELSE BlockComment_starNewline(i + 1, ln2, next)

RECURSIVE BlockComment(_, _, _)
BlockComment(i, ln, st) ==
  IF i > Len(src) THEN [state |-> st, pos |-> i, line |-> ln]
  ELSE LET ch == src[i]
           next == IF st = "SCAN" THEN IF ch = "*" THEN "STAR" ELSE "SCAN"
                   ELSE IF ch = "/" THEN "DONE" ELSE "SCAN"
           ln2 == IF ch = "\n" THEN ln + 1 ELSE ln
       IN  IF next = "DONE" THEN [state |-> "DONE", pos |-> i + 1, line |-> ln2]
           ELSE BlockComment(i + 1, ln2, next)

(***************************************************************************)
(* skipWhitespace from position i: the position and line it stops at,     *)
(* FALSE for an unterminated block comment, and the comments it skipped.  *)
(***************************************************************************)
RECURSIVE skipWhitespace(_, _, _)
skipWhitespace(i, ln, cms) ==
  LET c == Char(i)
      b == BlockComment(i + 1, ln, "SCAN")
  IN  CASE c \in {" ", "\r", "\t"} -> skipWhitespace(i + 1, ln, cms)
        [] c = "\n" -> skipWhitespace(i + 1, ln + 1, cms)
        [] c = "/" /\ Char(i + 1) = "/" -> skipWhitespace(LineEnd(i), ln, cms)
        [] c = "/" /\ Char(i + 1) = "*" /\ b.state = "DONE" ->
             skipWhitespace(b.pos, b.line, cms \cup {[open |-> i, close |-> b.pos - 1]})
        [] c = "/" /\ Char(i + 1) = "*" ->
             [ok |-> FALSE, pos |-> b.pos, line |-> b.line, comments |-> cms]
        [] OTHER -> [ok |-> TRUE, pos |-> i, line |-> ln, comments |-> cms]

(***************************************************************************)
(* string(delimiter) from position i, just after the opening quote: the   *)
(* SCAN / ESCAPE loop copying the unescaped characters, closing delimiter  *)
(* included, into out.  It ends with the token, or an error token after   *)
(* advance() has read the terminator or a bad escape.                     *)
(***************************************************************************)
\* Mutant: an escape keeps its letter instead of the control character.
EscapeChar_untranslated == [c \in {"'", "\\", "\"", "n", "r", "t"} |-> c]

EscapeChar == [c \in {"'", "\\", "\"", "n", "r", "t"} |->
                 CASE c = "n" -> "\n" [] c = "r" -> "\r" [] c = "t" -> "\t"
                   [] OTHER -> c]

RECURSIVE string(_, _, _, _)
string(i, delim, mode, out) ==
  LET ch == Char(i) IN
  CASE mode = "SCAN" /\ ch = delim ->
         [kind |-> "STRING", pos |-> i + 1, text |-> Append(out, ch)]
    [] mode = "SCAN" /\ ch = "\\" -> string(i + 1, delim, "ESCAPE", out)
    [] mode = "SCAN" /\ ch = NUL ->
         [kind |-> "Unterminated string", pos |-> i + 1, text |-> <<>>]
    [] mode = "SCAN" -> string(i + 1, delim, "SCAN", Append(out, ch))
    [] ch \in DOMAIN EscapeChar ->
         string(i + 1, delim, "SCAN", Append(out, EscapeChar[ch]))
    [] ch = NUL -> [kind |-> "Unterminated string", pos |-> i + 1, text |-> <<>>]
    [] OTHER -> [kind |-> "Invalid escape sequence", pos |-> i + 1, text |-> <<>>]

(***************************************************************************)
(* identifierType for the identifier at positions from..to-1.  Like the   *)
(* code it reads start[2] whenever the identifier is longer than one      *)
(* character, and the 'h' case of 't' falls through into the 'r' case.    *)
(***************************************************************************)
identifierType(from, to) ==
  LET n == to - from
      c0 == Char(from)
      c1 == Char(from + 1)
      c2 == Char(from + 2)
      checkKeyword(start, rest, type) ==
        IF n = start + Len(rest) /\ SubSeq(src, from + start, to - 1) = rest
        THEN type ELSE "IDENTIFIER"
  IN
  CASE c0 = "a" -> checkKeyword(1, <<"n", "d">>, "AND")
    [] c0 = "b" -> checkKeyword(1, <<"r", "e", "a", "k">>, "BREAK")
    [] c0 = "c" /\ n > 1 /\ c1 = "a" -> checkKeyword(2, <<"t", "c", "h">>, "CATCH")
    [] c0 = "c" /\ n > 1 /\ c1 = "l" -> checkKeyword(2, <<"a", "s", "s">>, "CLASS")
    [] c0 = "c" /\ n > 1 /\ c1 = "o" ->
         checkKeyword(2, <<"n", "t", "i", "n", "u", "e">>, "CONTINUE")
    [] c0 = "e" -> checkKeyword(1, <<"l", "s", "e">>, "ELSE")
    [] c0 = "f" /\ n > 1 /\ c1 = "a" -> checkKeyword(2, <<"l", "s", "e">>, "FALSE")
    [] c0 = "f" /\ n > 1 /\ c1 = "o" -> checkKeyword(2, <<"r">>, "FOR")
    [] c0 = "f" /\ n > 1 /\ c1 = "u" -> checkKeyword(2, <<"n">>, "FUN")
    [] c0 = "i" -> checkKeyword(1, <<"f">>, "IF")
    [] c0 = "n" -> checkKeyword(1, <<"i", "l">>, "NIL")
    [] c0 = "o" -> checkKeyword(1, <<"r">>, "OR")
    [] c0 = "p" -> checkKeyword(1, <<"r", "i", "n", "t">>, "PRINT")
    [] c0 = "r" -> checkKeyword(1, <<"e", "t", "u", "r", "n">>, "RETURN")
    [] c0 = "s" -> checkKeyword(1, <<"u", "p", "e", "r">>, "SUPER")
    [] c0 = "t" /\ n > 1 /\ c1 = "h" /\ c2 = "i" -> checkKeyword(3, <<"s">>, "THIS")
    [] c0 = "t" /\ n > 1 /\ c1 = "h" /\ c2 = "r" -> checkKeyword(3, <<"o", "w">>, "THROW")
    [] c0 = "t" /\ n > 1 /\ c1 \in {"h", "r"} /\ c2 = "u" -> checkKeyword(3, <<"e">>, "TRUE")
    [] c0 = "t" /\ n > 1 /\ c1 \in {"h", "r"} /\ c2 = "y" -> checkKeyword(3, <<>>, "TRY")
    [] c0 = "v" -> checkKeyword(1, <<"a", "r">>, "VAR")
    [] c0 = "w" -> checkKeyword(1, <<"h", "i", "l", "e">>, "WHILE")
    [] OTHER -> "IDENTIFIER"

\* number(): digits, then a '.' and digits when a digit follows the '.'.
numberEnd(i) ==
  LET e == SpanEnd(i, DigitChars)
  IN  IF Char(e) = "." /\ isDigit(Char(e + 1)) THEN SpanEnd(e + 1, DigitChars) ELSE e

SingleTokens ==
  ("(" :> "LEFT_PAREN" @@ ")" :> "RIGHT_PAREN" @@ "{" :> "LEFT_BRACE"
   @@ "}" :> "RIGHT_BRACE" @@ "[" :> "LEFT_BRACKET" @@ "]" :> "RIGHT_BRACKET"
   @@ ":" :> "COLON" @@ ";" :> "SEMICOLON" @@ "," :> "COMMA" @@ "." :> "DOT"
   @@ "-" :> "MINUS" @@ "+" :> "PLUS" @@ "/" :> "SLASH" @@ "%" :> "PERCENT"
   @@ "*" :> "STAR")

\* The one-or-two character tokens: [alone, followed by '='].
PairTokens ==
  ("!" :> <<"BANG", "BANG_EQUAL">> @@ "=" :> <<"EQUAL", "EQUAL_EQUAL">>
   @@ "<" :> <<"LESS", "LESS_EQUAL">> @@ ">" :> <<"GREATER", "GREATER_EQUAL">>)

(***************************************************************************)
(* The token scanToken() makes at start (after skipWhitespace), and the   *)
(* position it leaves current at.                                          *)
(***************************************************************************)
\* Mutant: the first character is peeked at instead of consumed.
advanced_none(start) == start

\* "char c = advance()": the position after the token's first character.
advanced(start) == start + 1

Lex(start) ==
  LET c == Char(start)
      i == advanced(start)
      tok(type, to) == [type |-> type, to |-> to, text |-> SubSeq(src, start, to - 1)]
      str == string(i, c, "SCAN", <<c>>)
  IN
  CASE c = NUL -> [type |-> "EOF", to |-> start, text |-> <<>>]
    [] isAlpha(c) -> tok(identifierType(start, SpanEnd(i, LetterChars \cup DigitChars)),
                         SpanEnd(i, LetterChars \cup DigitChars))
    [] isDigit(c) -> tok("NUMBER", numberEnd(i))
    [] c \in DOMAIN SingleTokens -> tok(SingleTokens[c], i)
    [] c \in DOMAIN PairTokens /\ Char(i) = "=" -> tok(PairTokens[c][2], i + 1)
    [] c \in DOMAIN PairTokens -> tok(PairTokens[c][1], i)
    [] c \in {"\"", "'"} /\ str.kind = "STRING" ->
         [type |-> "STRING", to |-> str.pos, text |-> str.text]
    [] c \in {"\"", "'"} -> [type |-> str.kind, to |-> str.pos, text |-> <<>>]
    [] OTHER -> [type |-> "Unexpected character.", to |-> i, text |-> <<>>]

Init ==
  /\ src \in Sources
  /\ current = 1
  /\ line = 1
  /\ tokens = {}
  /\ comments = {}
  /\ status = "scanning"

(***************************************************************************)
(* scanToken(): skip whitespace and comments (an unterminated block       *)
(* comment is an error token), then lex one token.  A call made when      *)
(* current is already past the terminator reads outside the source.       *)
(***************************************************************************)
scanToken ==
  LET ws == skipWhitespace(current, line, comments)
      t == Lex(ws.pos)
  IN
  /\ status = "scanning"
  /\ \/ /\ current > Len(src) + 1
        /\ status' = "overrun"
        /\ UNCHANGED <<src, current, line, tokens, comments>>
     \/ /\ current <= Len(src) + 1
        /\ ~ws.ok
        /\ tokens' = tokens \cup {[type |-> "Unterminated comment", from |-> ws.pos,
                                      to |-> ws.pos, line |-> ws.line, text |-> <<>>]}
        /\ current' = ws.pos
        /\ line' = ws.line
        /\ UNCHANGED <<src, comments, status>>
     \/ /\ current <= Len(src) + 1
        /\ ws.ok
        /\ tokens' = tokens \cup {[type |-> t.type, from |-> ws.pos, to |-> t.to,
                                      line |-> ws.line, text |-> t.text]}
        /\ current' = t.to
        /\ line' = ws.line
        /\ comments' = ws.comments
        /\ status' = IF t.type = "EOF" THEN "eof" ELSE "scanning"
        /\ UNCHANGED src

\* The compiler stops calling scanToken() after EOF.
Done == status /= "scanning" /\ UNCHANGED vars

Next == scanToken \/ Done

Spec == Init /\ [][Next]_vars /\ WF_vars(scanToken)

-----------------------------------------------------------------------------
Token == [type : STRING, from : Nat, to : Nat, line : Nat, text : Seq(STRING)]

ScannerTypeOK ==
  /\ current \in 1..MaxLen + 2
  /\ line \in 1..MaxLen + 1
  /\ tokens \subseteq Token
  /\ \A t \in tokens : t.from < t.to \/ t.type \in {"EOF", "Unterminated comment"}
  /\ status \in {"scanning", "eof", "overrun"}

NewlinesBefore(p) == Cardinality({j \in 1..Min({p - 1, Len(src)}) : src[j] = "\n"})

(***************************************************************************)
(* Every token carries the line it starts on: one more than the newlines  *)
(* before it (spec.md 4.F).  skipWhitespace counts newlines between       *)
(* tokens and inside both kinds of comment; string() must count the ones  *)
(* inside a literal.                                                       *)
(***************************************************************************)
LineNumbersCounted ==
  \A t \in tokens : t.line = 1 + NewlinesBefore(t.from)

(***************************************************************************)
(* The escapes of spec.md 4.F, as a reference to compare string() with.   *)
(***************************************************************************)
RefEscape == ("n" :> "\n" @@ "r" :> "\r" @@ "t" :> "\t" @@ "\\" :> "\\"
              @@ "'" :> "'" @@ "\"" :> "\"")

RECURSIVE Unescape(_)
Unescape(s) ==
  IF s = <<>> THEN <<>>
  ELSE IF Head(s) = "\\" /\ Len(s) >= 2 /\ s[2] \in DOMAIN RefEscape
       THEN <<RefEscape[s[2]]>> \o Unescape(Tail(Tail(s)))
       ELSE <<Head(s)>> \o Unescape(Tail(s))

(***************************************************************************)
(* A string token's text is its delimiters around the unescaped body of   *)
(* the literal in the source, as string() rewrites it in place.           *)
(***************************************************************************)
StringTokensUnescaped ==
  \A t \in tokens :
    t.type = "STRING" =>
      LET d == src[t.from]
      IN  t.text = <<d>> \o Unescape(SubSeq(src, t.from + 1, t.to - 2)) \o <<d>>

(***************************************************************************)
(* Scanning any source stops when the compiler keeps calling scanToken(): *)
(* no call leaves current where it was, so EOF (or, after an unterminated *)
(* string, the read past the terminator) is reached.                      *)
(***************************************************************************)
ScanStops == <>(status /= "scanning")

(***************************************************************************)
(* The keyword set of spec.md 4.F, as a reference for identifierType.     *)
(***************************************************************************)
KeywordTable ==
  (<<"a","n","d">> :> "AND" @@ <<"o","r">> :> "OR" @@ <<"i","f">> :> "IF"
   @@ <<"e","l","s","e">> :> "ELSE" @@ <<"w","h","i","l","e">> :> "WHILE"
   @@ <<"f","o","r">> :> "FOR" @@ <<"f","o","r","e","a","c","h">> :> "FOREACH"
   @@ <<"b","r","e","a","k">> :> "BREAK" @@ <<"c","o","n","t","i","n","u","e">> :> "CONTINUE"
   @@ <<"f","u","n">> :> "FUN" @@ <<"f","u","n","c","t","i","o","n">> :> "FUN"
   @@ <<"r","e","t","u","r","n">> :> "RETURN" @@ <<"c","l","a","s","s">> :> "CLASS"
   @@ <<"t","h","i","s">> :> "THIS" @@ <<"s","u","p","e","r">> :> "SUPER"
   @@ <<"t","r","u","e">> :> "TRUE" @@ <<"f","a","l","s","e">> :> "FALSE"
   @@ <<"n","i","l">> :> "NIL" @@ <<"v","a","r">> :> "VAR"
   @@ <<"p","r","i","n","t">> :> "PRINT" @@ <<"t","r","y">> :> "TRY"
   @@ <<"c","a","t","c","h">> :> "CATCH" @@ <<"t","h","r","o","w">> :> "THROW"
   @@ <<"i","m","p","o","r","t">> :> "IMPORT")

(***************************************************************************)
(* An identifier-shaped token is a keyword exactly when its text is in    *)
(* the keyword table, and then it is that keyword (identifierType).       *)
(***************************************************************************)
KeywordsMatchTable ==
  \A t \in tokens :
    t.type \in {"IDENTIFIER"} \cup Range(KeywordTable) =>
      t.type = IF t.text \in DOMAIN KeywordTable THEN KeywordTable[t.text] ELSE "IDENTIFIER"

=============================================================================
