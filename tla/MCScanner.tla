----------------------------- MODULE MCScanner ------------------------------
(***************************************************************************)
(* Sources for Scanner: every text up to a few characters long over small *)
(* alphabets.                                                              *)
(***************************************************************************)
EXTENDS Scanner

\* Identifiers, numbers with a fraction, '=' / '!=' pairs, '/', both kinds
\* of comment, newlines, and a character no token starts with.
LinesAlphabet == {"a", "1", ".", "/", "*", "\n", "=", "!", "#"}

\* Both delimiters, the backslash, an escape letter and a plain letter:
\* literals with good and bad escapes, terminated or not.
StringAlphabet == {"\"", "'", "\\", "n", "x"}

ScannerSources == BoundedSeq(LinesAlphabet, 4) \cup BoundedSeq(StringAlphabet, 5)

\* Identifiers made of the letters of this, throw, true and try.
KeywordSources == BoundedSeq({"t", "h", "i", "s", "r", "u", "e", "y"}, 4)
=============================================================================
