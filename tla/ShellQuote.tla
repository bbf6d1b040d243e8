----------------------------- MODULE ShellQuote -----------------------------
(***************************************************************************)
(* Words on their way to a command: shell_word and shell_quote write them  *)
(* into the script character by character, and sh reads the script back.   *)
(* Characters matter where sh tells them apart.                            *)
(***************************************************************************)
EXTENDS Naturals, Sequences, SequencesExt

Quote == "quote"
Backslash == "backslash"
Blank == {"space", "newline"}
Operators == {";", "|", "value|"}               \* what ends a word outside of quotes
Syntax == Operators \cup {"$", "dquote", "backquote"}   \* what sh acts upon there

VARIABLES
  todo,      \* words of the command still to be written: a text and force_quote
  written,   \* words begun
  rest,      \* characters of the current word still to be written
  writing,   \* "between", "quoted" or "bare"
  script,    \* characters written and not read
  reading,   \* sh's state: "between", "bare", "quoted", "escaped", "comment" or "substituted"
  word,      \* characters of the word sh is reading
  words,     \* words sh has read
  acted      \* characters sh took for syntax

quoteVars == <<todo, written, rest, writing, script, reading, word, words, acted>>

QuoteInit ==
  /\ todo = <<>> /\ written = <<>> /\ rest = <<>> /\ writing = "between" /\ script = <<>>
  /\ reading = "between" /\ word = <<>> /\ words = <<>> /\ acted = {}

UnchangedReader == UNCHANGED <<reading, word, words, acted>>

\* shell_word: quoted on demand, and where the text would not stay one word.
Begin ==
  /\ writing = "between" /\ todo # <<>>
  /\ LET w == Head(todo)
         quoted == w.force \/ w.text = <<>> \/ \E k \in DOMAIN w.text : w.text[k] \in Blank
     IN /\ writing' = IF quoted THEN "quoted" ELSE "bare"
        /\ script' = IF quoted THEN Append(script, Quote) ELSE script
        /\ written' = Append(written, w) /\ rest' = w.text
  /\ todo' = Tail(todo)
  /\ UnchangedReader

\* Mutant: a quote in the text is written as any other character.
PushPlain ==
  /\ writing \in {"quoted", "bare"} /\ rest # <<>>
  /\ script' = Append(script, Head(rest))
  /\ rest' = Tail(rest)
  /\ UNCHANGED <<todo, written, writing>> /\ UnchangedReader

\* shell_quote's loop: a quote closes, is escaped, and opens again.
Push ==
  /\ writing \in {"quoted", "bare"} /\ rest # <<>>
  /\ script' = script \o (IF writing = "quoted" /\ Head(rest) = Quote
                          THEN <<Quote, Backslash, Quote, Quote>> ELSE <<Head(rest)>>)
  /\ rest' = Tail(rest)
  /\ UNCHANGED <<todo, written, writing>> /\ UnchangedReader

\* The closing quote, and the space between words or the end of the line (the
\* last line has the end of the script for it, which ends a word as well).
End ==
  /\ writing \in {"quoted", "bare"} /\ rest = <<>>
  /\ script' = script \o (IF writing = "quoted" THEN <<Quote>> ELSE <<>>)
                      \o <<IF todo = <<>> THEN "newline" ELSE "space">>
  /\ writing' = "between"
  /\ UNCHANGED <<todo, written, rest>> /\ UnchangedReader

\* sh takes the next character of a script that is written; adjacent parts make one word.
\* What stands in backquotes is another script, up to the next backquote.
Read ==
  /\ todo = <<>> /\ writing = "between" /\ script # <<>>
  /\ script' = Tail(script)
  /\ LET c == Head(script)
         outside == reading \in {"between", "bare"}
     IN
     \/ /\ reading = "quoted" /\ c = Quote
        /\ reading' = "bare" /\ UNCHANGED <<word, words, acted>>
     \/ /\ reading = "quoted" /\ c # Quote
        /\ word' = Append(word, c) /\ UNCHANGED <<reading, words, acted>>
     \/ /\ reading = "escaped"
        /\ reading' = "bare" /\ word' = (IF c = "newline" THEN word ELSE Append(word, c))
        /\ UNCHANGED <<words, acted>>
     \/ /\ reading = "comment"
        /\ reading' = (IF c = "newline" THEN "between" ELSE "comment")
        /\ UNCHANGED <<word, words, acted>>
     \/ /\ reading = "substituted"
        /\ reading' = (IF c = "backquote" THEN "bare" ELSE "substituted")
        /\ UNCHANGED <<word, words, acted>>
     \/ /\ outside /\ c = Quote
        /\ reading' = "quoted" /\ UNCHANGED <<word, words, acted>>
     \/ /\ outside /\ c = Backslash
        /\ reading' = "escaped" /\ UNCHANGED <<word, words, acted>>
     \/ /\ reading = "bare" /\ c \in Blank \cup Operators
        /\ reading' = "between" /\ words' = Append(words, word) /\ word' = <<>>
        /\ acted' = acted \cup ({c} \cap Operators)
     \/ /\ reading = "between" /\ c \in Blank \cup Operators
        /\ acted' = acted \cup ({c} \cap Operators) /\ UNCHANGED <<reading, word, words>>
     \/ /\ outside /\ c \in Syntax \ Operators
        /\ reading' = (IF c = "backquote" THEN "substituted" ELSE "bare")
        /\ acted' = acted \cup {c} /\ UNCHANGED <<word, words>>
     \/ /\ reading = "between" /\ c = "#"
        /\ reading' = "comment" /\ UNCHANGED <<word, words, acted>>
     \/ /\ outside /\ c \notin Blank \cup Syntax \cup {Quote, Backslash}
        /\ c = "#" => reading = "bare"
        /\ reading' = "bare" /\ word' = Append(word, c) /\ UNCHANGED <<words, acted>>
  /\ UNCHANGED <<todo, written, rest, writing>>

QuoteNext == Begin \/ Push \/ End \/ Read
============================================================================
