------------------------------ MODULE ExecLine ------------------------------
(***************************************************************************)
(* A line of Exec from its text to the words a command gets: parse_exec    *)
(* reads it into stages, tokens and pieces, render_command puts the values *)
(* of a request into the words of one of its commands, ShellQuote writes   *)
(* them into the script and sh reads them back.                            *)
(*                                                                         *)
(* The grammar needs no look-ahead but a source stage's, so the parser     *)
(* goes from left to right, chunk by chunk.  A part of a word is a text    *)
(* and whether it is a reference; a value is a set with at most one text.  *)
(***************************************************************************)
EXTENDS ShellQuote

CONSTANTS
  Lines,   \* Exec lines, as sequences of characters
  Values   \* what a reference may be: values, or none

Name == {"a", "n"}
Sigil == {"%"}               \* with an identifier: %, :, ^, @
Hws == {"space"}             \* blank and tab
Quotes == {Quote, "dquote"}
Lbrace == "{"
Rbrace == "}"

\* A value's own syntax is told from the author's; "end" is no character.
ASSUME LineAssumption ==
  /\ \A x \in Lines : x \in Seq(ToSet(x)) /\ x # <<>> /\ {"value|", "end"} \cap ToSet(x) = {}
  /\ \A v \in Values : \A text \in v :
       /\ v = {text} /\ text \in Seq(ToSet(text))
       /\ ToSet(text) \cap Syntax \subseteq {"value|", "backquote"}

VARIABLES
  line,     \* the line (fixed)
  at,       \* the next character
  phase,    \* stage, command, group, then accepted, rejected, rendered or failed
  open,     \* the quote that is open, if any
  piece,    \* the text token or piece being read, if any
  pieces,   \* pieces of the group being read
  tokens,   \* tokens of the stage
  stages,   \* stages read
  given     \* the request's values

parseVars == <<line, at, phase, open, piece, pieces, tokens, stages, given>>
lineVars == <<line, at, phase, open, piece, pieces, tokens, stages, given,
              todo, written, rest, writing, script, reading, word, words, acted>>

----------------------------------------------------------------------------
(* Parts of the grammar: positions after them. *)

At(k) == IF k \in DOMAIN line THEN line[k] ELSE "end"
Past(k, chars) ==
  CHOOSE n \in k..(k + Len(line)) : At(n) \notin chars /\ \A j \in k..(n - 1) : At(j) \in chars

\* value_ref_parser: the body's path takes a dot only with the name after it.
Dotted(k, n) ==
  /\ n > k => At(k) = "."
  /\ \A j \in k..(n - 1) : At(j) \in Name \/ (At(j) = "." /\ j + 1 < n /\ At(j + 1) \in Name)
Ref(k) ==
  CASE At(k) = "$" -> {CHOOSE n \in (k + 1)..(Len(line) + 1) :
                         /\ Dotted(k + 1, n)
                         /\ \A m \in (n + 1)..(Len(line) + 1) : ~Dotted(k + 1, m)}
    [] At(k) \in Sigil -> {n \in {Past(k + 1, Name)} : n > k + 1}
    [] OTHER -> {}

\* interp_parser
Interp(k) ==
  LET start == Past(k + 1, Hws)
  IN {[from |-> start, to |-> n, end |-> Past(n, Hws) + 1] :
        n \in {m \in Ref(start) : At(k) = Lbrace /\ At(Past(m, Hws)) = Rbrace}}

\* What a bare chunk of a text token, or of a piece, may hold.
Special == {"space", "newline", "|", "[", "]", Lbrace, "end"} \cup Quotes
PieceSpecial == Special \cup Sigil \cup {Rbrace, "$"}
Chars == ToSet(line)
Bare == IF phase = "group" THEN Chars \ PieceSpecial ELSE Chars \ Special

Literal(text) == [ref |-> FALSE, text |-> text]
RefPart(from, to) == [ref |-> TRUE, text |-> SubSeq(line, from, to - 1)]

\* merge_literals
Merged(parts, p) ==
  IF ~p.ref /\ parts # <<>> /\ ~Last(parts).ref
  THEN Append(Front(parts), Literal(Last(parts).text \o p.text)) ELSE Append(parts, p)

Begun == IF piece = {} THEN [parts |-> <<>>, force |-> FALSE] ELSE CHOOSE p \in piece : TRUE

----------------------------------------------------------------------------
(* parse_exec. *)

LineInit ==
  /\ line \in Lines /\ at = 1 /\ phase = "stage" /\ open = "none" /\ piece = {}
  /\ pieces = <<>> /\ tokens = <<>> /\ stages = <<>> /\ given = <<>>
  /\ QuoteInit

\* source_only: a reference alone, before a pipe or the end.
SourceEnd ==
  {n \in {Past(m, Hws) : m \in Ref(Past(at, Hws))} : At(n) \in {"|", "end"}}
EndStage(stage, n) ==
  /\ stages' = Append(stages, stage) /\ at' = n + 1
  /\ phase' = IF At(n) = "|" THEN "stage" ELSE "accepted"

Source ==
  /\ phase = "stage"
  /\ \E n \in SourceEnd : EndStage([source |-> TRUE, tokens |-> <<>>], n)
  /\ UNCHANGED <<line, open, piece, pieces, tokens, given>>

Command ==
  /\ phase = "stage" /\ SourceEnd = {}
  /\ phase' = "command" /\ at' = Past(at, Hws) /\ tokens' = <<>>
  /\ UNCHANGED <<line, open, piece, pieces, stages, given>>

OpenGroup ==
  /\ phase = "command" /\ piece = {} /\ At(at) = "["
  /\ phase' = "group" /\ at' = Past(at + 1, Hws) /\ pieces' = <<>>
  /\ UNCHANGED <<line, open, piece, tokens, stages, given>>

\* A chunk goes to the piece that is being read, or begins one.
Add(part, n) ==
  /\ piece' = {[parts |-> Merged(Begun.parts, part), force |-> Begun.force]} /\ at' = n
  /\ UNCHANGED <<line, phase, open, pieces, tokens, stages, given>>

TakeBare ==
  /\ phase \in {"command", "group"} /\ open = "none" /\ At(at) \in Bare
  /\ Add(Literal(SubSeq(line, at, Past(at, Bare) - 1)), Past(at, Bare))

TakeRef ==
  /\ phase = "group" /\ open = "none"
  /\ \E n \in Ref(at) : Add(RefPart(at, n), n)

OpenQuote ==
  /\ phase \in {"command", "group"} /\ open = "none" /\ At(at) \in Quotes
  /\ open' = At(at) /\ at' = at + 1 /\ piece' = {[parts |-> Begun.parts, force |-> TRUE]}
  /\ UNCHANGED <<line, phase, pieces, tokens, stages, given>>

\* Mutant: a backslash escapes nothing.
TakeQuotedRaw ==
  /\ open # "none"
  /\ \/ \E i \in Interp(at) : Add(RefPart(i.from, i.to), i.end)
     \/ /\ At(at) \notin {open, Lbrace, "end"}
        /\ Add(Literal(<<At(at)>>), at + 1)

\* quoted_parts: a reference in braces, an escaped character, or any other.
TakeQuoted ==
  /\ open # "none"
  /\ \/ \E i \in Interp(at) : Add(RefPart(i.from, i.to), i.end)
     \/ At(at) = Backslash /\ At(at + 1) # "end" /\ Add(Literal(<<At(at + 1)>>), at + 2)
     \/ At(at) \notin {open, Backslash, Lbrace, "end"} /\ Add(Literal(<<At(at)>>), at + 1)

CloseQuote ==
  /\ open # "none" /\ At(at) = open
  /\ open' = "none" /\ at' = at + 1
  /\ UNCHANGED <<line, phase, piece, pieces, tokens, stages, given>>

\* Nothing more belongs to the text token or piece; the next needs no blank before it.
EndPiece ==
  /\ piece # {} /\ open = "none" /\ At(at) \notin Bare \cup Quotes
  /\ phase = "group" => Ref(at) = {}
  /\ IF phase = "group" THEN pieces' = Append(pieces, Begun) /\ UNCHANGED tokens
     ELSE tokens' = Append(tokens, [group |-> FALSE, pieces |-> <<Begun>>]) /\ UNCHANGED pieces
  /\ piece' = {} /\ at' = Past(at, Hws)
  /\ UNCHANGED <<line, phase, open, stages, given>>

CloseGroup ==
  /\ phase = "group" /\ piece = {} /\ pieces # <<>> /\ At(at) = "]"
  /\ tokens' = Append(tokens, [group |-> TRUE, pieces |-> pieces])
  /\ phase' = "command" /\ at' = Past(at + 1, Hws)
  /\ UNCHANGED <<line, open, piece, pieces, stages, given>>

CommandEnds ==
  /\ phase = "command" /\ piece = {} /\ tokens # <<>> /\ At(at) \in {"|", "end"}
  /\ EndStage([source |-> FALSE, tokens |-> tokens], at)
  /\ UNCHANGED <<line, open, piece, pieces, tokens, given>>

\* Nothing fits: an "invalid Exec" error.
Reject ==
  /\ \/ /\ open # "none" /\ At(at) # open /\ Interp(at) = {}
        /\ At(at) \in {Lbrace, "end"} \/ (At(at) = Backslash /\ At(at + 1) = "end")
     \/ /\ phase = "command" /\ piece = {}
        /\ At(at) \notin Bare \cup Quotes \cup {"["}
        /\ ~(tokens # <<>> /\ At(at) \in {"|", "end"})
     \/ /\ phase = "group" /\ piece = {} /\ open = "none"
        /\ At(at) \notin Bare \cup Quotes /\ Ref(at) = {}
        /\ ~(pieces # <<>> /\ At(at) = "]")
  /\ phase' = "rejected"
  /\ UNCHANGED <<line, at, open, piece, pieces, tokens, stages, given>>

Parse ==
  \/ Source \/ Command \/ OpenGroup \/ TakeBare \/ TakeRef \/ OpenQuote \/ TakeQuoted
  \/ CloseQuote \/ EndPiece \/ CloseGroup \/ CommandEnds \/ Reject

----------------------------------------------------------------------------
(* render_command, for one command of the line. *)

Refs(p) == {p.parts[k].text : k \in {j \in DOMAIN p.parts : p.parts[j].ref}}
StageRefs(stage) ==
  UNION {UNION {Refs(token.pieces[k]) : k \in DOMAIN token.pieces} : token \in ToSet(stage.tokens)}

Missing(token) == \E k \in DOMAIN token.pieces : \E r \in Refs(token.pieces[k]) : given'[r] = {}
PartText(p) == IF ~p.ref THEN p.text ELSE FlattenSeq(SetToSeq(given'[p.text]))
ShellText(p) ==
  [text |-> FlattenSeq([k \in DOMAIN p.parts |-> PartText(p.parts[k])]),
   force |-> p.force \/ Refs(p) # {}]

\* A text token is always a word; a group's are left out together.
TokenWords(token) ==
  IF token.group /\ Missing(token) THEN <<>>
  ELSE [k \in DOMAIN token.pieces |-> ShellText(token.pieces[k])]

Render ==
  /\ phase = "accepted"
  /\ \E k \in DOMAIN stages :
       /\ ~stages[k].source
       /\ given' \in [StageRefs(stages[k]) -> Values]
       /\ todo' = FlattenSeq([j \in DOMAIN stages[k].tokens |-> TokenWords(stages[k].tokens[j])])
  /\ phase' = IF todo' = <<>> THEN "failed" ELSE "rendered"
  /\ UNCHANGED <<line, at, open, piece, pieces, tokens, stages,
                 written, rest, writing, script, reading, word, words, acted>>

\* Refused, without a command to render, or all read by sh.
LineDone ==
  /\ \/ phase \in {"rejected", "failed"}
     \/ phase = "accepted" /\ \A k \in DOMAIN stages : stages[k].source
     \/ phase = "rendered" /\ todo = <<>> /\ writing = "between" /\ script = <<>>
  /\ UNCHANGED lineVars

LineNext ==
  \/ Parse /\ UNCHANGED quoteVars
  \/ Render
  \/ QuoteNext /\ UNCHANGED parseVars
  \/ LineDone

LineSpec == LineInit /\ [][LineNext]_lineVars

----------------------------------------------------------------------------
(* The line as its author reads it, without the grammar. *)

\* What is open before each character, and whether a backslash escapes it.
Lexed(x, c) ==
  IF x.quote = "none" THEN [x EXCEPT !.quote = IF c \in Quotes THEN c ELSE "none"]
  ELSE IF ~x.escaped /\ c = x.quote THEN [x EXCEPT !.quote = "none"]
  ELSE [x EXCEPT !.escaped = (c = Backslash /\ ~x.escaped)]
State[k \in 1..(Len(line) + 1)] ==
  IF k = 1 THEN [quote |-> "none", escaped |-> FALSE] ELSE Lexed(State[k - 1], line[k - 1])

Out(k) == State[k].quote = "none"
Is(k, chars) == Out(k) /\ line[k] \in chars
Mark(k) == Is(k, Quotes) \/ (~Out(k) /\ ~State[k].escaped /\ line[k] \in {State[k].quote, Backslash})
Brace(k) == ~Out(k) /\ ~State[k].escaped /\ line[k] = Lbrace

\* A bracket, or the pipe, before or after a place: both are the end where there is none.
Bracket == {k \in DOMAIN line : Is(k, {"[", "]", "|"})}
Before(k) == LET b == {j \in Bracket : j < k} IN
             IF b = {} THEN "end" ELSE line[CHOOSE j \in b : \A m \in b : m =< j]
After(k) == LET b == {j \in Bracket : j > k} IN
            IF b = {} THEN "end" ELSE line[CHOOSE j \in b : \A m \in b : j =< m]
InGroup(k) == Out(k) /\ Before(k) = "["

\* Words are what is left between blanks, brackets and pipes, outside of quotes.
Cut(k) == k \notin DOMAIN line \/ Is(k, Hws \cup {"[", "]", "|"})
Stretches ==
  {w \in (DOMAIN line) \X (DOMAIN line) :
     w[1] =< w[2] /\ Cut(w[1] - 1) /\ Cut(w[2] + 1) /\ \A k \in w[1]..w[2] : ~Cut(k)}

\* References: where one begins, after which characters, and where it ends.
IsRef(text) ==
  \/ Head(text) \in Sigil /\ Len(text) > 1 /\ \A k \in 2..Len(text) : text[k] \in Name
  \/ text = <<"$">>
  \/ /\ Len(text) > 2 /\ text[1] = "$" /\ text[2] = "." /\ Last(text) \in Name
     /\ \A k \in 2..Len(text) : text[k] \in Name \/ (text[k] = "." /\ text[k - 1] # ".")
RefsFrom(k) == {n \in k..Len(line) : IsRef(SubSeq(line, k, n))}
Braces(k) ==
  {n \in DOMAIN line :
     /\ line[n] = Rbrace
     /\ \E i, j \in (k + 1)..(n - 1) :
          /\ i =< j /\ IsRef(SubSeq(line, i, j))
          /\ \A m \in ((k + 1)..(i - 1)) \cup ((j + 1)..(n - 1)) : line[m] \in Hws}
InRef(k) ==
  \/ \E j \in 1..k : /\ InGroup(j) /\ line[j] \in Sigil \cup {"$"}
                      /\ \E n \in RefsFrom(j) : k =< n
  \/ \E j \in 1..(k - 1) : Brace(j) /\ \E n \in Braces(j) : k < n

WellFormed ==
  /\ State[Len(line) + 1].quote = "none"
  /\ \A k \in DOMAIN line :
       /\ ~Is(k, {Lbrace, "newline"})
       /\ InGroup(k) => ~Is(k, {Rbrace}) /\ (line[k] \in Sigil => At(k + 1) \in Name)
       /\ Is(k, {"["}) => After(k) = "]" /\ \E w \in Stretches : w[1] > k /\ After(w[1]) = "]"
                            /\ ~\E j \in Bracket : k < j /\ j < w[1]
       /\ Is(k, {"]"}) => Before(k) = "["
       /\ Brace(k) => Braces(k) # {}
  /\ \A b, e \in 0..(Len(line) + 1) :
       b < e /\ (b = 0 \/ Is(b, {"|"})) /\ (e > Len(line) \/ Is(e, {"|"})) =>
         \E w \in Stretches : b < w[1] /\ w[2] < e

\* A word of the line, without its quotes, braces and escapes: each character with
\* whether it belongs to a reference.
Braced(k) == \E j \in 1..k : Brace(j) /\ \E n \in Braces(j) : k =< n
Kept(k) == ~Mark(k) /\ (Braced(k) => InRef(k) /\ line[k] \notin Hws)
Shown(k) == IF Kept(k) THEN <<<<line[k], InRef(k)>>>> ELSE <<>>
AuthorsWord(w) == FlattenSeq([k \in 1..(w[2] - w[1] + 1) |-> Shown(w[1] + k - 1)])
ParsedWord(p) ==
  FlattenSeq([k \in DOMAIN p.parts |->
    [j \in DOMAIN p.parts[k].text |-> <<p.parts[k].text[j], p.parts[k].ref>>]])

\* The words of the commands, in the order of the line; a stage that is one reference and
\* nothing else is a source and has none.
Alone(w) ==
  /\ IsRef(SubSeq(line, w[1], w[2])) /\ \A k \in w[1]..w[2] : Out(k)
  /\ \A v \in Stretches : v # w =>
       \E k \in DOMAIN line : Is(k, {"|"}) /\ ((v[1] < k /\ k < w[1]) \/ (w[1] < k /\ k < v[1]))
  /\ Before(w[1]) \in {"end", "|"} /\ After(w[2]) \in {"end", "|"}
AuthorsWords ==
  LET own == {w \in Stretches : ~Alone(w)}
  IN [k \in 1..Cardinality(own) |->
        AuthorsWord(CHOOSE w \in own : Cardinality({v \in own : v[1] < w[1]}) = k - 1)]
ParsedWords ==
  FlattenSeq([k \in DOMAIN stages |->
    FlattenSeq([j \in DOMAIN stages[k].tokens |->
      LET token == stages[k].tokens[j] IN
      [m \in DOMAIN token.pieces |-> ParsedWord(token.pieces[m])]])])

----------------------------------------------------------------------------
(* Properties. *)

\* An Exec line is accepted exactly if its quotes, brackets, braces and stages are well
\* formed, and then its words are those between the blanks, brackets and pipes outside of
\* quotes, each with its text, and with the references its author wrote in it: inside of
\* brackets, or of braces in quotes (parse/exec.rs:54-272).  A sigil in brackets is always
\* a reference's: the `:` of the `scale=%width:-1` in llm.md:217-224 begins one to a path
\* parameter `-1`, where the text there sees a literal.
LineAsWritten ==
  /\ phase = "rejected" => ~WellFormed
  /\ phase = "accepted" => WellFormed /\ ParsedWords = AuthorsWords

\* Bare words that change how sh reads what is behind them: a comment, or a backquote.
Opens(w) ==
  /\ ~w.force
  /\ \E k \in DOMAIN w.text :
       \/ w.text[k] = "backquote"
       \/ w.text[k] = "#" /\ (k = 1 \/ w.text[k - 1] \in Operators)

\* Words the author left to sh.
Trusted(w) == Opens(w) \/ (~w.force /\ ToSet(w.text) \cap (Syntax \cup {Backslash}) # {})
Texts == [k \in DOMAIN written |-> written[k].text]

\* No character of a value acts as syntax, whatever the line around it is, unless the
\* line itself opens a comment or a backquote: in a comment the line break of a value ends
\* it and sh goes on with the rest of the value, and a value's backquote ends the
\* author's.  And where no bare word is meant to be syntax: however far sh has read, it has
\* read the first of the command's words, each whole and nothing else, and what it is
\* reading begins the next; when all is read, all words have come through, an empty one
\* too (exec.rs:274-304, 634-653).
ReadsBack ==
  /\ (\A k \in DOMAIN written : ~Opens(written[k])) => "value|" \notin acted
  /\ (\A k \in DOMAIN written : ~Trusted(written[k])) =>
       /\ acted = {}
       /\ IsPrefix(words, Texts)
       /\ Len(words) < Len(written) => IsPrefix(word, Texts[Len(words) + 1])
       /\ Len(words) = Len(written) => word = <<>>
       /\ todo = <<>> /\ writing = "between" /\ script = <<>> => words = Texts /\ reading = "between"
=============================================================================
