----------------------------- MODULE Multipart -----------------------------
(***************************************************************************)
(* How the server takes a multipart/form-data body apart, and how a sender *)
(* puts one together.  A body, a header line and a name are sequences of   *)
(* lexemes; the delimiter `--boundary` is the lexeme "--" and the          *)
(* boundary, so that data may hold either of them alone.  Quotes, blanks   *)
(* and letter case around the lexemes are left out: the code trims them.   *)
(***************************************************************************)
EXTENDS Naturals, Sequences, FiniteSets, SequencesExt

CRLF == "CRLF"
NotText == "%ff"   \* bytes that are not UTF-8

\* The members of `set` up to n, in order, each at least `gap` after the one before: a scan
\* that goes on behind what it found.
Spaced(set, gap, n) ==
  LET upTo[j \in 0..n] ==
        IF j = 0 THEN <<>>
        ELSE LET before == upTo[j - 1]
                 past == before = <<>> \/ Last(before) + gap =< j
             IN IF j \in set /\ past THEN Append(before, j) ELSE before
  IN upTo[n]

\* The pieces of s between the elements of `separators` (str::split).
SplitAtAny(s, separators) ==
  LET cuts == <<0>> \o Spaced({j \in DOMAIN s : s[j] \in separators}, 1, Len(s)) \o <<Len(s) + 1>>
  IN [k \in 1..(Len(cuts) - 1) |-> SubSeq(s, cuts[k] + 1, cuts[k + 1] - 1)]

\* Where `needle` begins in s.
Found(s, needle) ==
  {j \in 1..(Len(s) + 1 - Len(needle)) : SubSeq(s, j, j + Len(needle) - 1) = needle}

StripPrefix(s, x) == IF s # <<>> /\ Head(s) = x THEN Tail(s) ELSE s

\* Mutant: every line break at the end of a part goes.
StripSuffixAll(s, x) ==
  LET kept == {j \in DOMAIN s : s[j] # x}
  IN SubSeq(s, 1, CHOOSE n \in kept \cup {0} : \A j \in kept : j =< n)

StripSuffix(s, x) == IF s # <<>> /\ Last(s) = x THEN Front(s) ELSE s

\* The attributes `key=value` of a key.
Of(attrs, key) == {k \in DOMAIN attrs : attrs[k] # <<>> /\ Head(attrs[k]) = key}

\* multipart_boundary: the first that is not empty; at most one.
Boundary(contentType) ==
  LET attrs == SplitAtAny(contentType, {";"})
      given == {k \in Of(attrs, "boundary=") \ {1} : Len(attrs[k]) > 1}
  IN {<<"--">> \o Tail(attrs[k]) : k \in
        {j \in given : Head(contentType) = "multipart/form-data" /\ \A i \in given : j =< i}}

\* The attributes of a part's header lines.
Attributes(lines) ==
  FlattenSeq([k \in DOMAIN lines |->
    IF lines[k] # <<>> /\ Head(lines[k]) = "content-disposition:"
    THEN SplitAtAny(Tail(lines[k]), {";"}) ELSE <<>>])

\* The name in them, if there is one: of several the last, and an attribute ends at every
\* semicolon.
PartName(lines) ==
  LET named == Of(Attributes(lines), "name=")
  IN {Tail(Attributes(lines)[k]) : k \in {j \in named : \A i \in named : i =< j}}

BadPart == [name |-> {}, value |-> <<>>, utf8 |-> TRUE, ok |-> FALSE]

\* One segment: a line break is taken off either end, and the first empty line
\* ends the headers.
Part(segment) ==
  LET s == StripSuffix(StripPrefix(segment, CRLF), CRLF)
      blank == Found(s, <<CRLF, CRLF>>)
      at == CHOOSE j \in blank : \A k \in blank : j =< k
      data == SubSeq(s, at + 2, Len(s))
  IN IF blank = {} THEN BadPart
     ELSE [name |-> PartName(SplitAtAny(SubSeq(s, 1, at - 1), {CRLF})),
           value |-> data, utf8 |-> NotText \notin ToSet(data), ok |-> TRUE]

\* split_multipart: what lies between two delimiters, wherever they are; what follows
\* the last one is not looked at.
Split(bytes, delim) ==
  LET at == Spaced(Found(bytes, delim), Len(delim), Len(bytes))
  IN IF at = <<>> THEN <<BadPart>>
     ELSE [k \in 1..(Len(at) - 1) |-> Part(SubSeq(bytes, at[k] + Len(delim), at[k + 1] - 1))]

----------------------------------------------------------------------------
(* A sender: a part is a name, a file name if it is a file, and data.       *)

Disposition(p) ==
  <<"content-disposition:", "form-data", ";", "name=">> \o p.name \o
    (IF p.file = <<>> THEN <<>>
     ELSE <<";", "filename=">> \o p.file \o <<CRLF, "content-type:", "octet-stream">>)

Encode(form, delim) ==
  FlattenSeq([k \in DOMAIN form |->
    delim \o <<CRLF>> \o Disposition(form[k]) \o <<CRLF, CRLF>> \o form[k].data \o <<CRLF>>])
  \o delim \o <<"--", CRLF>>
=============================================================================
