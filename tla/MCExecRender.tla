---------------------------- MODULE MCExecRender ----------------------------
(* Small endpoints and requests for ExecRender.                             *)
EXTENDS ExecRender

named(from, n) == [from |-> from, path |-> <<n>>]
body(path) == [from |-> "body", path |-> path]
binary(n) == [kind |-> "binary", name |-> n]

lit == [text |-> "x", ref |-> {}]
ref(r) == [text |-> "", ref |-> {r}]
piece(parts, quote) == [parts |-> parts, quote |-> quote]
word(parts, quote) == [group |-> FALSE, pieces |-> <<piece(parts, quote)>>]
group(pieces) == [group |-> TRUE, pieces |-> pieces]
command(tokens) == [source |-> {}, tokens |-> tokens]
source(r) == [source |-> {r}, tokens |-> <<>>]

program == word(<<lit>>, FALSE)
cat == command(<<program>>)

Bodies ==
  {[kind |-> "none", typed |-> FALSE, fields |-> <<>>],
   [kind |-> "string", typed |-> FALSE, fields |-> <<>>],
   [kind |-> "binary", typed |-> FALSE, fields |-> <<>>],
   [kind |-> "json", typed |-> FALSE, fields |-> <<>>],
   [kind |-> "json", typed |-> TRUE, fields |-> [a |-> "int", b |-> "string"]],
   [kind |-> "form", typed |-> TRUE, fields |-> [a |-> "int", b |-> "string", f |-> "binary"]]}

NamedRefs ==
  {named("query", "a"), named("query", "b"), named("headers", "h"), named("path", "p"),
   named("vars", "v"), named("vars", "w"), named("query", "undeclared")}
BodyRefs == {body(<<>>), body(<<"a">>), body(<<"b">>), body(<<"f">>), body(<<"b", "a">>), body(<<"u">>)}
Refs2 == {named("query", "a"), body(<<"a">>), body(<<"f">>)}
AllRefs == NamedRefs \cup BodyRefs

\* Every reference alone in a word, in a group after an optional one, as a
\* source, and where a source or a first token may not be.
Programs ==
  {<<<<command(<<program, word(<<lit, ref(r)>>, TRUE)>>)>>>> : r \in AllRefs}
  \cup {<<<<command(<<program, group(<<piece(<<ref(q)>>, FALSE), piece(<<lit, ref(r)>>, FALSE)>>)>>)>>>> :
          q \in Refs2, r \in Refs2}
  \cup {<<<<source(r), cat>>>> : r \in AllRefs}
  \cup {<<<<source(body(<<>>)), source(r), command(<<program, word(<<lit>>, TRUE)>>), cat>>>> : r \in Refs2}
  \cup {<<<<command(<<program, word(<<ref(r)>>, FALSE), word(<<lit>>, TRUE)>>)>>>> : r \in Refs2}
  \cup {<<<<command(<<group(<<piece(<<lit>>, FALSE), piece(<<ref(r)>>, FALSE)>>)>>)>>>> : r \in Refs2}
  \cup {<<<<command(<<group(<<piece(<<lit>>, FALSE)>>)>>)>>, <<source(named("path", "p")), cat>>>>,
        <<<<cat, source(named("path", "p"))>>>>, <<<<source(named("path", "p"))>>>>,
        <<<<source(named("path", "p")), cat>>, <<cat, command(<<program, group(<<piece(<<ref(named("query", "a"))>>, FALSE)>>)>>)>>>>}

MCEndpoints ==
  {[query |-> [a |-> "int", b |-> "string"], headers |-> [h |-> "word"], path |-> [p |-> "uuid"],
    vars |-> [v |-> "env", w |-> "header"], body |-> b, exec |-> e,
    optional |-> {<<"query", "a">>, <<"headers", "h">>, <<"body", "a">>, <<"body", "f">>}] :
     b \in Bodies, e \in Programs}

\* A required value is there, an optional one may be.
Given(types, optional) ==
  {[n \in d |-> Text(n, types[n])] :
     d \in {e \in SUBSET DOMAIN types : \A n \in DOMAIN types \ optional : n \in e}}

JsonObjects ==
  {[kind |-> "object", fields |-> [n \in d |-> IF n = "a" THEN Text("a", "int") ELSE v]] :
     d \in {{"b"}, {"a", "b"}},
     v \in {Text("b", "string"), [kind |-> "object", fields |-> [a |-> Text("b.a", "json")]]}}

BodyValues(b) ==
  CASE b.kind \in {"none", "binary"} -> {[kind |-> b.kind]}
    [] b.kind = "string" -> {[kind |-> "string", value |-> Text("$", "string")]}
    [] b.kind = "json" ->
         {[kind |-> "json", value |-> v] :
            v \in IF b.typed THEN JsonObjects ELSE JsonObjects \cup {Text("$", "json")}}
    [] b.kind = "form" ->
         {[kind |-> "form", fields |-> [n \in d |-> IF n = "f" THEN binary("f") ELSE Text(n, b.fields[n])]] :
            d \in {{"b"}, {"a", "b"}, {"b", "f"}, {"a", "b", "f"}}}

MCContexts == [e \in MCEndpoints |->
  {[query |-> q, headers |-> h, path |-> [p |-> Text("p", "uuid")],
    vars |-> [v |-> Text("v", "env"), w |-> Text("w", "header")], body |-> b] :
     q \in Given(e.query, {"a"}), h \in Given(e.headers, {"h"}), b \in BodyValues(e.body)}]
=============================================================================
