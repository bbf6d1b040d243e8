--------------------------- MODULE MCRequestGate ---------------------------
(* Small specifications and requests for RequestGate and RequestData.      *)
EXTENDS RequestData, TLC

key == <<"key">>            \* the secret, of the type `word` and of length 1
other == <<"other">>        \* of the type `word`
jwt == <<"jwt">>            \* signed by the secret
long == <<"a", "b", "c">>   \* longer than every limit, of the type `word`
odd == <<"?">>              \* of no constrained type
raw == <<"%ff">>            \* bytes that are not visible ASCII

\* At the bounds of a range 0..9, and next to them.
numbers == {<<"0">>, <<"9">>, <<"10">>, <<"-1">>, <<"NaN">>}

MCTexts == {key, other, jwt, long, odd, raw, <<>>} \cup numbers \cup
  {<<"Bearer ", "key">>, <<"bearer ", "key">>, <<"BEARER ", "key">>,
   <<"Bearer ", "jwt">>, <<"Bearer ", "other">>, <<"Bearer ", " ", "key">>}
MCOpaque == {raw}
MCEnv == [SECRET |-> key]

\* The types, and the readings of the texts; a percentage is in units of one.
range(kind, min, max) == [kind |-> kind, min |-> min, max |-> max]
MCTypeOf == [word |-> [kind |-> "regex", pattern |-> "w"], string |-> [kind |-> "string"],
             binary |-> [kind |-> "binary"], int |-> [kind |-> "int"],
             digit |-> range("intrange", 0, 9), percent |-> range("floatrange", 0, 9)]
MCRegexFits == {"w"} \X {key, other, jwt, long}
MCIntOf == <<"0">> :> 0 @@ <<"1">> :> 1 @@ <<"9">> :> 9 @@ <<"10">> :> 10 @@ <<"-1">> :> -1
MCFloatOf == <<"NaN">> :> [nan |-> TRUE] @@ <<"99">> :> Number(99) @@ [v \in DOMAIN MCIntOf |-> Number(MCIntOf[v])]
integer(n, v, fits) == [kind |-> "integer", value |-> Number(n), text |-> v, fits |-> fits]
MCJsonOf == "1" :> integer(1, <<"1">>, TRUE) @@ "9" :> integer(9, <<"9">>, TRUE)
              @@ "10" :> integer(10, <<"10">>, TRUE)
              @@ "1.0" :> [kind |-> "real", value |-> Number(1)]
              @@ "2^63" :> integer(99, <<>>, FALSE) @@ "x" :> [kind |-> "string", text |-> key]
MCShown == Number(1) :> <<"1">> @@ Number(9) :> <<"9">> @@ Number(10) :> <<"10">> @@ Number(99) :> <<"99">>
AllFits == FitsOver(MCTexts)
MCFitsJson == FitsJsonAll
MCSignedBy == {<<jwt, key>>}

env(n) == [kind |-> "env", name |-> n]
literal(v) == [kind |-> "literal", value |-> v]
header(n) == [kind |-> "header", name |-> n]
field(n, optional, ty) == [name |-> n, optional |-> optional, ty |-> ty]
json(n, optional, ty, array) == [name |-> n, optional |-> optional, ty |-> ty, array |-> array]
var(n, src) == [name |-> n, source |-> src]

bare == [maxBody |-> {}, maxQuery |-> {2}, maxHeader |-> {2}, auth |-> {}, jwt |-> {},
         secret |-> {}, query |-> <<>>, headers |-> <<>>, path |-> <<>>, vars |-> <<>>,
         body |-> NoBody, stream |-> FALSE, dryRun |-> FALSE]

\* One specification per way of checking the token ...
AuthConfigs ==
  {[bare EXCEPT !.auth = {"A"}, !.secret = s, !.jwt = j, !.maxHeader = limit,
                !.query = <<field("q", FALSE, "word")>>] :
     s \in {{}, {env("SECRET")}, {env("UNSET")}, {header("A")}},
     j \in {{}, {literal(key)}},
     limit \in {{}, {1}, {2}}}

\* ... per scope of values, two of a kind, of which the second is optional ...
ValueConfigs ==
  {[bare EXCEPT !.query = <<field("q", FALSE, "word"), field("r", TRUE, "word")>>,
                !.dryRun = d] : d \in BOOLEAN}
  \cup {[bare EXCEPT !.headers = <<field("A", FALSE, "word"), field("B", TRUE, "word")>>,
                     !.path = <<[name |-> "p", ty |-> "word"]>>, !.stream = TRUE],
        [bare EXCEPT !.path = <<[name |-> "p", ty |-> "string"], [name |-> "p", ty |-> "word"]>>]}
  \cup {[bare EXCEPT !.vars = <<var("v", v), var("w", w)>>] :
          v \in {env("SECRET"), env("UNSET")}, w \in {header("A"), literal(odd)}}

\* ... and per kind of body.
BodyConfigs ==
  {[bare EXCEPT !.body = b, !.maxBody = m] :
     b \in {[kind |-> "string"], [kind |-> "binary"], [kind |-> "json", typed |-> FALSE],
            [kind |-> "json", typed |-> TRUE,
             fields |-> <<json("a", FALSE, "int", TRUE), json("b", TRUE, "string", FALSE)>>],
            [kind |-> "form",
             fields |-> <<field(<<"f">>, TRUE, "binary"), field(<<"g">>, FALSE, "word")>>]},
     m \in {{}, {2}}}

RangeConfigs ==
  {[bare EXCEPT !.query = <<field("q", TRUE, "percent")>>, !.headers = <<field("A", TRUE, "digit")>>,
                !.path = <<[name |-> "p", ty |-> t]>>, !.body = b] :
     t \in {"string", "digit", "percent"},
     b \in {NoBody, [kind |-> "json", typed |-> TRUE, fields |-> <<json("a", TRUE, "digit", TRUE),
                                                                 json("b", TRUE, "percent", FALSE)>>]}}

AllConfigs == AuthConfigs \cup ValueConfigs \cup BodyConfigs \cup RangeConfigs

empty == [len |-> 0, utf8 |-> TRUE, raw |-> <<>>, json |-> {}, multipart |-> FALSE, parts |-> <<>>,
          sent |-> {}]
plain == [malformed |-> FALSE, query |-> <<>>, headers |-> <<>>, path |-> [p |-> key], body |-> empty]

scalar(x) == [array |-> FALSE, items |-> <<x>>]
list(x) == [array |-> TRUE, items |-> x]
part(name, v, utf8, ok) == [name |-> name, value |-> v, utf8 |-> utf8, ok |-> ok]

Maps(names, values) == UNION {[d -> values] : d \in SUBSET names}

ValueRequests ==
  {[plain EXCEPT !.query = q] : q \in Maps({"q", "r", "s"}, {key, long, odd})}
  \cup {[plain EXCEPT !.headers = h, !.path = [p |-> v]] :
          h \in Maps({"A", "B"}, {key, long, odd, raw}), v \in {key, odd}}
  \cup {[plain EXCEPT !.headers = [A |-> h], !.query = q] :
          h \in MCTexts, q \in Maps({"q"}, {key, odd})}
  \cup {[plain EXCEPT !.malformed = TRUE, !.body.len = n] : n \in {0, 9}}

Bodies ==
  {[empty EXCEPT !.len = n, !.utf8 = u] : n \in {2, 3, 9}, u \in BOOLEAN}
  \cup {[empty EXCEPT !.json = {[object |-> FALSE, fields |-> <<>>]}]}
  \cup {[empty EXCEPT !.json = {[object |-> TRUE, fields |-> f]}] :
          f \in Maps({"a", "b"}, {scalar("1"), list(<<"1", "1">>), list(<<"1", "x">>)})}
  \cup {[empty EXCEPT !.parts = <<part({<<n>>}, key, TRUE, TRUE), part({<<o>>}, v, TRUE, TRUE)>>] :
          n \in {"f", "g", "h"}, o \in {"f", "g"}, v \in {key, odd}}

\* Multipart bodies: forms as they are sent, with every short content a part may
\* have, and bodies nobody should send.
type(attrs) == <<"multipart/form-data", ";">> \o attrs
delim == <<"--", "B">>
piece(n, file, d) == [name |-> <<n>>, file |-> file, data |-> d]
Contents == {d \in UNION {[1..n -> {"x", CRLF, "--", "B"}] : n \in 0..3} : Found(d, delim) = {}}
Forms ==
  {<<piece("f", <<"n">>, d), piece("g", <<>>, key)>> : d \in Contents}
  \cup {<<piece("g", <<>>, key), piece("f", <<"n">>, d)>> : d \in Contents}
  \cup {<<piece(n, file, c), piece(o, <<>>, d)>> :
          n \in {"f", "g", "h"}, o \in {"f", "g"}, file \in {<<>>, <<"n", ";", "name=", "g">>},
          c \in {key, odd, raw}, d \in {key, odd, raw}}
Unsent ==
  {<<"x">>, delim, delim \o <<CRLF, "x", CRLF>> \o delim,
   <<"x", CRLF>> \o delim \o <<CRLF, CRLF>> \o key \o <<CRLF>> \o delim} \cup
  {delim \o <<CRLF, "content-disposition:", ";">> \o a \o <<CRLF, CRLF>> \o key \o <<CRLF>> \o delim :
     a \in {<<"name=", "g">>, <<"filename=", "g">>, <<"name=", "f", ";", "name=", "g">>}}
FormBodies ==
  {FormBody(type(<<"boundary=", "B">>), Encode(form, delim), {[form |-> form, delim |-> delim]}) : form \in Forms}
  \cup {FormBody(type(a), bytes, {}) : bytes \in Unsent,
          a \in {<<"boundary=", "B">>, <<"charset=", "x">>, <<"boundary=", ";", "boundary=", "B">>}}

RangeRequests ==
  {[plain EXCEPT !.query = q, !.headers = h, !.path = [p |-> v]] :
     q \in Maps({"q"}, numbers), h \in Maps({"A"}, numbers), v \in numbers}
  \cup {[plain EXCEPT !.path = [p |-> <<"9">>], !.body.json = {[object |-> TRUE, fields |-> f]}] :
          f \in {("a" :> list(<<"1", v>>)) @@ ("b" :> scalar(w)) : v, w \in DOMAIN MCJsonOf}}

AllRequests ==
  ValueRequests \cup RangeRequests \cup {[plain EXCEPT !.body = b] : b \in Bodies \cup FormBodies}
\* TLC evaluates a definition once, but the body of a substituted one at every use.
MCRequests == AllRequests
MCConfigs == AllConfigs
MCFits == AllFits
=============================================================================
