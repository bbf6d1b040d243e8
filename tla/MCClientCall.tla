---------------------------- MODULE MCClientCall ----------------------------
(* Small specs, invocations of the macro and arguments for ClientCall.      *)
EXTENDS ClientCall, TLC

chars == {"a", "/", "\\", ".", " ", "%ff"}
strings == {<<>>} \cup {<<c>> : c \in chars \cup {"me", "%", "LF"}} \cup {<<c, d>> : c \in chars, d \in {"a", ".", " "}}
key == <<"key">>
contents == {<<>>, <<"x">>, <<CRLF>>, <<CRLF, CRLF>>, <<"x", CRLF, "--">>, <<NotText>>}
MCDisplays == [String |-> strings, i64 |-> {<<"1">>, <<"-20">>}, f64 |-> {<<"1">>, <<"NaN">>}]
                @@ "Vec<u8>" :> contents
MCTokens == {key, <<>>, <<" ">>, <<" ", "key">>, <<"LF">>, <<"%ff">>}
texts == strings \cup UNION {MCDisplays[t] : t \in {"i64", "f64"}} \cup {OnWire(BearerOf(t)) : t \in MCTokens}

MCTypeOf == [word |-> [kind |-> "regex", pattern |-> "w"], string |-> [kind |-> "string"],
             binary |-> [kind |-> "binary"], digit |-> [kind |-> "intrange", min |-> 0, max |-> 9],
             percent |-> [kind |-> "floatrange", min |-> 0, max |-> 1]]
MCRegexFits == {"w"} \X {v \in strings : v # <<>> /\ Head(v) \in {"a", "/"}}
MCIntOf == <<"1">> :> 1 @@ <<"-20">> :> -20
MCFloatOf == <<"1">> :> Number(1) @@ <<"-20">> :> Number(-20) @@ <<"NaN">> :> [nan |-> TRUE]
MCShown == Number(1) :> <<"1">> @@ Number(-20) :> <<"-20">>
AllFits == FitsOver(texts)
MCFits == AllFits

\* A string is written as one, an integer as one, and NaN as null.
AllJsonAs ==
  [p \in ({"String"} \X strings) \cup ({"i64"} \X MCDisplays["i64"]) \cup ({"f64"} \X MCDisplays["f64"]) |->
     IF p[2] = <<"NaN">> THEN <<"null">> ELSE <<p[1]>> \o p[2]]
MCJsonAs == AllJsonAs
number(v) == [kind |-> "integer", value |-> Number(MCIntOf[v]), text |-> v, fits |-> TRUE]
AllJsonOf ==
  <<"null">> :> [kind |-> "null"] @@ <<"f64", "1">> :> [kind |-> "real", value |-> Number(1)]
    @@ [x \in {<<"i64">> \o v : v \in MCDisplays["i64"]} |-> number(Tail(x))]
    @@ [x \in {<<"String">> \o v : v \in strings} |-> [kind |-> "string", text |-> Tail(x)]]
MCJsonOf == AllJsonOf
AllFitsJson == FitsJsonAll
MCFitsJson == AllFitsJson
AllOpaque == {v \in texts : "%ff" \in ToSet(v)}
MCOpaque == AllOpaque
MCEnv == <<>>

MCBases == {<<" ", "http://host", "/", "/">>, <<"/">>, <<"host">>}
MCFileNames == {<<>>, <<"n">>, <<"n", ";", "name=", "g">>}
MCPathEscaped == {" ", "%", "/", "?", "LF", "%ff"}
MCFormSafe == {"a", ".", "me", "1", "-20"}
object(f) == [object |-> TRUE, fields |-> f]
MCJsonValues == {object(<<>>), object([x \in {<<"b">>} |-> [array |-> FALSE, items |-> <<<<"null">>>>]])}
MCLowerOf == [c \in {"a", "b", "id", "body", "type", "u", "x", "f", "g"} |-> c] @@ "X" :> "x" @@ "1" :> "1"
MCKeywords == {<<"type">>}

lit(n) == [param |-> FALSE, name |-> <<n>>, type |-> <<>>]
par(n, t) == [param |-> TRUE, name |-> <<n>>, type |-> <<":", t>>]
field(n, optional, ty) == [name |-> n, optional |-> optional, ty |-> ty]
json(n, optional, ty, array) == [name |-> n, optional |-> optional, ty |-> ty, array |-> array]

bare == [maxBody |-> {}, maxQuery |-> {1}, maxHeader |-> {3}, auth |-> {}, jwt |-> {}, secret |-> {},
         query |-> <<>>, headers |-> <<>>, path |-> <<>>, vars |-> <<>>, body |-> NoBody,
         stream |-> FALSE, dryRun |-> FALSE, method |-> "GET", segs |-> <<>>, prefix |-> <<>>,
         responds |-> TRUE]
route(e, segs) ==
  LET params == SelectSeq(segs, LAMBDA s : s.param)
  IN [e EXCEPT !.segs = segs,
               !.path = [k \in DOMAIN params |-> [name |-> params[k].name, ty |-> params[k].type[2]]]]

\* Routes that a path value may run into; the last set's routes have parameters of different
\* names at one place, and the one before is the only one the server panics on.
Routes(prefix, e) ==
  <<route(e, <<>>), route(e, <<lit("u"), par("id", "string")>>), route(e, <<lit("u"), lit("me")>>),
    route(e, <<lit("u"), par("id", "string"), par("x", "word")>>),
    route([e EXCEPT !.method = "POST"], <<lit("u"), lit("a"), lit("a")>>)>>
RouteSpecs ==
  {Routes(p, [bare EXCEPT !.prefix = p]) : p \in {<<>>, <<<<"a">>>>}}
    \cup {<<route(bare, <<par("id", "digit")>>), route(bare, <<par("id", "digit"), par("x", "string")>>),
            route(bare, <<lit("me")>>)>>,
          <<route(bare, <<par("id", "digit")>>), route(bare, <<par("x", "digit")>>)>>,
          <<route(bare, <<par("id", "string")>>), route(bare, <<par("x", "word"), lit("me")>>),
            route([bare EXCEPT !.method = "POST"], <<lit("a"), par("x", "string")>>)>>}

\* Where an endpoint's values come from.
secured == [bare EXCEPT !.auth = {<<"a">>}, !.secret = {[kind |-> "literal", value |-> key]}]
ValueSpecs ==
  {<<[bare EXCEPT !.query = <<field(<<"X">>, FALSE, "word"), field(<<"type">>, TRUE, "string")>>]>>,
   <<[bare EXCEPT !.headers = <<field(<<"X", "-", "a">>, FALSE, "word"), field(<<"-", "1">>, TRUE, "string")>>]>>,
   <<secured>>, <<[secured EXCEPT !.dryRun = TRUE]>>, <<[secured EXCEPT !.headers = <<field(<<"a">>, TRUE, "string")>>]>>,
   <<[secured EXCEPT !.secret = {[kind |-> "literal", value |-> <<"a">>]}, !.headers = <<field(<<"a">>, TRUE, "string")>>]>>,
   <<[secured EXCEPT !.secret = {[kind |-> "env", name |-> "UNSET"]}]>>,
   <<[bare EXCEPT !.headers = <<field(<<"b">>, TRUE, "string")>>,
                  !.vars = <<[name |-> <<"v">>, source |-> [kind |-> "header", name |-> <<"b">>]],
                             [name |-> <<"w">>, source |-> [kind |-> "literal", value |-> key]]>>]>>}
BodySpecs ==
  {<<[bare EXCEPT !.body = b, !.method = "POST", !.maxBody = m]>> : m \in {{}, {1}},
     b \in {[kind |-> "string"], [kind |-> "binary"], [kind |-> "json", typed |-> FALSE],
            [kind |-> "json", typed |-> TRUE,
             fields |-> <<json(<<"a">>, FALSE, "digit", TRUE), json(<<"b">>, TRUE, "percent", FALSE),
                          json(<<"type">>, TRUE, "word", FALSE)>>],
            [kind |-> "form", fields |-> <<field(<<"f">>, TRUE, "string"), field(<<"g">>, FALSE, "digit")>>],
            [kind |-> "form", fields |-> <<field(<<"f">>, TRUE, "binary"), field(<<"g">>, FALSE, "digit")>>],
            [kind |-> "form", fields |-> <<field(<<"f", ";">>, TRUE, "binary"), field(<<"g">>, FALSE, "digit")>>]}}

good(endpoints, k, lines) ==
  [file |-> "good", endpoints |-> endpoints, followed |-> k, lines |-> lines, literals |-> "lit" :> <<"/">>]
written(ep, fn) ==
  <<ep.method>> \o PathText(ep, FALSE) \o <<"as", fn, "=>", IF ep.stream THEN "ByteStream" ELSE "String">>
CallInputs ==
  UNION {{good(eps, k, <<written(eps[k], "f")>>) : k \in DOMAIN eps} : eps \in RouteSpecs \cup ValueSpecs \cup BodySpecs}

\* Endpoints and lines for the macro to refuse.
MacroSpec ==
  <<route(bare, <<lit("u"), par("id", "digit")>>), route(bare, <<lit("u"), par("id", "percent")>>),
    [bare EXCEPT !.stream = TRUE],
    route([bare EXCEPT !.responds = FALSE], <<lit("x")>>),
    route([bare EXCEPT !.query = <<field(<<"X">>, TRUE, "digit")>>, !.headers = <<field(<<"-", "x">>, TRUE, "digit")>>],
          <<lit("a")>>),
    route([bare EXCEPT !.query = <<field(<<"body">>, TRUE, "digit")>>, !.body = [kind |-> "json", typed |-> FALSE]],
          <<lit("b")>>)>>
Lines ==
  {written(MacroSpec[k], fn) : k \in DOMAIN MacroSpec, fn \in {"f", "g"}}
    \cup {<<"GET">> \o PathText(MacroSpec[k], TRUE) \o <<"as", fn, "=>", "String">> : k \in {1, 2, 3}, fn \in {"f", "g"}}
    \cup {<<"GET", "lit", "as", "g", "=>", "ByteStream">>, <<"GET", "u", "as", "g", "=>", "String">>,
          <<"HEAD", "/", "as", "g", "=>", "String">>, <<"GET", "/", "as", "/", "x", "as", "g", "=>", "String">>,
          <<"GET", "/", "a">>}
MacroInputs ==
  {good(MacroSpec, 3, lines) : lines \in {<<>>} \cup {<<a>> : a \in Lines} \cup {<<a, b>> : a, b \in Lines}}
    \cup {[good(MacroSpec, 3, <<>>) EXCEPT !.file = f] : f \in {"missing", "unparsed", "unchecked"}}

AllInputs == CallInputs \cup MacroInputs
MCInputs == AllInputs
AllConfigs == UNION {{x.endpoints[k] : k \in DOMAIN x.endpoints} : x \in AllInputs}
MCConfigs == AllConfigs
MCRequests ==
  {[malformed |-> FALSE, query |-> <<>>, headers |-> <<>>, body |-> NoContent,
    path |-> [n \in {<<"id">>, <<"x">>} |-> <<>>]]}
=============================================================================
