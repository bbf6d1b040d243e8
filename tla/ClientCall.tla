---------------------------- MODULE ClientCall ----------------------------
(***************************************************************************)
(* A generated client calls the server of the same spec: ClientMacro makes *)
(* the methods, this module is what a method does with its arguments, the  *)
(* way the request takes to the server's handler, and what comes back; the *)
(* handler is RequestGate, for the endpoint in `config`.                   *)
(*                                                                         *)
(* A Client is only read by a call, so one call is followed.  What is      *)
(* external is named: the URL parser, HTTP's header fields, axum's router. *)
(* A percent-encoded character is marked `esc`; an argument is a set with  *)
(* at most one element, and a body field's a list, of one if it is scalar. *)
(***************************************************************************)
EXTENDS RequestData, ClientMacro

CONSTANTS
  Displays,     \* Rust type -> what its values are written as
  JsonAs,       \* <<Rust type, text>> -> the JSON scalar the value is written as
  JsonValues,   \* values of serde_json::Value
  Bases,        \* base URLs an application may give
  Tokens,       \* bearer tokens it may set
  FileNames,    \* file names of a FilePart
  PathEscaped,  \* characters encode_path_segment encodes
  FormSafe,     \* characters a form or a query carries as they are
  Controls      \* characters no header value can hold

\* The macro and the server read the same spec, and a body's fields are a list.
ASSUME CallAssumption ==
  \A x \in Inputs :
    /\ x.followed \in DOMAIN x.endpoints
    /\ \A k \in DOMAIN x.endpoints :
         /\ x.endpoints[k] \in Configs
         /\ HasFields(x.endpoints[k]) => Listed(x.endpoints[k].body.fields)

VARIABLES
  base,     \* Client.base_url, once there is a client
  token,    \* Client.bearer_token
  call,     \* the arguments of the call
  landed,   \* the endpoint the router found for it, if any
  outcome   \* of the call: none, called, sent, ok, status or error

clientVars == <<base, token, call, landed, outcome>>
callVars == <<input, phase, line, taken, mapped, methods, faults,
              config, secret, verifier, stage, turn, req, ctx, answer, started,
              base, token, call, landed, outcome>>

NoCall == [args |-> <<>>, body |-> <<>>, file |-> <<>>, readable |-> TRUE]
Answered == {"sent", "ok", "status"}

----------------------------------------------------------------------------
(* The URL. *)

Raw(c) == [ch |-> c, esc |-> FALSE]
RawText(v) == [k \in DOMAIN v |-> Raw(v[k])]
Decoded(w) == [k \in DOMAIN w |-> w[k].ch]

\* Mutant: the separator itself is not encoded.
EncodePathSegmentOpen(v) == [k \in DOMAIN v |-> [ch |-> v[k], esc |-> v[k] \in PathEscaped \ {"/"}]]

EncodePathSegment(v) == [k \in DOMAIN v |-> [ch |-> v[k], esc |-> v[k] \in PathEscaped]]

Kept(s, x) == {k \in DOMAIN s : s[k] # x}
TrimStart(s, x) == SubSeq(s, CHOOSE n \in Kept(s, x) \cup {Len(s) + 1} : \A k \in Kept(s, x) : n =< k, Len(s))
TrimEnd(s, x) == SubSeq(s, 1, CHOOSE n \in Kept(s, x) \cup {0} : \A k \in Kept(s, x) : n >= k)
Trim(s, x) == TrimEnd(TrimStart(s, x), x)

\* normalize_base_url; a URL without a host does not parse.
NormalizeBase(raw) == {b \in {TrimEnd(Trim(raw, " "), "/")} : b # <<>> /\ Head(b) = "http://host"}

\* The one value a call has for a declared field, by the name of its Rust field.
Arg(f) == call.args[SanitizeIdent(f.name)]

\* build_path: the prefix, literals as they are and parameters encoded.
SentSegment(s) == RawText(<<"/">>) \o (IF s.param THEN EncodePathSegment(CHOOSE v \in Arg(s) : TRUE)
                                      ELSE RawText(s.name))
BuildPath ==
  FlattenSeq([k \in DOMAIN config.prefix |-> <<Raw("/")>> \o RawText(config.prefix[k])]
             \o (IF config.segs = <<>> THEN <<<<Raw("/")>>>>
                 ELSE [k \in DOMAIN config.segs |-> SentSegment(config.segs[k])]))

EndpointUrl ==
  LET path == TrimStart(BuildPath, Raw("/"))
  IN RawText(base) \o (IF path = <<>> THEN <<>> ELSE <<Raw("/")>> \o path)

\* The URL parser: a backslash separates too, and dot segments are resolved.
Dots(p) == p \in {<<Raw(".")>>, <<Raw("."), Raw(".")>>}
Step(out, p) ==
  CASE ~Dots(p)          -> Append(out, p)
    [] p = <<Raw(".")>>  -> out
    [] Dots(p) /\ Len(p) = 2 -> SubSeq(out, 1, Len(out) - 1)
UrlSegments(url) ==
  LET pieces == Tail(SplitAtAny(url, {Raw("/"), Raw("\\")}))
      kept[k \in 0..Len(pieces)] == IF k = 0 THEN <<>> ELSE Step(kept[k - 1], pieces[k])
  IN IF pieces = <<>> \/ Dots(Last(pieces)) THEN Append(kept[Len(pieces)], <<>>) ELSE kept[Len(pieces)]

----------------------------------------------------------------------------
(* The router of the server: literal segments before parameters, from the left; a
   parameter takes one segment that is not empty. *)

Literal(name) == [param |-> FALSE, name |-> name, type |-> <<>>]
Pattern(ep) ==
  [k \in DOMAIN ep.prefix |-> Literal(ep.prefix[k])]
    \o (IF ep.segs = <<>> THEN <<Literal(<<>>)>> ELSE ep.segs)
MatchesRoute(ep, segments) ==
  LET p == Pattern(ep) IN
  /\ Len(p) = Len(segments)
  /\ \A k \in DOMAIN p : IF p[k].param THEN segments[k] # <<>> ELSE segments[k] = RawText(p[k].name)
Beats(a, b) ==
  \E k \in DOMAIN Pattern(a) :
    /\ ~Pattern(a)[k].param /\ Pattern(b)[k].param
    /\ \A j \in 1..(k - 1) : Pattern(a)[j].param = Pattern(b)[j].param

\* The type of a field in a generated struct.
RustType(ty) ==
  CASE TypeOf[ty].kind \in {"int", "intrange"}             -> "i64"
    [] TypeOf[ty].kind \in {"float", "floatrange"}         -> "f64"
    [] TypeOf[ty].kind = "boolean"                         -> "bool"
    [] TypeOf[ty].kind = "uuid"                            -> "Uuid"
    [] TypeOf[ty].kind \in {"string", "regex", "union"}    -> "String"
    [] TypeOf[ty].kind = "json"                            -> "Value"
    [] TypeOf[ty].kind = "binary"                          -> "Vec<u8>"

\* The base is the server's root.  A literal of a route is one segment of a URL as it is
\* written, and a route's parameters are those of its segments.
Plain(v) == v \notin {<<>>, <<".">>, <<".", ".">>} /\ "\\" \notin ToSet(v)
PlainLiteral(v) == Text(v) /\ Plain(v) /\ "/" \notin ToSet(v)
ASSUME RouteAssumption ==
  /\ "/" \in PathEscaped
  /\ \A raw \in Bases : NormalizeBase(raw) \subseteq {<<"http://host">>}
  /\ \A c \in Configs :
       /\ c.prefix \in Seq(ToSet(c.prefix)) /\ c.segs \in Seq(ToSet(c.segs))
       /\ c.query \in Seq(ToSet(c.query)) /\ c.headers \in Seq(ToSet(c.headers))
       /\ \A k \in DOMAIN c.prefix : PlainLiteral(c.prefix[k])
       /\ \A k \in DOMAIN c.segs : c.segs[k].param \in BOOLEAN /\ (c.segs[k].param \/ PlainLiteral(c.segs[k].name))
       /\ {c.path[k].name : k \in DOMAIN c.path} = {c.segs[k].name : k \in {j \in DOMAIN c.segs : c.segs[j].param}}
       /\ \A k \in DOMAIN c.path : \A v \in Displays[RustType(c.path[k].ty)] : Text(v)

\* What is written is text.  A plus is no character that a form carries as it is, and a
\* blank of a token is a run of them.  A multipart form is sent behind a boundary that is
\* new and in nothing it delimits; its names are of one line (reqwest escapes a file's), and
\* only a file may not be UTF-8.
NewTo(v) == Text(v) /\ "fresh" \notin ToSet(v)
ASSUME ValueAssumption ==
  /\ "+" \notin FormSafe
  /\ \A t \in Tokens : Text(t) /\ \A k \in 1..(Len(t) - 1) : t[k] # " " \/ t[k + 1] # " "
  /\ \A v \in FileNames : NewTo(v) /\ CRLF \notin ToSet(v)
  /\ \A c \in Configs :
       /\ \A k \in DOMAIN c.query : \A v \in Displays[RustType(c.query[k].ty)] : Text(v)
       /\ c.body.kind = "form" => \A k \in DOMAIN c.body.fields :
            LET f == c.body.fields[k] IN
            /\ NewTo(f.name) /\ CRLF \notin ToSet(f.name)
            /\ \A v \in Displays[RustType(f.ty)] :
                 NewTo(v) /\ (IsMultipart(c) /\ f.ty # "binary" => NotText \notin ToSet(v))

\* The endpoint whose path and method these are, if there is one.
Lands(segments) ==
  LET found == {k \in DOMAIN input.endpoints : MatchesRoute(input.endpoints[k], segments)}
  IN {k \in found : /\ input.endpoints[k].method = config.method
                    /\ \A j \in found : ~Beats(input.endpoints[j], input.endpoints[k])}

----------------------------------------------------------------------------
(* Query, headers and body. *)

\* A form or a query: a blank becomes a plus.
FormEncode(v) ==
  [k \in DOMAIN v |-> IF v[k] = " " THEN Raw("+") ELSE [ch |-> v[k], esc |-> v[k] \notin FormSafe]]
FormDecode(w) == [k \in DOMAIN w |-> IF w[k] = Raw("+") THEN " " ELSE w[k].ch]

GivenOf(fields) == {fields[k].name : k \in {j \in DOMAIN fields : Arg(fields[j]) # {}}}
ValueOf(fields, n) == UNION {Arg(fields[k]) : k \in {j \in DOMAIN fields : fields[j].name = n}}
TheValue(fields, n) == CHOOSE v \in ValueOf(fields, n) : TRUE

SentQuery == [n \in GivenOf(config.query) |-> FormDecode(FormEncode(TheValue(config.query, n)))]

\* What of a header field's value reaches the other side; the blank of "Bearer " is one.
OnWire(v) ==
  LET w == Trim(v, " ") IN IF w # <<>> /\ Last(w) = "Bearer " THEN Append(Front(w), "Bearer") ELSE w

AuthHeaders == {h \in config.auth : token # {}}
BearerOf(t) == <<"Bearer ">> \o t

\* Mutant: a declared header replaces the token's.
SentHeadersReplaced ==
  [n \in AuthHeaders \cup GivenOf(config.headers) |->
     OnWire(IF n \in GivenOf(config.headers) THEN TheValue(config.headers, n)
            ELSE BearerOf(CHOOSE t \in token : TRUE))]

\* The token's header is the first of its name, and the first is the one that is read.
SentHeaders ==
  [n \in AuthHeaders \cup GivenOf(config.headers) |->
     OnWire(IF n \in AuthHeaders THEN BearerOf(CHOOSE t \in token : TRUE)
            ELSE TheValue(config.headers, n))]

\* A body field's list, and the fields that are not None.
BodyArg(f) == call.body[SanitizeIdent(f.name)]
BodyGiven(fields) == {k \in DOMAIN fields : BodyArg(fields[k]) # {}}
GivenBody(fields) ==
  LET at == Spaced(BodyGiven(fields), 1, Len(fields))
  IN [k \in DOMAIN at |-> fields[at[k]]]
ListOf(f) == CHOOSE v \in BodyArg(f) : TRUE

NoContent == [len |-> 0, utf8 |-> TRUE, raw |-> <<>>, json |-> {}, multipart |-> FALSE,
              parts |-> <<>>, sent |-> {}]
Boundaried == <<"multipart/form-data", ";", "boundary=", "fresh">>

JsonItems(f) == [j \in DOMAIN ListOf(f) |-> JsonAs[<<RustType(f.ty), ListOf(f)[j]>>]]
JsonBody(fields) ==
  [object |-> TRUE,
   fields |-> [n \in {fields[k].name : k \in DOMAIN fields} |->
                 LET f == fields[CHOOSE k \in DOMAIN fields : fields[k].name = n]
                 IN [array |-> f.array, items |-> JsonItems(f)]]]
UrlEncodedPart(f) ==
  [name |-> {f.name}, value |-> FormDecode(FormEncode(Head(ListOf(f)))), utf8 |-> TRUE, ok |-> TRUE]
MultipartPiece(f) ==
  [name |-> f.name, file |-> IF f.ty = "binary" THEN call.file ELSE <<>>, data |-> Head(ListOf(f))]
MultipartBody(fields) ==
  LET form == [k \in DOMAIN fields |-> MultipartPiece(fields[k])]
      delim == <<"--", "fresh">>
  IN FormBody(Boundaried, Encode(form, delim), {[form |-> form, delim |-> delim]})

SentBody ==
  LET spec == config.body IN
  CASE spec.kind = "none" -> NoContent
    [] spec.kind \in {"string", "binary"} ->
         [NoContent EXCEPT !.raw = call.body, !.len = Len(call.body)]
    [] spec.kind = "json" /\ ~spec.typed -> [NoContent EXCEPT !.json = {call.body}]
    [] spec.kind = "json" /\ spec.typed -> [NoContent EXCEPT !.json = {JsonBody(GivenBody(spec.fields))}]
    [] spec.kind = "form" ->
         IF IsMultipart(config) THEN MultipartBody(GivenBody(spec.fields))
         ELSE [NoContent EXCEPT !.parts = [k \in DOMAIN GivenBody(spec.fields) |->
                                             UrlEncodedPart(GivenBody(spec.fields)[k])]]

----------------------------------------------------------------------------
(* The arguments of a method: each field has a value of its Rust type. *)

Texts(f) == Displays[RustType(f.ty)]
Lists(f) ==
  IF config.body.kind = "json" /\ f.array THEN {<<>>} \cup {<<v, w>> : v, w \in Texts(f)}
  ELSE {<<v>> : v \in Texts(f)}
Options(values, optional) == {{v} : v \in values} \cup (IF optional THEN {{}} ELSE {})

\* A struct with a field per declared one.
Structs(fields, options) ==
  {s \in [{SanitizeIdent(fields[k].name) : k \in DOMAIN fields} -> UNION {options[k] : k \in DOMAIN fields}] :
     \A k \in DOMAIN fields : s[SanitizeIdent(fields[k].name)] \in options[k]}

Params == [k \in DOMAIN config.path |->
             [name |-> config.path[k].name, ty |-> config.path[k].ty, optional |-> FALSE]]
Declared == Params \o config.query \o config.headers
Args == Structs(Declared, [k \in DOMAIN Declared |-> Options(Texts(Declared[k]), Declared[k].optional)])
Bodies ==
  LET spec == config.body IN
  CASE spec.kind = "none"                  -> {<<>>}
    [] spec.kind = "string"                -> Displays["String"]
    [] spec.kind = "binary"                -> Displays["Vec<u8>"]
    [] spec.kind = "json" /\ ~spec.typed   -> JsonValues
    [] HasFields(config) ->
         Structs(spec.fields, [k \in DOMAIN spec.fields |->
                                 Options(Lists(spec.fields[k]), spec.fields[k].optional)])
Calls == [args : Args, body : Bodies, file : IF IsMultipart(config) THEN FileNames ELSE {<<>>},
          readable : IF IsMultipart(config) THEN BOOLEAN ELSE {TRUE}]

\* The builder or the transport gives up before anything is sent: a control character in
\* a header, a file that cannot be read, a server that does not listen.
Unsendable ==
  \/ \E k \in DOMAIN config.headers : \E v \in Arg(config.headers[k]) : ToSet(v) \cap Controls # {}
  \/ \E h \in AuthHeaders, t \in token : ToSet(t) \cap Controls # {}
  \/ ~call.readable
  \/ stage # "idle"

----------------------------------------------------------------------------
(* Actions. *)

\* Two routes that differ at most in the names of their parameters: the router holds one of
\* the kind, and the server's build_router panics, if the names do differ, or if they do
\* not and the methods are the same.
Alike(s, t) == s.param = t.param /\ (s.param \/ s.name = t.name)
Clash(p, q) ==
  /\ Len(Pattern(p)) = Len(Pattern(q))
  /\ \A k \in DOMAIN Pattern(p) : Alike(Pattern(p)[k], Pattern(q)[k])
  /\ p.method = q.method \/ \E k \in DOMAIN Pattern(p) : Pattern(p)[k].name # Pattern(q)[k].name
RoutesOverlap ==
  \E j, k \in DOMAIN input.endpoints : j # k /\ Clash(input.endpoints[j], input.endpoints[k])

CallInit ==
  /\ MacroInit
  /\ config = input.endpoints[input.followed]
  /\ secret = {} /\ verifier = {} /\ turn = 1
  /\ stage = IF RoutesOverlap THEN "down" ELSE "starting"
  /\ req = CHOOSE r \in Requests : TRUE
  /\ ctx = EmptyCtx /\ answer = NoAnswer /\ started = FALSE
  /\ base = <<>> /\ token = {} /\ call = NoCall /\ landed = {} /\ outcome = "none"

\* new, with_http_client
NewClient ==
  /\ phase = "client" /\ base = <<>> /\ outcome = "none"
  /\ \E raw \in Bases :
       \/ NormalizeBase(raw) = {} /\ outcome' = "error" /\ base' = base
       \/ base' \in NormalizeBase(raw) /\ outcome' = outcome
  /\ UNCHANGED <<token, call, landed>>

\* bearer_token, set_bearer_token, clear_bearer_token
SetToken ==
  /\ base # <<>> /\ outcome = "none"
  /\ token' \in {{t} : t \in Tokens} \cup {{}}
  /\ UNCHANGED <<base, call, landed, outcome>>

\* The application calls the endpoint's method.
Start ==
  /\ base # <<>> /\ outcome = "none"
  /\ \E k \in DOMAIN methods : input.endpoints[methods[k].endpoint] = config
  /\ call' \in Calls /\ outcome' = "called"
  /\ UNCHANGED <<base, token, landed>>

Segments == UrlSegments(EndpointUrl)
ParamAt(n) == CHOOSE k \in DOMAIN config.segs : config.segs[k].param /\ config.segs[k].name = n
Received ==
  [malformed |-> FALSE, query |-> SentQuery, headers |-> SentHeaders, body |-> SentBody,
   path |-> [n \in {config.path[k].name : k \in DOMAIN config.path} |->
               Decoded(Segments[Len(config.prefix) + ParamAt(n)])]]
Own == {k \in DOMAIN input.endpoints : input.endpoints[k] = config}

\* Client::request and the method: the request is built and sent, and axum hands it to a
\* handler; only the endpoint's own is followed.
Send ==
  /\ outcome = "called"
  /\ \/ /\ Unsendable
        /\ outcome' = "error"
        /\ UNCHANGED <<stage, req, turn, landed>>
     \/ /\ ~Unsendable
        /\ outcome' = "sent"
        /\ landed' = Lands(Segments)
        /\ IF landed' = Own THEN stage' = "extract" /\ req' = Received /\ turn' = 1
           ELSE UNCHANGED <<stage, req, turn>>
  /\ UNCHANGED <<config, secret, verifier, ctx, answer, started, base, token, call>>

\* Nothing there, or another endpoint with an answer of its own.
Elsewhere ==
  /\ outcome = "sent" /\ landed # Own
  /\ outcome' \in IF landed = {} THEN {"status"} ELSE {"ok", "status", "error"}
  /\ UNCHANGED <<base, token, call, landed>>

\* Mutant: the status is not looked at.
ReceiveAny ==
  /\ outcome = "sent" /\ stage = "answered"
  /\ outcome' \in {"ok", "error"}
  /\ UNCHANGED <<base, token, call, landed>>

\* ensure_success and decode_response; a body that does not decode is an error, and so
\* is a connection that breaks.
Receive ==
  /\ outcome = "sent" /\ stage = "answered"
  /\ outcome' \in IF answer.status = 200 THEN {"ok", "error"} ELSE {"status", "error"}
  /\ UNCHANGED <<base, token, call, landed>>

Handler ==
  \/ Serve \/ ServeFails \/ Extract \/ Authenticate \/ ValidateQuery \/ ValidateHeaders
  \/ ValidatePath \/ ResolveVars \/ ScopeDone \/ BuildBody \/ DryRun \/ NotStarted \/ Execute

CallNext ==
  \/ MacroNext /\ UNCHANGED <<gateVars, clientVars>>
  \/ Handler /\ UNCHANGED <<macroVars, clientVars>>
  \/ (NewClient \/ SetToken \/ Start \/ Elsewhere \/ Receive) /\ UNCHANGED <<macroVars, gateVars>>
  \/ Send /\ UNCHANGED macroVars

CallSpec == CallInit /\ [][CallNext]_callVars

----------------------------------------------------------------------------
(* Properties. *)

ParamText(n) == UNION {Arg(config.path[k]) : k \in {j \in DOMAIN config.path : config.path[j].name = n}}

\* The URL keeps these values apart from the route around them: they are not empty, hold no
\* backslash and are not a dot segment; and they do not spell a literal of a sibling route.
Spelled(ep) ==
  Pattern(ep) # <<>> /\ Len(Pattern(ep)) = Len(Pattern(config)) /\ Beats(ep, config) /\
  \A k \in DOMAIN Pattern(ep) :
    ~Pattern(ep)[k].param =>
      {Pattern(ep)[k].name} = IF Pattern(config)[k].param THEN ParamText(Pattern(config)[k].name)
                              ELSE {Pattern(config)[k].name}
Addressable ==
  /\ \A k \in DOMAIN config.path : \A v \in Arg(config.path[k]) : Plain(v)
  /\ \A k \in DOMAIN input.endpoints : ~Spelled(input.endpoints[k])

\* A call reaches the endpoint it was generated for, with the path values it was given,
\* slashes, percent signs, blanks and question marks included; the exceptions are the
\* values a URL cannot carry in one segment and those a sibling route takes
\* (lib.rs:15-26, 121-129, 222-224 of the runtime; build_path of the macro).
CallArrives ==
  outcome \in Answered /\ Addressable =>
    /\ landed = Own
    /\ \A n \in DOMAIN req.path : {req.path[n]} = ParamText(n)

----------------------------------------------------------------------------
(* What a call asks for, by its arguments alone. *)

\* The text of the header n that the handler can read, if the call carries one.
Carried(n) == IF n \in AuthHeaders THEN {BearerOf(t) : t \in token} ELSE ValueOf(config.headers, n)
Seen(n) == {OnWire(v) : v \in Carried(n)} \ Opaque

\* The server takes the word for the token if there is no more of it.
TokenOf(t) == IF Trim(t, " ") = <<>> THEN <<"Bearer">> ELSE OnWire(t)
Credential(h) ==
  \E v \in Seen(h) :
    /\ ~Exceeds(Len(v), config.maxHeader)
    /\ IF h \in AuthHeaders THEN \E t \in token : TokenGood(TokenOf(t)) ELSE TokenGood(Bearer(v))

FitText(v, f, limit) == ~Exceeds(Len(v), limit) /\ <<v, f.ty>> \in Fits
FitHeader(f) ==
  \/ \E v \in Seen(f.name) : FitText(v, f, config.maxHeader)
  \/ f.optional /\ Seen(f.name) = {}
FitVar(src) ==
  CASE src.kind = "env"     -> src.name \in DOMAIN Env
    [] src.kind = "literal" -> TRUE
    [] src.kind = "header"  -> \E v \in Seen(src.name) : ~Exceeds(Len(v), config.maxHeader)
JsonFit(f, l) ==
  \/ ~f.array /\ f.ty \in {"string", "json"}
  \/ \A j \in DOMAIN l : <<JsonAs[<<RustType(f.ty), l[j]>>], f.ty>> \in FitsJson
FormFit(f, l) == f.ty = "binary" \/ <<Head(l), f.ty>> \in Fits
FitBody ==
  /\ \A max \in BodyLimit : ~(SentBody.len > max)
  /\ HasFields(config) => \A k \in DOMAIN config.body.fields : \A l \in BodyArg(config.body.fields[k]) :
       IF config.body.kind = "json" THEN JsonFit(config.body.fields[k], l) ELSE FormFit(config.body.fields[k], l)

FitCall ==
  /\ \A h \in config.auth : Credential(h)
  /\ \A k \in DOMAIN config.query : \A v \in Arg(config.query[k]) : FitText(v, config.query[k], config.maxQuery)
  /\ \A k \in DOMAIN config.headers : FitHeader(config.headers[k])
  /\ \A k \in DOMAIN config.path : \A v \in Arg(config.path[k]) : <<v, config.path[k].ty>> \in Fits
  /\ \A k \in DOMAIN config.vars : FitVar(config.vars[k].source)
  /\ FitBody

\* The server reads the names of a form as they are: no file name looks like a field's, and
\* no field's holds a semicolon.
Legible ==
  /\ ~Misread([file |-> call.file])
  /\ IsMultipart(config) => \A k \in DOMAIN config.body.fields : ";" \notin ToSet(config.body.fields[k].name)

\* A call is refused only for its own values, and always for them: if its token is
\* accepted, every value is one of its declared type within the limits and the VARs are
\* bound, the request passes every gate, and otherwise none runs a command (README of the
\* client: the spec drives the server and the client, "they cannot drift").  Names of a
\* multipart form that the server misreads are the exception.
RunsIffFit ==
  stage = "answered" /\ Addressable /\ Legible => (answer.at = "run" <=> FitCall)

\* A command that runs for a call has the call's values under the declared names: what was
\* given and nothing else.  A header loses the blanks around it, one that is not visible
\* ASCII is dropped, and one that is the token's has the token.  Only such a run is an Ok,
\* or the answer of a server in dry run, which the client takes for a command's output
\* (build_query_apply, build_header_apply, body_field_tokens, multipart_body_impl;
\* ensure_success; server.rs:190-210).
ExecutesTheCall ==
  /\ outcome = "ok" /\ landed = Own => started \/ config.dryRun
  /\ started /\ Addressable =>
       /\ ctx.query = [n \in GivenOf(config.query) |-> TheValue(config.query, n)]
       /\ \A k \in DOMAIN config.headers :
            LET n == config.headers[k].name
            IN {ctx.headers[h] : h \in {n} \cap DOMAIN ctx.headers} = Seen(n)
       /\ \A n \in DOMAIN ctx.path : {ctx.path[n]} = ParamText(n)
       /\ config.body.kind \in {"string", "binary"} => ctx.body.value = call.body
       /\ HasFields(config) /\ Legible =>
            LET fields == config.body.fields
                values == IF config.body.kind = "json" THEN ctx.body.value.fields ELSE ctx.body.value
            IN /\ DOMAIN values = {fields[k].name : k \in BodyGiven(fields)}
               /\ \A k \in BodyGiven(fields) :
                    IF config.body.kind = "json" THEN values[fields[k].name].items = JsonItems(fields[k])
                    ELSE values[fields[k].name].value = Head(ListOf(fields[k]))
=============================================================================
