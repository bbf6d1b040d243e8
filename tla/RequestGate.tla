---------------------------- MODULE RequestGate ----------------------------
(***************************************************************************)
(* What the server does with a request before it may run a command:        *)
(* `serve` resolves the secrets once; every request then passes axum's     *)
(* extractors, enforce_body_size, authenticate, the query, the headers,    *)
(* the path, the VARs and the body, in this order, and the first failure   *)
(* is the answer.  Only a request that passes all of them is executed.     *)
(*                                                                         *)
(* Requests share nothing but the AppState, which no request writes, so    *)
(* they are followed one at a time.  An optional value is a set with at    *)
(* most one element; a text is a sequence of lexemes and its length stands *)
(* for its size in bytes.                                                  *)
(***************************************************************************)
EXTENDS Integers, Sequences, FiniteSets

CONSTANTS
  Configs,      \* specifications the checker accepts, with the --dry-run flag
  Requests,     \* requests clients may send
  Env,          \* the process environment: variable name -> text
  Opaque,       \* the texts that are not visible ASCII: HeaderValue::to_str fails
  Fits,         \* pairs <<text, type>> value::validate_text accepts
  FitsJson,     \* pairs <<JSON scalar, type>> validate_json_value accepts
  SignedBy,     \* pairs <<token, verifier>> jsonwebtoken::decode accepts
  DefaultLimit  \* axum's own cap on a buffered body, used without MAX_BODY_SIZE

AtMostOne(S) == \A x, y \in S : x = y
Listed(scope) == Len(scope) \in Nat /\ DOMAIN scope = 1..Len(scope)
NamedOnce(scope) ==
  /\ Listed(scope)
  /\ \A j, k \in DOMAIN scope : scope[j].name = scope[k].name => j = k

SourceKind(src) == src.kind \in {"env", "literal", "header"}

\* What the parser and check::check leave of a specification: one value per
\* setup directive, and names that are unique within their scope; nobody compares the
\* parameters of a path with each other.
ASSUME ConfigAssumption ==
  \A c \in Configs :
    /\ c.dryRun \in BOOLEAN
    /\ AtMostOne(c.auth) /\ AtMostOne(c.jwt) /\ AtMostOne(c.secret)
    /\ \A src \in c.jwt \cup c.secret : SourceKind(src)
    /\ NamedOnce(c.query) /\ NamedOnce(c.headers) /\ NamedOnce(c.vars) /\ Listed(c.path)
    /\ \A j \in DOMAIN c.vars : SourceKind(c.vars[j].source)
    /\ c.body.kind \in {"none", "binary", "string", "json", "form"}
    /\ c.body.kind = "form" \/ (c.body.kind = "json" /\ c.body.typed) => NamedOnce(c.body.fields)

\* serde_json yields one value or an error; the router only calls the handler
\* with every path parameter bound.
ASSUME RequestAssumption ==
  /\ Requests # {}
  /\ \A r \in Requests : AtMostOne(r.body.json)
  /\ \A r \in Requests, c \in Configs : \A j \in DOMAIN c.path : c.path[j].name \in DOMAIN r.path

VARIABLES
  config,    \* the specification being served (fixed)
  secret,    \* AppState.auth_secret
  verifier,  \* AppState.auth_jwt_verifier
  stage,     \* where the request is
  turn,         \* the declared field, parameter or VAR whose turn it is
  req,       \* the request
  ctx,       \* the ExecContext built so far
  answer,    \* the response: its status and the stage that produced it
  started    \* whether the command was run

appVars == <<config, secret, verifier>>
gateVars == <<config, secret, verifier, stage, turn, req, ctx, answer, started>>

\* The stages of handle_inner, in the order of its calls.
Gates == <<"extract", "auth", "query", "headers", "path", "vars", "body">>
Scopes == {"query", "headers", "path", "vars"}
After == [query |-> "headers", headers |-> "path", path |-> "vars", vars |-> "body"]

NoBody == [kind |-> "none"]
EmptyCtx == [query |-> <<>>, headers |-> <<>>, path |-> <<>>, vars |-> <<>>, body |-> NoBody]
NoAnswer == [status |-> 0, at |-> "none"]

----------------------------------------------------------------------------
(* Helpers. *)

Exceeds(n, limit) == \E max \in limit : n > max

Lookup(f, n) == {f[x] : x \in {n} \cap DOMAIN f}

\* header_get: the first value of a header, if it is visible ASCII.
VisibleHeaders ==
  [n \in {h \in DOMAIN req.headers : req.headers[h] \notin Opaque} |-> req.headers[n]]
HeaderGet(n) == Lookup(VisibleHeaders, n)

\* BTreeMap::insert of a value that was given; an absent optional one leaves
\* no entry.
Keep(f, n, given) ==
  [x \in DOMAIN f \cup ({n} \cap DOMAIN given) |->
     IF x = n /\ n \in DOMAIN given THEN given[n] ELSE f[x]]

\* Mutant: an optional field is required like any other.
FieldErrorsEager(f, found, limit, tooBig) ==
  {s \in {400} : found = {}}
    \cup {s \in {tooBig} : \E v \in found : Exceeds(Len(v), limit)}
    \cup {s \in {400} : \E v \in found : ~Exceeds(Len(v), limit) /\ <<v, f.ty>> \notin Fits}

\* require_or_optional, enforce_size and check_validation for one declared
\* field: the statuses it fails with, at most one.
FieldErrors(f, found, limit, tooBig) ==
  {s \in {400} : found = {} /\ ~f.optional}
    \cup {s \in {tooBig} : \E v \in found : Exceeds(Len(v), limit)}
    \cup {s \in {400} : \E v \in found : ~Exceeds(Len(v), limit) /\ <<v, f.ty>> \notin Fits}

\* resolve_static_source: a value known before any request, or nothing.
Static(src) ==
  CASE src.kind = "env"     -> Lookup(Env, src.name)
    [] src.kind = "literal" -> {src.value}
    [] src.kind = "header"  -> {}

\* resolve_runtime_source.
Runtime(src) ==
  CASE src.kind = "env"     -> Lookup(Env, src.name)
    [] src.kind = "literal" -> {src.value}
    [] src.kind = "header"  -> HeaderGet(src.name)

\* Mutant: a header the client did not send is the server's error.
SourceErrorsBlameServer(src) ==
  {s \in {500} : Runtime(src) = {}}
    \cup {s \in {431} : src.kind = "header"
                          /\ \E v \in Runtime(src) : Exceeds(Len(v), config.maxHeader)}

SourceErrors(src) ==
  {s \in {500} : src.kind = "env" /\ Runtime(src) = {}}
    \cup {s \in {400} : src.kind = "header" /\ Runtime(src) = {}}
    \cup {s \in {431} : src.kind = "header"
                          /\ \E v \in Runtime(src) : Exceeds(Len(v), config.maxHeader)}

\* extract_bearer: the text without one leading "Bearer " or "bearer ", then
\* trimmed; " " is a run of blanks, and HTTP leaves none at the end of a value.
Dropped(v, lexemes) == IF v # <<>> /\ Head(v) \in lexemes THEN Tail(v) ELSE v
Bearer(v) == Dropped(Dropped(v, {"Bearer ", "bearer "}), {" "})

\* verify_token: a verifier makes the token a JWT, else a secret is compared,
\* else any token will do.
Verified(token) ==
  IF verifier # {} THEN \E k \in verifier : <<token, k>> \in SignedBy
  ELSE secret # {} => token \in secret

AuthErrors ==
  LET found(h) == HeaderGet(h) IN
  UNION {{s \in {401} : found(h) = {}}
           \cup {s \in {431} : \E v \in found(h) : Exceeds(Len(v), config.maxHeader)}
           \cup {s \in {401} : \E v \in found(h) :
                   /\ ~Exceeds(Len(v), config.maxHeader)
                   /\ Bearer(v) = <<>> \/ ~Verified(Bearer(v))} : h \in config.auth}

\* The cap on the body: axum's DefaultBodyLimit layer carries MAX_BODY_SIZE.
BodyLimit == IF config.maxBody = {} THEN {DefaultLimit} ELSE config.maxBody

----------------------------------------------------------------------------
(* The body. *)

FormNames(fields, types) == {fields[j].name : j \in {k \in DOMAIN fields : fields[k].ty \in types}}

\* parse_multipart / form_urlencoded: the last part of a name wins; a part
\* without a name is dropped.
ParsedForm(fields) ==
  LET parts == req.body.parts
      names == UNION {parts[j].name : j \in DOMAIN parts}
      last(n) == CHOOSE j \in DOMAIN parts :
                   /\ n \in parts[j].name
                   /\ \A k \in DOMAIN parts : n \in parts[k].name => k =< j
  IN [n \in names |-> [binary |-> n \in FormNames(fields, {"binary"}),
                       value |-> parts[last(n)].value]]

\* split_multipart's errors and text that is not UTF-8.
PartBad(p, fields) ==
  ~p.ok \/ (~p.utf8 /\ \E n \in p.name : n \notin FormNames(fields, {"binary"}))

FormErrors(fields) ==
  IF req.body.multipart
  THEN {s \in {400} : \E j \in DOMAIN req.body.parts : PartBad(req.body.parts[j], fields)}
  ELSE {s \in {415} : FormNames(fields, {"binary"}) \cap DOMAIN ParsedForm(fields) # {}}

FormFieldBad(form, f) ==
  IF f.name \in DOMAIN form
  THEN ~form[f.name].binary /\ <<form[f.name].value, f.ty>> \notin Fits
  ELSE ~f.optional

FormFieldErrors(fields) ==
  {s \in {400} : \E j \in DOMAIN fields : FormFieldBad(ParsedForm(fields), fields[j])}

\* validate_json_field; `string` and `json` take any value, an array included.
JsonFieldOk(v, f) ==
  IF f.array THEN v.array /\ \A j \in DOMAIN v.items : <<v.items[j], f.ty>> \in FitsJson
  ELSE f.ty \in {"string", "json"} \/ (~v.array /\ <<v.items[1], f.ty>> \in FitsJson)

SchemaErrors(v, fields) ==
  {s \in {400} :
     \/ ~v.object
     \/ \E j \in DOMAIN fields :
          LET found == Lookup(v.fields, fields[j].name) IN
          \/ found = {} /\ ~fields[j].optional
          \/ \E x \in found : ~JsonFieldOk(x, fields[j])}

\* build_body: the statuses it fails with, and the BodyValue otherwise.
BodyErrors ==
  LET spec == config.body IN
  CASE spec.kind \in {"none", "binary"} -> {}
    [] spec.kind = "string" -> {s \in {400} : ~req.body.utf8}
    [] spec.kind = "json" -> {s \in {400} : req.body.json = {}}
                               \cup UNION {SchemaErrors(v, spec.fields) : v \in
                                             {w \in req.body.json : spec.typed}}
    [] spec.kind = "form" -> IF FormErrors(spec.fields) # {} THEN FormErrors(spec.fields)
                             ELSE FormFieldErrors(spec.fields)

BodyValue ==
  LET spec == config.body IN
  CASE spec.kind = "none" -> NoBody
    [] spec.kind \in {"string", "binary"} -> [kind |-> spec.kind, value |-> req.body.raw]
    [] spec.kind = "json" -> [kind |-> "json", value |-> CHOOSE v \in req.body.json : TRUE]
    [] spec.kind = "form" -> [kind |-> "form", value |-> ParsedForm(spec.fields)]

----------------------------------------------------------------------------
(* Actions. *)

Init ==
  /\ config \in Configs /\ secret = {} /\ verifier = {}
  /\ stage = "starting" /\ turn = 1
  /\ req = CHOOSE r \in Requests : TRUE
  /\ ctx = EmptyCtx /\ answer = NoAnswer /\ started = FALSE

\* Mutant: a secret that is not set counts as no secret.
ServeLax ==
  /\ stage = "starting"
  /\ secret' = UNION {Static(src) : src \in config.secret}
  /\ verifier' = UNION {Static(src) : src \in config.jwt}
  /\ stage' = "idle"
  /\ UNCHANGED <<config, turn, req, ctx, answer, started>>

\* serve: both setup sources are resolved, then the address is bound; a
\* source that is not set ends the process.
Serve ==
  /\ stage = "starting"
  /\ \A src \in config.secret \cup config.jwt : Static(src) # {}
  /\ secret' = UNION {Static(src) : src \in config.secret}
  /\ verifier' = UNION {Static(src) : src \in config.jwt}
  /\ stage' = "idle"
  /\ UNCHANGED <<config, turn, req, ctx, answer, started>>

ServeFails ==
  /\ stage = "starting"
  /\ \E src \in config.secret \cup config.jwt : Static(src) = {}
  /\ stage' = "down"
  /\ UNCHANGED <<config, secret, verifier, turn, req, ctx, answer, started>>

Accept ==
  /\ stage \in {"idle", "answered"}
  /\ req' \in Requests
  /\ stage' = "extract" /\ turn' = 1
  /\ ctx' = EmptyCtx /\ answer' = NoAnswer /\ started' = FALSE
  /\ UNCHANGED appVars

Respond(s) ==
  /\ answer' = [status |-> s, at |-> stage]
  /\ stage' = "answered"
  /\ UNCHANGED <<config, secret, verifier, turn, req, ctx>>

Reject(s) == Respond(s) /\ UNCHANGED started

\* Path, Query and Bytes extractors; handle_inner's own enforce_body_size
\* repeats a limit the layer has already applied.
Extract ==
  /\ stage = "extract"
  /\ \/ /\ req.malformed
        /\ Reject(400)
     \/ /\ ~req.malformed
        /\ Exceeds(req.body.len, BodyLimit)
        /\ Reject(413)
     \/ /\ ~req.malformed
        /\ ~Exceeds(req.body.len, BodyLimit)
        /\ stage' = "auth"
        /\ UNCHANGED <<config, secret, verifier, turn, req, ctx, answer, started>>

Authenticate ==
  /\ stage = "auth"
  /\ \/ \E s \in AuthErrors : Reject(s)
     \/ /\ AuthErrors = {}
        /\ stage' = "query"
        /\ UNCHANGED <<config, secret, verifier, turn, req, ctx, answer, started>>

\* One round of the loop of validate_query, validate_headers, validate_path
\* or resolve_vars: the item's errors, or its value into the scope's map.
Item(errors, newCtx) ==
  \/ \E s \in errors : Reject(s)
  \/ /\ errors = {}
     /\ ctx' = newCtx
     /\ turn' = turn + 1
     /\ UNCHANGED <<config, secret, verifier, stage, req, answer, started>>

ValidateQuery ==
  /\ stage = "query" /\ turn =< Len(config.query)
  /\ LET f == config.query[turn] IN
       Item(FieldErrors(f, Lookup(req.query, f.name), config.maxQuery, 414),
            [ctx EXCEPT !.query = Keep(@, f.name, req.query)])

ValidateHeaders ==
  /\ stage = "headers" /\ turn =< Len(config.headers)
  /\ LET f == config.headers[turn] IN
       Item(FieldErrors(f, HeaderGet(f.name), config.maxHeader, 431),
            [ctx EXCEPT !.headers = Keep(@, f.name, VisibleHeaders)])

ValidatePath ==
  /\ stage = "path" /\ turn =< Len(config.path)
  /\ LET f == config.path[turn] IN
       Item({s \in {400} : <<req.path[f.name], f.ty>> \notin Fits},
            [ctx EXCEPT !.path = Keep(@, f.name, [n \in {f.name} |-> req.path[n]])])

ResolveVars ==
  /\ stage = "vars" /\ turn =< Len(config.vars)
  /\ LET v == config.vars[turn] IN
       \/ \E s \in SourceErrors(v.source) : Reject(s)
       \/ \E value \in Runtime(v.source) :
            Item(SourceErrors(v.source),
                 [ctx EXCEPT !.vars = Keep(@, v.name, [n \in {v.name} |-> value])])

\* The loop over a scope is over.
ScopeDone ==
  /\ stage \in Scopes
  /\ turn > Len(config[stage])
  /\ stage' = After[stage] /\ turn' = 1
  /\ UNCHANGED <<config, secret, verifier, req, ctx, answer, started>>

BuildBody ==
  /\ stage = "body"
  /\ \/ \E s \in BodyErrors : Reject(s)
     \/ /\ BodyErrors = {}
        /\ ctx' = [ctx EXCEPT !.body = BodyValue]
        /\ stage' = "run"
        /\ UNCHANGED <<config, secret, verifier, turn, req, answer, started>>

\* --dry-run answers with the rendered script and runs nothing.
DryRun ==
  /\ stage = "run" /\ config.dryRun
  /\ Reject(200)

\* The script cannot be rendered, or /bin/sh cannot be started.
NotStarted ==
  /\ stage = "run" /\ ~config.dryRun
  /\ Reject(500)

\* run_pipeline or run_streaming: 200, or 500 when the command fails and the
\* response is not already on its way.
Execute ==
  /\ stage = "run" /\ ~config.dryRun
  /\ started' = TRUE
  /\ \E s \in IF config.stream THEN {200} ELSE {200, 500} : Respond(s)

Next ==
  \/ Serve \/ ServeFails \/ Accept \/ Extract \/ Authenticate
  \/ ValidateQuery \/ ValidateHeaders \/ ValidatePath \/ ResolveVars \/ ScopeDone
  \/ BuildBody \/ DryRun \/ NotStarted \/ Execute

Spec == Init /\ [][Next]_gateVars

----------------------------------------------------------------------------
(* What a request has to be, said of the whole request and the process      *)
(* environment at once.                                                     *)

Within(v, limit) == \A max \in limit : ~(Len(v) > max)

FieldGood(f, given, limit) ==
  IF f.name \in DOMAIN given
  THEN Within(given[f.name], limit) /\ <<given[f.name], f.ty>> \in Fits
  ELSE f.optional

\* The text a setup or VAR source stands for in this request.
Meaning(src) ==
  CASE src.kind = "env"     -> Env[src.name]
    [] src.kind = "literal" -> src.value
    [] src.kind = "header"  -> VisibleHeaders[src.name]

Bound(src) ==
  CASE src.kind = "env"     -> src.name \in DOMAIN Env
    [] src.kind = "literal" -> TRUE
    [] src.kind = "header"  -> src.name \in DOMAIN VisibleHeaders
                                 /\ Within(Meaning(src), config.maxHeader)

TokenGood(token) ==
  /\ token # <<>>
  /\ \A src \in config.jwt : Bound(src) /\ <<token, Meaning(src)>> \in SignedBy
  /\ config.jwt = {} => \A src \in config.secret : Bound(src) /\ token = Meaning(src)

Authorised ==
  \A h \in config.auth :
    /\ h \in DOMAIN VisibleHeaders
    /\ Within(VisibleHeaders[h], config.maxHeader)
    /\ TokenGood(Bearer(VisibleHeaders[h]))

FormGood(fields) ==
  LET form == ParsedForm(fields)
      texts == [n \in {m \in DOMAIN form : ~form[m].binary} |-> form[n].value]
  IN /\ \A j \in DOMAIN fields :
          IF fields[j].ty = "binary"
          THEN fields[j].name \in DOMAIN form => req.body.multipart
          ELSE FieldGood(fields[j], texts, {})
     /\ \A j \in DOMAIN fields : fields[j].optional \/ fields[j].name \in DOMAIN form
     /\ req.body.multipart => \A j \in DOMAIN req.body.parts : ~PartBad(req.body.parts[j], fields)

JsonGood(v, fields) ==
  /\ v.object
  /\ \A j \in DOMAIN fields :
       IF fields[j].name \in DOMAIN v.fields
       THEN JsonFieldOk(v.fields[fields[j].name], fields[j])
       ELSE fields[j].optional

BodyGood ==
  CASE config.body.kind \in {"none", "binary"} -> TRUE
    [] config.body.kind = "string" -> req.body.utf8
    [] config.body.kind = "json" ->
         \E v \in req.body.json : config.body.typed => JsonGood(v, config.body.fields)
    [] config.body.kind = "form" -> FormGood(config.body.fields)

\* What a declared item of a scope asks for, and where its value comes from.
ItemGood(scope, f) ==
  CASE scope = "query"   -> FieldGood(f, req.query, config.maxQuery)
    [] scope = "headers" -> FieldGood(f, VisibleHeaders, config.maxHeader)
    [] scope = "path"    -> <<req.path[f.name], f.ty>> \in Fits
    [] scope = "vars"    -> Bound(f.source)

Names(scope) == {config[scope][j].name : j \in DOMAIN config[scope]}

BoundVars == {j \in DOMAIN config.vars : Bound(config.vars[j].source)}
VarMeanings ==
  [n \in {config.vars[j].name : j \in BoundVars} |->
     Meaning(config.vars[CHOOSE j \in BoundVars : config.vars[j].name = n].source)]

Given(scope) ==
  CASE scope = "query"   -> req.query
    [] scope = "headers" -> VisibleHeaders
    [] scope = "path"    -> req.path
    [] scope = "vars"    -> VarMeanings

Good(gate) ==
  CASE gate = "extract" -> ~req.malformed /\ \A max \in BodyLimit : ~(req.body.len > max)
    [] gate = "auth"    -> Authorised
    [] gate \in Scopes  -> \A j \in DOMAIN config[gate] : ItemGood(gate, config[gate][j])
    [] gate = "body"    -> BodyGood

----------------------------------------------------------------------------
(* Properties. *)

\* serde_json yields one value or an error, and every path parameter is bound.
RequestOk ==
  /\ AtMostOne(req.body.json)
  /\ \A j \in DOMAIN config.path : config.path[j].name \in DOMAIN req.path

\* Every variable keeps to its kind of value.
TypeOK ==
  /\ config \in Configs
  /\ stage \in {"starting", "down", "idle", "extract", "auth", "query", "headers", "path",
                "vars", "body", "run", "answered"}
  /\ answer.at \in {"none", "extract", "auth", "query", "headers", "path", "vars", "body", "run"}
  /\ turn \in Nat \ {0} /\ RequestOk /\ started \in BOOLEAN
  /\ DOMAIN ctx = {"query", "headers", "path", "vars", "body"}

\* A command is only started (server.rs:222, :260) for a request that is good
\* at every gate, never under --dry-run, and the context its script is rendered
\* from holds the request's own values of exactly the declared names.
ExecutesOnlyGood ==
  started =>
    /\ ~config.dryRun
    /\ \A k \in DOMAIN Gates : Good(Gates[k])
    /\ \A scope \in Scopes :
         /\ DOMAIN ctx[scope] = Names(scope) \cap DOMAIN Given(scope)
         /\ \A n \in DOMAIN ctx[scope] : ctx[scope][n] = Given(scope)[n]

\* An answer given at a gate (handle_inner, server.rs:177-186) is the answer
\* of the first gate the request is not good at: a request is never refused
\* for nothing, and what a later gate would say is not told to a request that
\* fails an earlier one, the token's in particular.
FirstDefectAnswers ==
  stage = "answered" =>
    \A k \in DOMAIN Gates :
      /\ answer.at = Gates[k] => ~Good(Gates[k]) /\ \A l \in 1..(k - 1) : Good(Gates[l])
      /\ answer.at = "run" => Good(Gates[k])

\* The status says what is wrong: too long a query parameter, too long a
\* header, a token, or the server's own configuration (server.rs:360-376,
\* 388-404, 649-741).
StatusTellsWhy ==
  /\ answer.status = 414 =>
       \E n \in Names("query") \cap DOMAIN req.query : ~Within(req.query[n], config.maxQuery)
  /\ answer.status = 431 =>
       \E n \in DOMAIN VisibleHeaders : ~Within(VisibleHeaders[n], config.maxHeader)
  /\ answer.status = 401 =>
       \E h \in config.auth : h \in DOMAIN VisibleHeaders => ~TokenGood(Bearer(VisibleHeaders[h]))
  /\ answer.status = 500 /\ answer.at = "vars" =>
       \E j \in DOMAIN config.vars :
         config.vars[j].source.kind = "env" /\ ~Bound(config.vars[j].source)

----------------------------------------------------------------------------
(* The inductive invariant behind them. *)

\* AppState holds what the setup sources stand for, from before the first
\* request on.
SecretsKept ==
  stage \notin {"starting", "down"} =>
    /\ \A src \in config.secret \cup config.jwt : src.kind # "header" /\ Bound(src)
    /\ secret = {Meaning(src) : src \in config.secret}
    /\ verifier = {Meaning(src) : src \in config.jwt}

\* The gates behind the request, and the items of the scope it is in.
GatesPassed ==
  /\ stage \in {"auth", "query", "headers", "path", "vars", "body", "run"} => Good("extract")
  /\ stage \in {"query", "headers", "path", "vars", "body", "run"} => Good("auth")
  /\ stage \in {"headers", "path", "vars", "body", "run"} => Good("query")
  /\ stage \in {"path", "vars", "body", "run"} => Good("headers")
  /\ stage \in {"vars", "body", "run"} => Good("path")
  /\ stage \in {"body", "run"} => Good("vars")
  /\ stage = "run" => Good("body")

ItemsPassed ==
  /\ stage \in {"extract", "auth"} => turn = 1
  /\ stage \in Scopes =>
       \A j \in DOMAIN config[stage] : j < turn => ItemGood(stage, config[stage][j])

\* The names of a scope whose turn has come.
Later == [query |-> {"headers", "path", "vars", "body", "run"},
          headers |-> {"path", "vars", "body", "run"},
          path |-> {"vars", "body", "run"},
          vars |-> {"body", "run"}]

Done(scope) ==
  {config[scope][j].name : j \in {k \in DOMAIN config[scope] :
     stage \in Later[scope] \/ started \/ (stage = scope /\ k < turn)}}

CtxDeclared ==
  \A scope \in Scopes :
    /\ \A n \in DOMAIN ctx[scope] :
         n \in Names(scope) /\ n \in DOMAIN Given(scope) /\ ctx[scope][n] = Given(scope)[n]
    /\ Done(scope) \cap DOMAIN Given(scope) \subseteq DOMAIN ctx[scope]

StartedLast == started => stage = "answered"

\* The inductive invariant: a request at a gate is good at all those before it,
\* and its context has what they validated (server.rs:169-249).
IInv ==
  /\ TypeOK /\ SecretsKept /\ GatesPassed /\ ItemsPassed /\ CtxDeclared /\ StartedLast
  /\ ExecutesOnlyGood /\ FirstDefectAnswers

=============================================================================
