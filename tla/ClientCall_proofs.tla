---------------------- MODULE ClientCall_proofs ------------------------------
(***************************************************************************)
(* The two sides of a call, for every specification.  The server's gate: a *)
(* command is only started for a request that is good at every gate, with  *)
(* values in their ranges, a refusal is the answer of the first gate the   *)
(* request fails, and a multipart form is read as it was sent.  The        *)
(* client's macro: there is a client exactly for a sound invocation.  And  *)
(* the way between them: a call reaches the endpoint it is for, is refused *)
(* only for its own values, and is run with the values it was given.       *)
(*                                                                         *)
(* Four lemmas say that a gate's error set is empty exactly when the       *)
(* request is good there; the invariant then moves along the gates.  The   *)
(* macro's invariant moves along the lines of the invocation.  That a form *)
(* is read as it was sent rests on SplitIs: splitting undoes encoding.     *)
(* That a call arrives rests on SegmentsAre, by which the server cuts the  *)
(* URL where the client joined it, and on NotBeaten and OtherClashes; what *)
(* it is run with, on the lemmas by which a decoder undoes its encoder.    *)
(* That each gate judges the call's own values is a lemma for each gate,   *)
(* from AuthFits to BodyFits.                                              *)
(***************************************************************************)
EXTENDS ClientCall, FiniteSetTheorems, SequenceTheorems, WellFoundedInduction, NaturalsInduction, TLAPS

\* A declared field fails (server.rs:341-379) exactly when it is not good.
LEMMA FieldErrorsTell ==
  ASSUME NEW f, NEW given, NEW limit, NEW tooBig
  PROVE  FieldErrors(f, Lookup(given, f.name), limit, tooBig) = {}
           <=> FieldGood(f, given, limit)
<1>1. CASE f.name \in DOMAIN given
  <2>1. Lookup(given, f.name) = {given[f.name]}
    BY <1>1 DEF Lookup
  <2>2. FieldErrors(f, Lookup(given, f.name), limit, tooBig) = {}
          <=> ~Exceeds(Len(given[f.name]), limit) /\ <<given[f.name], f.ty>> \in Fits
    BY <2>1 DEF FieldErrors
  <2> QED BY <1>1, <2>2 DEF FieldGood, Within, Exceeds
<1>2. CASE f.name \notin DOMAIN given
  <2>1. Lookup(given, f.name) = {}
    BY <1>2 DEF Lookup
  <2> QED BY <1>2, <2>1 DEF FieldErrors, FieldGood
<1> QED BY <1>1, <1>2

\* header_get finds what is visible.
LEMMA HeaderGetVisible ==
  ASSUME NEW n
  PROVE  /\ HeaderGet(n) = Lookup(VisibleHeaders, n)
         /\ n \in DOMAIN VisibleHeaders =>
              n \in DOMAIN req.headers /\ VisibleHeaders[n] = req.headers[n]
  BY DEF HeaderGet, Lookup, VisibleHeaders

\* A VAR or setup source resolves (server.rs:712-741) exactly when it is bound.
LEMMA SourceErrorsTell ==
  ASSUME NEW src, SourceKind(src)
  PROVE  SourceErrors(src) = {} <=> Bound(src)
<1>1. CASE src.kind = "env"
  BY <1>1 DEF SourceErrors, Bound, Runtime, Lookup
<1>2. CASE src.kind = "literal"
  BY <1>2 DEF SourceErrors, Bound, Runtime
<1>3. CASE src.kind = "header"
  <2>1. Runtime(src) = Lookup(VisibleHeaders, src.name)
    BY <1>3, HeaderGetVisible DEF Runtime
  <2>2. CASE src.name \in DOMAIN VisibleHeaders
    <3>1. Runtime(src) = {Meaning(src)}
      BY <1>3, <2>1, <2>2 DEF Lookup, Meaning
    <3> QED BY <1>3, <2>2, <3>1 DEF SourceErrors, Bound, Within, Exceeds
  <2>3. CASE src.name \notin DOMAIN VisibleHeaders
    <3>1. Runtime(src) = {}
      BY <2>1, <2>3 DEF Lookup
    <3> QED BY <1>3, <2>3, <3>1 DEF SourceErrors, Bound
  <2> QED BY <2>2, <2>3
<1> QED BY <1>1, <1>2, <1>3 DEF SourceKind

\* With the secrets resolved at startup, verify_token (server.rs:681-699)
\* accepts exactly the good tokens.
LEMMA VerifiedTells ==
  ASSUME NEW t, TypeOK, SecretsKept, stage = "auth"
  PROVE  t # <<>> /\ Verified(t) <=> TokenGood(t)
<1>1. /\ AtMostOne(config.jwt) /\ AtMostOne(config.secret)
      /\ \A src \in config.secret \cup config.jwt : Bound(src)
      /\ secret = {Meaning(src) : src \in config.secret}
      /\ verifier = {Meaning(src) : src \in config.jwt}
  BY ConfigAssumption DEF TypeOK, SecretsKept
<1>2. CASE config.jwt = {}
  <2>1. verifier = {}
    BY <1>1, <1>2
  <2>2. (secret # {} => t \in secret) <=> \A src \in config.secret : t = Meaning(src)
    BY <1>1 DEF AtMostOne
  <2> QED BY <1>1, <1>2, <2>1, <2>2 DEF Verified, TokenGood
<1>3. CASE config.jwt # {}
  <2>1. PICK j \in config.jwt : config.jwt = {j}
    BY <1>1, <1>3 DEF AtMostOne
  <2>2. verifier = {Meaning(j)}
    BY <1>1, <2>1
  <2> QED BY <1>1, <1>3, <2>1, <2>2 DEF Verified, TokenGood
<1> QED BY <1>2, <1>3

\* authenticate (server.rs:318-325) fails exactly the requests without a good
\* token.
LEMMA AuthErrorsTell ==
  ASSUME TypeOK, SecretsKept, stage = "auth"
  PROVE  AuthErrors = {} <=> Authorised
<1> DEFINE E(h) == {s \in {401} : HeaderGet(h) = {}}
           \cup {s \in {431} : \E v \in HeaderGet(h) : Exceeds(Len(v), config.maxHeader)}
           \cup {s \in {401} : \E v \in HeaderGet(h) :
                   /\ ~Exceeds(Len(v), config.maxHeader)
                   /\ Bearer(v) = <<>> \/ ~Verified(Bearer(v))}
<1> DEFINE A(h) == /\ h \in DOMAIN VisibleHeaders
                   /\ Within(VisibleHeaders[h], config.maxHeader)
                   /\ TokenGood(Bearer(VisibleHeaders[h]))
<1>1. ASSUME NEW h PROVE E(h) = {} <=> A(h)
  <2>1. HeaderGet(h) = Lookup(VisibleHeaders, h)
    BY HeaderGetVisible
  <2>2. CASE h \in DOMAIN VisibleHeaders
    <3> DEFINE v == VisibleHeaders[h]
    <3>1. HeaderGet(h) = {v}
      BY <2>1, <2>2 DEF Lookup
    <3>2. E(h) = {} <=> /\ ~Exceeds(Len(v), config.maxHeader)
                        /\ Bearer(v) # <<>> /\ Verified(Bearer(v))
      <4> HIDE DEF v
      <4> QED BY <3>1
    <3>3. Bearer(v) # <<>> /\ Verified(Bearer(v)) <=> TokenGood(Bearer(v))
      BY VerifiedTells
    <3>4. ~Exceeds(Len(v), config.maxHeader) <=> Within(v, config.maxHeader)
      BY DEF Exceeds, Within
    <3> QED BY <2>2, <3>2, <3>3, <3>4
  <2>3. CASE h \notin DOMAIN VisibleHeaders
    <3>1. HeaderGet(h) = {}
      BY <2>1, <2>3 DEF Lookup
    <3> QED BY <2>3, <3>1
  <2> QED BY <2>2, <2>3
<1>2. AuthErrors = UNION {E(h) : h \in config.auth}
  BY DEF AuthErrors
<1>3. Authorised <=> \A h \in config.auth : A(h)
  BY DEF Authorised
<1> HIDE DEF E, A
<1> QED BY <1>1, <1>2, <1>3
\* The checks on a parsed form (server.rs:464-479) fail exactly the forms that
\* are not good.
LEMMA FormErrorsTell ==
  ASSUME NEW fields, NamedOnce(fields)
  PROVE  FormErrors(fields) = {} /\ FormFieldErrors(fields) = {} <=> FormGood(fields)
<1> DEFINE form == ParsedForm(fields)
           binaries == FormNames(fields, {"binary"})
           texts == [n \in {m \in DOMAIN form : ~form[m].binary} |-> form[n].value]
           name(j) == fields[j].name
<1>1. \A n \in DOMAIN form : form[n].binary <=> n \in binaries
  BY DEF ParsedForm
<1>2. \A j \in DOMAIN fields : name(j) \in binaries <=> fields[j].ty = "binary"
  BY DEF FormNames, NamedOnce, Listed
<1>3. FormErrors(fields) = {} <=>
        /\ req.body.multipart => \A j \in DOMAIN req.body.parts : ~PartBad(req.body.parts[j], fields)
        /\ ~req.body.multipart => binaries \cap DOMAIN form = {}
  BY DEF FormErrors
<1> HIDE DEF form, binaries
<1>4. FormFieldErrors(fields) = {} <=>
        \A j \in DOMAIN fields :
          IF name(j) \in DOMAIN form
          THEN form[name(j)].binary \/ <<form[name(j)].value, fields[j].ty>> \in Fits
          ELSE fields[j].optional
  <2>1. FormFieldErrors(fields) = {} <=>
          \A j \in DOMAIN fields : ~FormFieldBad(form, fields[j])
    BY DEF FormFieldErrors, form
  <2>2. \A j \in DOMAIN fields :
          ~FormFieldBad(form, fields[j]) <=>
            IF name(j) \in DOMAIN form
            THEN form[name(j)].binary \/ <<form[name(j)].value, fields[j].ty>> \in Fits
            ELSE fields[j].optional
    BY DEF FormFieldBad
  <2> QED BY <2>1, <2>2
<1>5. binaries \cap DOMAIN form = {} <=>
        \A j \in DOMAIN fields : fields[j].ty = "binary" => name(j) \notin DOMAIN form
  BY <1>2 DEF binaries, FormNames
<1>6. ASSUME NEW j \in DOMAIN fields, fields[j].ty # "binary"
      PROVE  FieldGood(fields[j], texts, {}) <=>
               IF name(j) \in DOMAIN form
               THEN form[name(j)].binary \/ <<form[name(j)].value, fields[j].ty>> \in Fits
               ELSE fields[j].optional
  <2>1. name(j) \in DOMAIN form => ~form[name(j)].binary
    BY <1>1, <1>2, <1>6
  <2>2. name(j) \in DOMAIN texts <=> name(j) \in DOMAIN form
    BY <2>1
  <2>3. name(j) \in DOMAIN form => texts[name(j)] = form[name(j)].value
    BY <2>1
  <2> HIDE DEF texts
  <2> QED BY <2>1, <2>2, <2>3 DEF FieldGood, Within
<1>7. ASSUME NEW j \in DOMAIN fields, fields[j].ty = "binary"
      PROVE  (IF name(j) \in DOMAIN form
              THEN form[name(j)].binary \/ <<form[name(j)].value, fields[j].ty>> \in Fits
              ELSE fields[j].optional)
             <=> fields[j].optional \/ name(j) \in DOMAIN form
  BY <1>1, <1>2, <1>7
<1>8. FormGood(fields) <=>
        /\ \A j \in DOMAIN fields :
             IF fields[j].ty = "binary"
             THEN name(j) \in DOMAIN form => req.body.multipart
             ELSE FieldGood(fields[j], texts, {})
        /\ \A j \in DOMAIN fields : fields[j].optional \/ name(j) \in DOMAIN form
        /\ req.body.multipart => \A j \in DOMAIN req.body.parts : ~PartBad(req.body.parts[j], fields)
  BY DEF FormGood, form
<1>9. \A j \in DOMAIN fields : FieldGood(fields[j], texts, {}) /\ fields[j].ty # "binary" =>
        fields[j].optional \/ name(j) \in DOMAIN form
  BY <1>6
<1> HIDE DEF texts, name
<1> QED BY <1>3, <1>4, <1>5, <1>6, <1>7, <1>8, <1>9

\* build_body (server.rs:444-483) fails exactly the bodies that are not good.
LEMMA BodyErrorsTell ==
  ASSUME TypeOK
  PROVE  BodyErrors = {} <=> BodyGood
<1> USE DEF TypeOK
<1>1. CASE config.body.kind \in {"none", "binary"}
  BY <1>1 DEF BodyErrors, BodyGood
<1>2. CASE config.body.kind = "string"
  BY <1>2 DEF BodyErrors, BodyGood
<1>3. CASE config.body.kind = "json"
  <2>1. AtMostOne(req.body.json)
    BY DEF TypeOK, RequestOk
  <2>2. \A v : SchemaErrors(v, config.body.fields) = {} <=> JsonGood(v, config.body.fields)
    BY DEF SchemaErrors, JsonGood, Lookup
  <2>3. BodyErrors = {s \in {400} : req.body.json = {}}
          \cup UNION {SchemaErrors(v, config.body.fields) : v \in {w \in req.body.json : config.body.typed}}
    BY <1>3 DEF BodyErrors
  <2>4. BodyGood <=> \E v \in req.body.json : config.body.typed => JsonGood(v, config.body.fields)
    BY <1>3 DEF BodyGood
  <2>5. CASE req.body.json = {}
    BY <2>3, <2>4, <2>5
  <2>6. CASE req.body.json # {}
    <3>1. PICK v \in req.body.json : req.body.json = {v}
      BY <2>1, <2>6 DEF AtMostOne
    <3>2. BodyErrors = {} <=> (config.body.typed => SchemaErrors(v, config.body.fields) = {})
      BY <2>3, <3>1
    <3> QED BY <2>2, <2>4, <3>1, <3>2
  <2> QED BY <2>5, <2>6
<1>4. CASE config.body.kind = "form"
  <2>1. NamedOnce(config.body.fields)
    BY <1>4, ConfigAssumption
  <2>2. BodyErrors = {} <=> FormErrors(config.body.fields) = {} /\ FormFieldErrors(config.body.fields) = {}
    BY <1>4 DEF BodyErrors
  <2> QED BY <1>4, <2>1, <2>2, FormErrorsTell DEF BodyGood
<1> QED BY <1>1, <1>2, <1>3, <1>4, ConfigAssumption
----------------------------------------------------------------------------
(* The gates, one by one. *)

AllGood ==
  /\ Good("extract") /\ Good("auth") /\ Good("query") /\ Good("headers")
  /\ Good("path") /\ Good("vars") /\ Good("body")

LEMMA GoodIs ==
  /\ Good("extract") <=> ~req.malformed /\ \A max \in BodyLimit : ~(req.body.len > max)
  /\ Good("auth") <=> Authorised
  /\ \A scope \in Scopes :
       Good(scope) <=> \A j \in DOMAIN config[scope] : ItemGood(scope, config[scope][j])
  /\ Good("body") <=> BodyGood
  BY DEF Good, Scopes

LEMMA GatesAre == (\A k \in DOMAIN Gates : Good(Gates[k])) <=> AllGood
<1>1. DOMAIN Gates = {1, 2, 3, 4, 5, 6, 7}
  BY DEF Gates
<1>2. /\ Gates[1] = "extract" /\ Gates[2] = "auth" /\ Gates[3] = "query"
      /\ Gates[4] = "headers" /\ Gates[5] = "path" /\ Gates[6] = "vars" /\ Gates[7] = "body"
  BY DEF Gates
<1> HIDE DEF Gates
<1> QED BY <1>1, <1>2 DEF AllGood

FirstDefect ==
  stage = "answered" =>
    /\ answer.at = "extract" => ~Good("extract")
    /\ answer.at = "auth" => ~Good("auth") /\ Good("extract")
    /\ answer.at = "query" => ~Good("query") /\ Good("auth") /\ Good("extract")
    /\ answer.at = "headers" =>
         ~Good("headers") /\ Good("query") /\ Good("auth") /\ Good("extract")
    /\ answer.at = "path" =>
         ~Good("path") /\ Good("headers") /\ Good("query") /\ Good("auth") /\ Good("extract")
    /\ answer.at = "vars" =>
         /\ ~Good("vars") /\ Good("path") /\ Good("headers") /\ Good("query")
         /\ Good("auth") /\ Good("extract")
    /\ answer.at = "body" =>
         /\ ~Good("body") /\ Good("vars") /\ Good("path") /\ Good("headers") /\ Good("query")
         /\ Good("auth") /\ Good("extract")
    /\ answer.at = "run" => AllGood

LEMMA FirstDefectIs == FirstDefectAnswers <=> FirstDefect
<1>1. DOMAIN Gates = {1, 2, 3, 4, 5, 6, 7}
  BY DEF Gates
<1>2. /\ Gates[1] = "extract" /\ Gates[2] = "auth" /\ Gates[3] = "query"
      /\ Gates[4] = "headers" /\ Gates[5] = "path" /\ Gates[6] = "vars" /\ Gates[7] = "body"
  BY DEF Gates
<1>3. /\ 1..(1 - 1) = {} /\ 1..(2 - 1) = {1} /\ 1..(3 - 1) = {1, 2} /\ 1..(4 - 1) = {1, 2, 3}
      /\ 1..(5 - 1) = {1, 2, 3, 4} /\ 1..(6 - 1) = {1, 2, 3, 4, 5}
      /\ 1..(7 - 1) = {1, 2, 3, 4, 5, 6}
  OBVIOUS
<1> DEFINE At(k) == /\ answer.at = Gates[k] =>
                          ~Good(Gates[k]) /\ \A l \in 1..(k - 1) : Good(Gates[l])
                    /\ answer.at = "run" => Good(Gates[k])
<1>4. FirstDefectAnswers <=>
        (stage = "answered" => At(1) /\ At(2) /\ At(3) /\ At(4) /\ At(5) /\ At(6) /\ At(7))
  <2>1. FirstDefectAnswers <=> (stage = "answered" => \A k \in DOMAIN Gates : At(k))
    BY DEF FirstDefectAnswers
  <2> HIDE DEF At
  <2> QED BY <1>1, <2>1
<1> HIDE DEF Gates
<1> QED BY <1>2, <1>3, <1>4 DEF FirstDefect, AllGood

\* Goodness is a matter of the specification, the request and the environment.
LEMMA GoodStays ==
  ASSUME config' = config, req' = req
  PROVE  /\ Good("extract")' <=> Good("extract")
         /\ Good("auth")' <=> Good("auth")
         /\ Good("query")' <=> Good("query")
         /\ Good("headers")' <=> Good("headers")
         /\ Good("path")' <=> Good("path")
         /\ Good("vars")' <=> Good("vars")
         /\ Good("body")' <=> Good("body")
         /\ \A scope, f : ItemGood(scope, f)' <=> ItemGood(scope, f)
         /\ \A scope : Given(scope)' = Given(scope)
         /\ \A src : Bound(src)' <=> Bound(src)
         /\ \A src : Meaning(src)' = Meaning(src)
         /\ \A scope : Names(scope)' = Names(scope)
<1>1. VisibleHeaders' = VisibleHeaders
  BY DEF VisibleHeaders
<1>2. \A src : Bound(src)' <=> Bound(src)
  BY <1>1 DEF Bound, Meaning
<1>3. \A src : Meaning(src)' = Meaning(src)
  BY <1>1 DEF Meaning
<1>4. Authorised' <=> Authorised
  BY <1>1, <1>2, <1>3 DEF Authorised, TokenGood
<1>5. BodyGood' <=> BodyGood
  BY DEF BodyGood, FormGood, ParsedForm, PartBad
<1>6. BodyLimit' = BodyLimit
  BY DEF BodyLimit
<1>7. \A scope : Names(scope)' = Names(scope)
  BY DEF Names
<1>8. \A scope, f : ItemGood(scope, f)' <=> ItemGood(scope, f)
  BY <1>1, <1>2 DEF ItemGood
<1>9. \A scope : Given(scope)' = Given(scope)
  <2>1. BoundVars' = BoundVars
    BY <1>2 DEF BoundVars
  <2>2. VarMeanings' = VarMeanings
    BY <1>3, <1>7, <2>1 DEF VarMeanings
  <2> QED BY <1>1, <2>2 DEF Given
<1> QED BY <1>2, <1>3, <1>4, <1>5, <1>6, <1>7, <1>8, <1>9 DEF Good

----------------------------------------------------------------------------
(* Every step keeps the invariant. *)

LEMMA LaterIs ==
  /\ Scopes = {"query", "headers", "path", "vars"}
  /\ Later["query"] = {"headers", "path", "vars", "body", "run"}
  /\ Later["headers"] = {"path", "vars", "body", "run"}
  /\ Later["path"] = {"vars", "body", "run"}
  /\ Later["vars"] = {"body", "run"}
  BY DEF Scopes, Later

\* The context stays declared when neither it nor the request moves and no
\* further name's turn comes.
LEMMA CtxStays ==
  ASSUME CtxDeclared, config' = config, req' = req,
         \A scope \in Scopes : ctx'[scope] = ctx[scope],
         \A scope \in Scopes : Done(scope)' \subseteq Done(scope)
  PROVE  CtxDeclared'
  BY GoodStays DEF CtxDeclared

\* Nothing has had its turn before the query or in a refusal.
LEMMA NothingDone ==
  ASSUME started' = FALSE,
         stage' \in {"starting", "down", "idle", "extract", "auth", "answered"}
  PROVE  \A scope \in Scopes : Done(scope)' = {}
<1>1. \A scope \in Scopes : stage' \notin Later[scope] /\ stage' # scope
  BY LaterIs
<1> QED BY <1>1 DEF Done

\* A refusal (HandlerError) keeps it, provided the gate has a reason.
LEMMA RejectKeeps ==
  ASSUME IInv, NEW s, Reject(s),
         stage \in {"extract", "auth", "query", "headers", "path", "vars", "body"} => ~Good(stage),
         stage \notin {"starting", "down", "idle", "answered"}
  PROVE  IInv'
<1> USE DEF Reject, Respond
<1>1. config' = config /\ req' = req /\ secret' = secret /\ verifier' = verifier
  OBVIOUS
<1>2. started = FALSE /\ started' = FALSE /\ stage' = "answered"
  BY DEF IInv, StartedLast, TypeOK
<1>3. TypeOK'
  BY DEF IInv, TypeOK, RequestOk
<1>4. SecretsKept'
  BY <1>1, GoodStays DEF IInv, SecretsKept
<1>5. GatesPassed' /\ ItemsPassed'
  BY <1>2 DEF GatesPassed, ItemsPassed, Scopes
<1>6. CtxDeclared'
  <2>1. \A scope \in Scopes : Done(scope)' = {}
    BY <1>2, NothingDone
  <2> QED BY <1>1, <2>1, CtxStays DEF IInv
<1>7. StartedLast' /\ ExecutesOnlyGood'
  BY <1>2 DEF StartedLast, ExecutesOnlyGood
<1>8. FirstDefectAnswers'
  <2>1. FirstDefect'
    <3>1. answer'.at = stage
      OBVIOUS
    <3> QED BY <1>1, <1>2, <3>1, GoodStays DEF IInv, TypeOK, GatesPassed, FirstDefect, AllGood
  <2> QED BY <2>1, FirstDefectIs, PTL
<1> QED BY <1>3, <1>4, <1>5, <1>6, <1>7, <1>8 DEF IInv

\* A step to a stage that is not "answered" keeps it, provided it keeps the
\* parts about that stage.
LEMMA AdvanceKeeps ==
  ASSUME IInv, TypeOK', SecretsKept', GatesPassed', ItemsPassed', CtxDeclared',
         started' = FALSE, stage' # "answered"
  PROVE  IInv'
<1>1. StartedLast' /\ ExecutesOnlyGood' /\ FirstDefectAnswers'
  BY DEF StartedLast, ExecutesOnlyGood, FirstDefectAnswers
<1> QED BY <1>1 DEF IInv

\* A request that comes in finds the handler as it was.
LEMMA ArrivalKeeps ==
  ASSUME IInv, stage \in {"idle", "answered"}, stage' = "extract", turn' = 1,
         ctx' = EmptyCtx, answer' = NoAnswer, started' = FALSE, RequestOk', UNCHANGED appVars
  PROVE  IInv'
<1> USE DEF appVars
<1>1. TypeOK'
  <2>1. DOMAIN EmptyCtx = {"query", "headers", "path", "vars", "body"} /\ NoAnswer.at = "none"
    BY DEF EmptyCtx, NoAnswer
  <2>2. config' \in Configs /\ started' \in BOOLEAN /\ turn' \in Nat \ {0}
    <3>1. config \in Configs
      BY DEF IInv, TypeOK
    <3>2. config' = config /\ started' = FALSE /\ turn' = 1
      OBVIOUS
    <3>3. started' \in BOOLEAN
      BY <3>2
    <3> QED BY <3>1, <3>2, <3>3
  <2>3. DOMAIN ctx' = {"query", "headers", "path", "vars", "body"} /\ answer'.at = "none"
    BY <2>1
  <2> QED BY <2>2, <2>3 DEF TypeOK
<1>2. SecretsKept'
  <2>1. \A src \in config.secret \cup config.jwt : SourceKind(src)
    BY ConfigAssumption DEF IInv, TypeOK
  <2>2. ASSUME NEW src \in config.secret \cup config.jwt, src.kind # "header"
        PROVE  (Bound(src)' <=> Bound(src)) /\ Meaning(src)' = Meaning(src)
    <3>1. CASE src.kind = "env"
      BY <3>1 DEF Bound, Meaning
    <3>2. CASE src.kind = "literal"
      BY <3>2 DEF Bound, Meaning
    <3> QED BY <2>1, <2>2, <3>1, <3>2 DEF SourceKind
  <2>3. stage \notin {"starting", "down"}
    OBVIOUS
  <2>4. /\ secret' = secret /\ verifier' = verifier /\ config' = config
        /\ \A src \in config.secret \cup config.jwt : src.kind # "header" /\ Bound(src)
        /\ secret = {Meaning(src) : src \in config.secret}
        /\ verifier = {Meaning(src) : src \in config.jwt}
    BY <2>3 DEF IInv, SecretsKept
  <2>5. /\ {Meaning(src) : src \in config.secret} = {Meaning(src)' : src \in config.secret}
        /\ {Meaning(src) : src \in config.jwt} = {Meaning(src)' : src \in config.jwt}
    BY <2>2, <2>4
  <2> QED BY <2>2, <2>4, <2>5 DEF SecretsKept
<1>3. GatesPassed' /\ ItemsPassed'
  BY DEF GatesPassed, ItemsPassed, Scopes
<1>4. CtxDeclared'
  <2>1. \A scope \in Scopes : DOMAIN ctx'[scope] = {}
    BY LaterIs DEF EmptyCtx
  <2>2. \A scope \in Scopes : Done(scope)' = {}
    BY NothingDone
  <2> QED BY <2>1, <2>2 DEF CtxDeclared
<1> QED BY <1>1, <1>2, <1>3, <1>4, AdvanceKeeps

LEMMA StartKeeps ==
  ASSUME IInv, Serve \/ ServeFails \/ Accept
  PROVE  IInv'
<1>1. CASE Serve
  <2> USE <1>1 DEF Serve
  <2>1. started' = FALSE /\ config' = config /\ req' = req
    BY DEF IInv, StartedLast, TypeOK
  <2>2. TypeOK'
    BY DEF IInv, TypeOK, RequestOk
  <2>3. SecretsKept'
    <3>1. \A src \in config.secret \cup config.jwt : SourceKind(src) /\ Static(src) # {}
      BY ConfigAssumption DEF IInv, TypeOK
    <3>2. ASSUME NEW src \in config.secret \cup config.jwt
          PROVE  src.kind # "header" /\ Bound(src) /\ Static(src) = {Meaning(src)}
      <4>1. CASE src.kind = "env"
        BY <3>1, <4>1 DEF Static, Lookup, Bound, Meaning
      <4>2. CASE src.kind = "literal"
        BY <3>1, <4>2 DEF Static, Bound, Meaning
      <4>3. CASE src.kind = "header"
        BY <3>1, <4>3 DEF Static
      <4> QED BY <3>1, <4>1, <4>2, <4>3 DEF SourceKind
    <3>3. /\ secret' = {Meaning(src) : src \in config.secret}
          /\ verifier' = {Meaning(src) : src \in config.jwt}
      BY <3>2
    <3> QED BY <2>1, <3>2, <3>3, GoodStays DEF SecretsKept
  <2>4. GatesPassed' /\ ItemsPassed'
    BY DEF GatesPassed, ItemsPassed, Scopes
  <2>5. CtxDeclared'
    <3>1. \A scope \in Scopes : Done(scope)' = {}
      BY <2>1, NothingDone
    <3> QED BY <2>1, <3>1, CtxStays DEF IInv
  <2> QED BY <2>1, <2>2, <2>3, <2>4, <2>5, AdvanceKeeps
<1>2. CASE ServeFails
  <2> USE <1>2 DEF ServeFails
  <2>1. started' = FALSE /\ config' = config /\ req' = req
    BY DEF IInv, StartedLast, TypeOK
  <2>2. TypeOK' /\ SecretsKept' /\ GatesPassed' /\ ItemsPassed'
    BY DEF IInv, TypeOK, RequestOk, SecretsKept, GatesPassed, ItemsPassed, Scopes
  <2>3. CtxDeclared'
    <3>1. \A scope \in Scopes : Done(scope)' = {}
      BY <2>1, NothingDone
    <3> QED BY <2>1, <3>1, CtxStays DEF IInv
  <2> QED BY <2>1, <2>2, <2>3, AdvanceKeeps
<1>3. CASE Accept
  <2>1. /\ stage \in {"idle", "answered"} /\ req' \in Requests /\ UNCHANGED appVars
        /\ stage' = "extract" /\ turn' = 1 /\ ctx' = EmptyCtx /\ answer' = NoAnswer /\ started' = FALSE
    BY <1>3 DEF Accept
  <2>2. config \in Configs /\ config' = config
    BY <2>1 DEF IInv, TypeOK, appVars
  <2>3. RequestOk'
    BY <2>1, <2>2, RequestAssumption DEF RequestOk
  <2> QED BY <2>1, <2>3, ArrivalKeeps
<1> QED BY <1>1, <1>2, <1>3

LEMMA EntryKeeps ==
  ASSUME IInv, Extract \/ Authenticate \/ BuildBody
  PROVE  IInv'
<1> DEFINE Moves == config' = config /\ secret' = secret /\ verifier' = verifier
                      /\ req' = req /\ started' = started /\ answer' = answer
<1>1. Good("extract") <=> ~req.malformed /\ ~Exceeds(req.body.len, BodyLimit)
  BY GoodIs DEF Exceeds
<1>2. CASE Extract
  <2>1. CASE ~Good("extract") /\ \E s \in {400, 413} : Reject(s)
    <3>1. stage = "extract"
      BY <1>2 DEF Extract
    <3> QED BY <2>1, <3>1, RejectKeeps
  <2>2. CASE stage' = "auth"
    <3>1. Moves /\ ctx' = ctx /\ turn' = turn /\ stage = "extract" /\ Good("extract")
      BY <1>1, <1>2, <2>2 DEF Extract, Reject, Respond
    <3>2. TypeOK' /\ SecretsKept' /\ GatesPassed' /\ ItemsPassed' /\ started' = FALSE
      BY <2>2, <3>1, GoodStays
         DEF IInv, TypeOK, RequestOk, SecretsKept, GatesPassed, ItemsPassed, StartedLast, Scopes
    <3>3. CtxDeclared'
      <4>1. \A scope \in Scopes : Done(scope)' = {}
        BY <2>2, <3>2, NothingDone
      <4> QED BY <3>1, <4>1, CtxStays DEF IInv
    <3> QED BY <2>2, <3>2, <3>3, AdvanceKeeps
  <2> QED BY <1>1, <1>2, <2>1, <2>2 DEF Extract
<1>3. CASE Authenticate
  <2>1. stage = "auth" /\ (AuthErrors = {} <=> Good("auth"))
    BY <1>3, AuthErrorsTell, GoodIs DEF Authenticate, IInv
  <2>2. CASE \E s \in AuthErrors : Reject(s)
    BY <2>1, <2>2, RejectKeeps
  <2>3. CASE AuthErrors = {} /\ stage' = "query"
    <3>1. Moves /\ ctx' = ctx /\ turn' = 1 /\ turn = 1 /\ Good("auth")
      BY <1>3, <2>1, <2>3 DEF Authenticate, Reject, Respond, IInv, ItemsPassed
    <3>2. TypeOK' /\ SecretsKept' /\ started' = FALSE
      BY <2>1, <2>3, <3>1, GoodStays DEF IInv, TypeOK, RequestOk, SecretsKept, StartedLast
    <3>3. GatesPassed'
      BY <2>1, <2>3, <3>1, GoodStays DEF IInv, GatesPassed
    <3>4. \A j \in DOMAIN config.query : ~(j < 1)
      BY ConfigAssumption DEF IInv, TypeOK, NamedOnce, Listed
    <3>5. ItemsPassed'
      BY <2>3, <3>1, <3>4 DEF ItemsPassed
    <3>6. CtxDeclared'
      <4>1. \A scope \in Scopes : Done(scope)' = {}
        BY <2>3, <3>1, <3>2, <3>4, LaterIs DEF Done
      <4> QED BY <3>1, <4>1, CtxStays DEF IInv
    <3> QED BY <2>3, <3>2, <3>3, <3>5, <3>6, AdvanceKeeps
  <2> QED BY <1>3, <2>2, <2>3 DEF Authenticate
<1>4. CASE BuildBody
  <2>1. stage = "body" /\ (BodyErrors = {} <=> Good("body"))
    BY <1>4, BodyErrorsTell, GoodIs DEF BuildBody, IInv
  <2>2. CASE \E s \in BodyErrors : Reject(s)
    BY <2>1, <2>2, RejectKeeps
  <2>3. CASE BodyErrors = {} /\ stage' = "run"
    <3>1. /\ Moves /\ turn' = turn /\ Good("body")
          /\ ctx' = [ctx EXCEPT !.body = BodyValue]
      BY <1>4, <2>1, <2>3 DEF BuildBody, Reject, Respond
    <3>2. DOMAIN ctx' = DOMAIN ctx /\ \A scope \in Scopes : ctx'[scope] = ctx[scope]
      BY <3>1, LaterIs DEF IInv, TypeOK
    <3>3. TypeOK' /\ SecretsKept' /\ started' = FALSE
      BY <2>1, <2>3, <3>1, <3>2, GoodStays DEF IInv, TypeOK, RequestOk, SecretsKept, StartedLast
    <3>4. GatesPassed' /\ ItemsPassed'
      BY <2>1, <2>3, <3>1, GoodStays DEF IInv, GatesPassed, ItemsPassed, Scopes
    <3>5. CtxDeclared'
      <4>1. \A scope \in Scopes : Done(scope)' \subseteq Done(scope)
        BY <2>1, <2>3, <3>1, LaterIs DEF Done
      <4> QED BY <3>1, <3>2, <4>1, CtxStays DEF IInv
    <3> QED BY <2>3, <3>3, <3>4, <3>5, AdvanceKeeps
  <2> QED BY <1>4, <2>2, <2>3 DEF BuildBody
<1> QED BY <1>2, <1>3, <1>4

\* One round of the loop over a scope.
LEMMA ItemKeeps ==
  ASSUME IInv, NEW scope \in Scopes, stage = scope, turn \in DOMAIN config[scope],
         NEW errors, errors = {} <=> ItemGood(scope, config[scope][turn]),
         NEW given,
         errors = {} => \A n \in {config[scope][turn].name} :
                          /\ n \in DOMAIN given <=> n \in DOMAIN Given(scope)
                          /\ n \in DOMAIN given => given[n] = Given(scope)[n],
         Item(errors, [ctx EXCEPT ![scope] = Keep(ctx[scope], config[scope][turn].name, given)])
  PROVE  IInv'
<1> DEFINE name == config[scope][turn].name
           kept == Keep(ctx[scope], name, given)
<1>1. CASE \E s \in errors : Reject(s)
  <2>1. ~Good(scope)
    BY <1>1, GoodIs
  <2> QED BY <1>1, <2>1, LaterIs, RejectKeeps
<1>2. CASE errors = {} /\ stage' = stage
  <2>1. /\ config' = config /\ secret' = secret /\ verifier' = verifier /\ req' = req
        /\ started' = started /\ answer' = answer /\ turn' = turn + 1
        /\ ctx' = [ctx EXCEPT ![scope] = kept]
    BY <1>2 DEF Item, Reject, Respond
  <2>2. turn \in Nat \ {0} /\ started = FALSE /\ DOMAIN ctx = {"query", "headers", "path", "vars", "body"}
    BY LaterIs DEF IInv, TypeOK, StartedLast
  <2>3. /\ DOMAIN ctx' = DOMAIN ctx /\ ctx'[scope] = kept
        /\ \A other \in Scopes \ {scope} : ctx'[other] = ctx[other]
    <3> HIDE DEF kept
    <3> QED BY <2>1, <2>2, LaterIs
  <2>4. TypeOK'
    BY <1>2, <2>1, <2>2, <2>3 DEF IInv, TypeOK, RequestOk
  <2>5. SecretsKept' /\ GatesPassed'
    BY <1>2, <2>1, LaterIs, GoodStays DEF IInv, SecretsKept, GatesPassed
  <2>6. ItemsPassed'
    <3>1. \A j \in DOMAIN config[scope] : j < turn + 1 => j < turn \/ j = turn
      BY <2>2, LaterIs, ConfigAssumption DEF IInv, TypeOK, NamedOnce, Listed
    <3>2. \A j \in DOMAIN config[scope] : j < turn' => ItemGood(scope, config[scope][j])
      BY <1>2, <2>1, <3>1 DEF IInv, ItemsPassed
    <3> QED BY <1>2, <2>1, <3>2, LaterIs, GoodStays DEF ItemsPassed
  <2>7. CtxDeclared'
    <3>1. DOMAIN kept = DOMAIN ctx[scope] \cup ({name} \cap DOMAIN Given(scope))
      BY <1>2 DEF Keep
    <3>2. \A n \in DOMAIN kept : kept[n] = IF n = name /\ n \in DOMAIN Given(scope)
                                          THEN Given(scope)[n] ELSE ctx[scope][n]
      BY <1>2 DEF Keep
    <3>3. name \in Names(scope)
      BY DEF Names
    <3>4. Done(scope)' = Done(scope) \cup {name}
      <4> DEFINE turned == {k \in DOMAIN config[scope] : k < turn}
      <4>1. {k \in DOMAIN config[scope] : k < turn + 1} = turned \cup {turn}
        BY <2>2, LaterIs, ConfigAssumption DEF IInv, TypeOK, NamedOnce, Listed
      <4>2. Done(scope) = {config[scope][j].name : j \in turned}
        BY <2>2, LaterIs DEF Done
      <4>3. Done(scope)' = {config[scope][j].name : j \in turned \cup {turn}}
        BY <1>2, <2>1, <2>2, <4>1, LaterIs DEF Done
      <4> QED BY <4>2, <4>3
    <3>5. \A other \in Scopes \ {scope} : Done(other)' = Done(other)
      BY <1>2, <2>1 DEF Done
    <3> HIDE DEF kept, name
    <3>6. ASSUME NEW n \in DOMAIN ctx'[scope]
          PROVE  n \in Names(scope) /\ n \in DOMAIN Given(scope) /\ ctx'[scope][n] = Given(scope)[n]
      BY <2>3, <3>1, <3>2, <3>3, <3>6 DEF IInv, CtxDeclared
    <3>7. Done(scope)' \cap DOMAIN Given(scope) \subseteq DOMAIN ctx'[scope]
      BY <2>3, <3>1, <3>4 DEF IInv, CtxDeclared
    <3>8. \A other \in Scopes \ {scope} :
            /\ \A n \in DOMAIN ctx'[other] :
                 n \in Names(other) /\ n \in DOMAIN Given(other) /\ ctx'[other][n] = Given(other)[n]
            /\ Done(other)' \cap DOMAIN Given(other) \subseteq DOMAIN ctx'[other]
      BY <2>3, <3>5 DEF IInv, CtxDeclared
    <3> QED BY <2>1, <3>6, <3>7, <3>8, GoodStays DEF CtxDeclared
  <2> QED BY <1>2, <2>1, <2>2, <2>4, <2>5, <2>6, <2>7, LaterIs, AdvanceKeeps
<1> QED BY <1>1, <1>2 DEF Item

\* A field the code finds and reads where the specification says it is.
LEMMA FieldItemKeeps ==
  ASSUME IInv, NEW scope \in Scopes, stage = scope, turn \in DOMAIN config[scope],
         NEW limit, NEW tooBig,
         ItemGood(scope, config[scope][turn]) <=> FieldGood(config[scope][turn], Given(scope), limit),
         Item(FieldErrors(config[scope][turn], Lookup(Given(scope), config[scope][turn].name), limit, tooBig),
              [ctx EXCEPT ![scope] = Keep(ctx[scope], config[scope][turn].name, Given(scope))])
  PROVE  IInv'
<1> DEFINE errors == FieldErrors(config[scope][turn], Lookup(Given(scope), config[scope][turn].name), limit, tooBig)
<1>1. errors = {} <=> ItemGood(scope, config[scope][turn])
  BY FieldErrorsTell
<1>2. Item(errors, [ctx EXCEPT ![scope] = Keep(ctx[scope], config[scope][turn].name, Given(scope))])
  OBVIOUS
<1> HIDE DEF errors
<1> QED BY <1>1, <1>2, ItemKeeps

LEMMA ItemsKeep ==
  ASSUME IInv, ValidateQuery \/ ValidateHeaders \/ ValidatePath \/ ResolveVars
  PROVE  IInv'
<1>1. /\ turn \in Nat \ {0} /\ NamedOnce(config.query) /\ NamedOnce(config.headers)
      /\ Listed(config.path) /\ NamedOnce(config.vars)
  BY ConfigAssumption DEF IInv, TypeOK
<1>2. CASE ValidateQuery
  <2>1. stage = "query" /\ turn \in DOMAIN config["query"]
    BY <1>1, <1>2 DEF ValidateQuery, NamedOnce, Listed
  <2>2. /\ Given("query") = req.query
        /\ ItemGood("query", config.query[turn]) <=> FieldGood(config.query[turn], req.query, config.maxQuery)
    BY DEF Given, ItemGood
  <2>3. Item(FieldErrors(config.query[turn], Lookup(req.query, config.query[turn].name), config.maxQuery, 414),
             [ctx EXCEPT !["query"] = Keep(ctx["query"], config.query[turn].name, req.query)])
    BY <1>2 DEF ValidateQuery
  <2> QED BY <2>1, <2>2, <2>3, LaterIs, FieldItemKeeps, ZenonT(30)
<1>3. CASE ValidateHeaders
  <2>1. stage = "headers" /\ turn \in DOMAIN config["headers"]
    BY <1>1, <1>3 DEF ValidateHeaders, NamedOnce, Listed
  <2>2. /\ Given("headers") = VisibleHeaders
        /\ ItemGood("headers", config.headers[turn])
             <=> FieldGood(config.headers[turn], VisibleHeaders, config.maxHeader)
    BY DEF Given, ItemGood
  <2>3. Item(FieldErrors(config.headers[turn], Lookup(VisibleHeaders, config.headers[turn].name), config.maxHeader, 431),
             [ctx EXCEPT !["headers"] = Keep(ctx["headers"], config.headers[turn].name, VisibleHeaders)])
    BY <1>3 DEF ValidateHeaders, HeaderGet
  <2>4. Item(FieldErrors(config["headers"][turn], Lookup(Given("headers"), config["headers"][turn].name), config.maxHeader, 431),
             [ctx EXCEPT !["headers"] = Keep(ctx["headers"], config["headers"][turn].name, Given("headers"))])
    BY <2>2, <2>3
  <2>5. ItemGood("headers", config["headers"][turn])
          <=> FieldGood(config["headers"][turn], Given("headers"), config.maxHeader)
    BY <2>2
  <2>6. "headers" \in Scopes
    BY LaterIs
  <2> QED BY <2>1, <2>4, <2>5, <2>6, FieldItemKeeps
<1>4. CASE ValidatePath
  <2> DEFINE f == config["path"][turn]
             errors == {s \in {400} : <<req.path[f.name], f.ty>> \notin Fits}
             given == [n \in {f.name} |-> req.path[n]]
  <2>1. stage = "path" /\ turn \in DOMAIN config["path"]
    BY <1>1, <1>4 DEF ValidatePath, NamedOnce, Listed
  <2>2. errors = {} <=> ItemGood("path", f)
    BY DEF ItemGood
  <2>3. f.name \in DOMAIN req.path
    BY <2>1 DEF IInv, TypeOK, RequestOk
  <2>4. \A n \in {f.name} : /\ n \in DOMAIN given <=> n \in DOMAIN Given("path")
                            /\ n \in DOMAIN given => given[n] = Given("path")[n]
    BY <2>3 DEF Given
  <2>5. Item(errors, [ctx EXCEPT !["path"] = Keep(ctx["path"], f.name, given)])
    BY <1>4 DEF ValidatePath
  <2> HIDE DEF errors, given
  <2> QED BY <2>1, <2>2, <2>4, <2>5, LaterIs, ItemKeeps
<1>5. CASE ResolveVars
  <2> DEFINE v == config["vars"][turn]
             errors == SourceErrors(v.source)
             given(x) == [n \in {v.name} |-> x]
  <2>1. stage = "vars" /\ turn \in DOMAIN config["vars"]
    BY <1>1, <1>5 DEF ResolveVars, NamedOnce, Listed
  <2>2. SourceKind(v.source)
    BY <2>1, ConfigAssumption DEF IInv, TypeOK
  <2>3. errors = {} <=> ItemGood("vars", v)
    BY <2>2, SourceErrorsTell DEF ItemGood
  <2>4. CASE \E s \in errors : Reject(s)
    <3>1. ~Good("vars")
      BY <2>1, <2>3, <2>4, GoodIs, LaterIs
    <3> QED BY <2>1, <2>4, <3>1, RejectKeeps
  <2>5. CASE \E x \in Runtime(v.source) :
               Item(errors, [ctx EXCEPT !["vars"] = Keep(ctx["vars"], v.name, given(x))])
    <3>1. PICK x \in Runtime(v.source) :
            Item(errors, [ctx EXCEPT !["vars"] = Keep(ctx["vars"], v.name, given(x))])
      BY <2>5
    <3>2. ASSUME errors = {}
          PROVE  v.name \in DOMAIN VarMeanings /\ VarMeanings[v.name] = x
      <4>1. Bound(v.source)
        BY <2>2, <3>2, SourceErrorsTell
      <4>2. x = Meaning(v.source)
        BY <2>2, HeaderGetVisible DEF SourceKind, Runtime, Meaning, Lookup
      <4>3. turn \in BoundVars
        BY <2>1, <4>1 DEF BoundVars
      <4>4. \A j \in BoundVars : config.vars[j].name = v.name => j = turn
        BY <1>1, <2>1 DEF BoundVars, NamedOnce, Listed
      <4>5. (CHOOSE j \in BoundVars : config.vars[j].name = v.name) = turn
        BY <4>3, <4>4
      <4>6. v.name \in DOMAIN VarMeanings
        BY <4>3 DEF VarMeanings
      <4> QED BY <4>2, <4>3, <4>5, <4>6 DEF VarMeanings
    <3>3. errors = {} => \A n \in {v.name} :
            /\ n \in DOMAIN given(x) <=> n \in DOMAIN Given("vars")
            /\ n \in DOMAIN given(x) => given(x)[n] = Given("vars")[n]
      BY <3>2 DEF Given
    <3> HIDE DEF errors, given
    <3> QED BY <2>1, <2>3, <3>1, <3>3, LaterIs, ItemKeeps
  <2> QED BY <1>5, <2>4, <2>5 DEF ResolveVars
<1> QED BY <1>2, <1>3, <1>4, <1>5

LEMMA ScopeDoneKeeps ==
  ASSUME IInv, ScopeDone
  PROVE  IInv'
<1>1. /\ config' = config /\ secret' = secret /\ verifier' = verifier /\ req' = req
      /\ ctx' = ctx /\ answer' = answer /\ started' = FALSE /\ turn' = 1
      /\ stage \in Scopes /\ stage' = After[stage] /\ turn > Len(config[stage])
  BY DEF ScopeDone, IInv, TypeOK, StartedLast, Scopes
<1>2. /\ NamedOnce(config.query) /\ NamedOnce(config.headers)
      /\ Listed(config.path) /\ NamedOnce(config.vars)
  BY ConfigAssumption DEF IInv, TypeOK
<1>3. \A scope \in Scopes : Listed(config[scope])
  BY <1>2, LaterIs DEF NamedOnce
<1>4. \A j \in DOMAIN config[stage] : j < turn
  BY <1>1, <1>3 DEF NamedOnce, Listed, IInv, TypeOK
<1>5. \A scope \in Scopes : \A j \in DOMAIN config[scope] : ~(j < 1)
  BY <1>3 DEF NamedOnce, Listed
<1>6. /\ stage = "query" => stage' = "headers"
      /\ stage = "headers" => stage' = "path"
      /\ stage = "path" => stage' = "vars"
      /\ stage = "vars" => stage' = "body"
  BY <1>1 DEF After
<1>7. TypeOK'
  <2>1. started' \in BOOLEAN /\ turn' \in Nat \ {0}
    <3>1. started' = FALSE /\ turn' = 1
      BY <1>1
    <3>2. started' \in BOOLEAN
      BY <3>1
    <3> QED BY <3>1, <3>2
  <2>2. stage' \in {"headers", "path", "vars", "body"}
    BY <1>1, <1>6, LaterIs
  <2> QED BY <1>1, <2>1, <2>2 DEF IInv, TypeOK, RequestOk
<1>8. Good(stage)
  BY <1>1, <1>4, GoodIs DEF IInv, ItemsPassed
<1>9. SecretsKept'
  BY <1>1, <1>6, LaterIs, GoodStays DEF IInv, SecretsKept
<1>10. GatesPassed'
  BY <1>1, <1>6, <1>8, LaterIs, GoodStays DEF IInv, GatesPassed
<1>11. ItemsPassed'
  BY <1>1, <1>5, <1>6, LaterIs DEF ItemsPassed
<1>12. CtxDeclared'
  <2>1. ASSUME NEW scope \in Scopes PROVE Done(scope)' \subseteq Done(scope)
    <3>1. ASSUME NEW k \in DOMAIN config[scope],
                 stage' \in Later[scope] \/ started' \/ (stage' = scope /\ k < turn')
          PROVE  stage \in Later[scope] \/ started \/ (stage = scope /\ k < turn)
      <4>1. stage' \in Later[scope]
        BY <1>1, <1>5, <3>1
      <4>2. stage \in Later[scope] \/ stage = scope
        BY <1>1, <1>6, <4>1, LaterIs
      <4> QED BY <1>4, <4>2
    <3> QED BY <1>1, <3>1 DEF Done
  <2> QED BY <1>1, <2>1, CtxStays DEF IInv
<1> QED BY <1>1, <1>6, <1>7, <1>9, <1>10, <1>11, <1>12, LaterIs, AdvanceKeeps

LEMMA RunKeeps ==
  ASSUME IInv, DryRun \/ NotStarted \/ Execute
  PROVE  IInv'
<1>1. CASE DryRun \/ NotStarted
  BY <1>1, RejectKeeps DEF DryRun, NotStarted
<1>2. CASE Execute
  <2>1. /\ config' = config /\ secret' = secret /\ verifier' = verifier /\ req' = req
        /\ ctx' = ctx /\ turn' = turn /\ started' = TRUE /\ stage = "run" /\ stage' = "answered"
        /\ answer'.at = "run" /\ ~config.dryRun
    BY <1>2 DEF Execute, Respond
  <2>2. started' \in BOOLEAN
    BY <2>1
  <2>3. TypeOK'
    BY <2>1, <2>2 DEF IInv, TypeOK, RequestOk
  <2>4. SecretsKept' /\ GatesPassed' /\ ItemsPassed' /\ StartedLast'
    BY <2>1, GoodStays DEF IInv, SecretsKept, GatesPassed, ItemsPassed, StartedLast, Scopes
  <2>5. \A scope \in Scopes : /\ Done(scope)' = Names(scope) /\ Done(scope) = Names(scope)
    BY <2>1, LaterIs DEF Done, Names
  <2>6. CtxDeclared'
    BY <2>1, <2>5, CtxStays DEF IInv
  <2>7. AllGood
    BY <2>1 DEF IInv, GatesPassed, AllGood
  <2>8. AllGood'
    BY <2>1, <2>7, GoodStays DEF AllGood
  <2>9. FirstDefectAnswers'
    <3>1. FirstDefect'
      BY <2>1, <2>8 DEF FirstDefect
    <3> QED BY <3>1, FirstDefectIs, PTL
  <2>10. ExecutesOnlyGood'
    <3>1. (\A k \in DOMAIN Gates : Good(Gates[k]))'
      BY <2>8, GatesAre, PTL
    <3>2. ASSUME NEW scope \in Scopes
          PROVE  /\ DOMAIN ctx'[scope] = Names(scope)' \cap DOMAIN Given(scope)'
                 /\ \A n \in DOMAIN ctx'[scope] : ctx'[scope][n] = Given(scope)'[n]
      <4>1. Names(scope)' = Names(scope) /\ Given(scope)' = Given(scope)
        BY <2>1, GoodStays
      <4> QED BY <2>1, <2>5, <4>1 DEF IInv, CtxDeclared
    <3> QED BY <2>1, <3>1, <3>2 DEF ExecutesOnlyGood
  <2> QED BY <2>3, <2>4, <2>6, <2>9, <2>10 DEF IInv
<1> QED BY <1>1, <1>2

LEMMA StutterKeeps ==
  ASSUME IInv, UNCHANGED <<config, secret, verifier, stage, turn, req, ctx, answer, started>>
  PROVE  IInv'
<1>1. TypeOK' /\ SecretsKept' /\ GatesPassed' /\ ItemsPassed' /\ StartedLast'
  BY GoodStays DEF IInv, TypeOK, RequestOk, SecretsKept, GatesPassed, ItemsPassed, StartedLast
<1>2. \A scope \in Scopes : Done(scope)' = Done(scope)
  BY DEF Done
<1>3. CtxDeclared'
  BY <1>2, CtxStays DEF IInv
<1>4. ExecutesOnlyGood'
  <2>1. started => AllGood
    BY GatesAre DEF IInv, ExecutesOnlyGood
  <2>2. started => AllGood'
    BY <2>1, GoodStays DEF AllGood
  <2>3. started => (\A k \in DOMAIN Gates : Good(Gates[k]))'
    BY <2>2, GatesAre, PTL
  <2> QED BY <2>3, GoodStays DEF IInv, ExecutesOnlyGood
<1>5. FirstDefectAnswers'
  <2>1. FirstDefect
    BY FirstDefectIs DEF IInv
  <2>2. FirstDefect'
    BY <2>1, GoodStays DEF FirstDefect, AllGood
  <2> QED BY <2>2, FirstDefectIs, PTL
<1> QED BY <1>1, <1>3, <1>4, <1>5 DEF IInv

\* A server that has not been asked anything.
Untouched ==
  /\ config \in Configs /\ RequestOk /\ turn = 1
  /\ ctx = EmptyCtx /\ answer = NoAnswer /\ started = FALSE

LEMMA UntouchedHolds ==
  ASSUME Untouched, stage \in {"starting", "down"}
  PROVE  IInv
<1>1. RequestOk
  BY DEF Untouched
<1>2. DOMAIN ctx = {"query", "headers", "path", "vars", "body"}
  BY DEF Untouched, EmptyCtx
<1>3. TypeOK
  <2>1. started \in BOOLEAN
    BY DEF Untouched
  <2> QED BY <1>1, <1>2, <2>1 DEF Untouched, TypeOK, NoAnswer
<1>4. SecretsKept /\ GatesPassed /\ ItemsPassed /\ StartedLast
  BY DEF Untouched, SecretsKept, GatesPassed, ItemsPassed, StartedLast, Scopes
<1>5. CtxDeclared
  <2>1. \A scope \in Scopes : DOMAIN ctx[scope] = {}
    BY DEF Untouched, EmptyCtx, Scopes
  <2>2. \A scope \in Scopes : Done(scope) = {}
    BY DEF Untouched, Done, Later, Scopes
  <2> QED BY <2>1, <2>2 DEF CtxDeclared
<1>6. ExecutesOnlyGood /\ FirstDefectAnswers
  BY DEF Untouched, ExecutesOnlyGood, FirstDefectAnswers
<1> QED BY <1>3, <1>4, <1>5, <1>6 DEF IInv

LEMMA InitHolds == Init => IInv
<1> SUFFICES ASSUME Init PROVE IInv
  OBVIOUS
<1>1. req \in Requests
  BY RequestAssumption DEF Init
<1>2. Untouched /\ stage = "starting"
  BY <1>1, RequestAssumption DEF Init, Untouched, RequestOk
<1> QED BY <1>2, UntouchedHolds

\* Every step of serve and handle_inner keeps the invariant.
LEMMA StepKeeps ==
  ASSUME IInv, [Next]_gateVars
  PROVE  IInv'
<1>1. CASE Next
  BY <1>1, StartKeeps, EntryKeeps, ItemsKeep, ScopeDoneKeeps, RunKeeps DEF Next
<1>2. CASE UNCHANGED gateVars
  <2>1. UNCHANGED <<config, secret, verifier, stage, turn, req, ctx, answer, started>>
    BY <1>2 DEF gateVars
  <2> QED BY <1>2, <2>1, StutterKeeps
<1> QED BY <1>1, <1>2

\* So it always holds.
THEOREM Inductive == Spec => []IInv
  BY InitHolds, StepKeeps, PTL DEF Spec

\* A command is only started for a request that is good at every gate, never
\* under --dry-run, and with the request's own values (server.rs:177-292).
THEOREM OnlyGoodExecutes == Spec => []ExecutesOnlyGood
<1>1. IInv => ExecutesOnlyGood
  BY DEF IInv
<1> QED BY <1>1, Inductive, PTL

\* The answer of a gate is that of the first gate the request is not good at
\* (server.rs:177-186).
THEOREM FirstDefectIsTold == Spec => []FirstDefectAnswers
<1>1. IInv => FirstDefectAnswers
  BY DEF IInv
<1> QED BY <1>1, Inductive, PTL
----------------------------------------------------------------------------
(* Why a status is given. *)

\* What the status `s` of an answer given at `at` says of the request.
Why(s, at) ==
  /\ s = 414 => \E n \in Names("query") \cap DOMAIN req.query : ~Within(req.query[n], config.maxQuery)
  /\ s = 431 => \E n \in DOMAIN VisibleHeaders : ~Within(VisibleHeaders[n], config.maxHeader)
  /\ s = 401 => \E h \in config.auth : h \in DOMAIN VisibleHeaders => ~TokenGood(Bearer(VisibleHeaders[h]))
  /\ s = 500 /\ at = "vars" =>
       \E j \in DOMAIN config.vars :
         config.vars[j].source.kind = "env" /\ ~Bound(config.vars[j].source)

\* The reasons are a matter of the specification and the request.
LEMMA WhyStays ==
  ASSUME config' = config, req' = req
  PROVE  /\ StatusTellsWhy <=> Why(answer.status, answer.at)
         /\ StatusTellsWhy' <=> Why(answer'.status, answer'.at)
<1>1. StatusTellsWhy <=> Why(answer.status, answer.at)
  BY DEF StatusTellsWhy, Why
<1>2. VisibleHeaders' = VisibleHeaders /\ Names("query")' = Names("query")
  BY GoodStays DEF VisibleHeaders
<1>3. \A src : (Bound(src)' <=> Bound(src)) /\ Meaning(src)' = Meaning(src)
  BY GoodStays
<1>4. \A t : TokenGood(t)' <=> TokenGood(t)
  BY <1>3 DEF TokenGood
<1>5. StatusTellsWhy' <=> Why(answer'.status, answer'.at)
  BY <1>2, <1>3, <1>4 DEF StatusTellsWhy, Why
<1> QED BY <1>1, <1>5

\* A step that answers, and a step that does not.
LEMMA AnswerTells ==
  ASSUME NEW s, Respond(s), Why(s, stage)
  PROVE  StatusTellsWhy'
<1>1. config' = config /\ req' = req /\ answer'.status = s /\ answer'.at = stage
  BY DEF Respond
<1> QED BY <1>1, WhyStays

LEMMA SilenceTells ==
  ASSUME StatusTellsWhy, config' = config, req' = req, answer' = answer
  PROVE  StatusTellsWhy'
  BY WhyStays

\* What an error of a declared field means (server.rs:341-379).
LEMMA FieldWhy ==
  ASSUME NEW f, NEW given, NEW limit, NEW tooBig,
         NEW s \in FieldErrors(f, Lookup(given, f.name), limit, tooBig)
  PROVE  s = 400 \/ (s = tooBig /\ f.name \in DOMAIN given /\ ~Within(given[f.name], limit))
<1>1. \A v \in Lookup(given, f.name) : f.name \in DOMAIN given /\ v = given[f.name]
  BY DEF Lookup
<1>2. \A v : Exceeds(Len(v), limit) <=> ~Within(v, limit)
  BY DEF Exceeds, Within
<1> QED BY <1>1, <1>2 DEF FieldErrors

\* What a refusal of authenticate means (server.rs:318-339, 649-699).
LEMMA AuthWhy ==
  ASSUME TypeOK, SecretsKept, stage = "auth", NEW s \in AuthErrors
  PROVE  Why(s, "auth")
<1> DEFINE Visible(h) == h \in DOMAIN VisibleHeaders
<1>1. PICK h \in config.auth :
        \/ s = 401 /\ HeaderGet(h) = {}
        \/ s = 431 /\ \E v \in HeaderGet(h) : Exceeds(Len(v), config.maxHeader)
        \/ s = 401 /\ \E v \in HeaderGet(h) : Bearer(v) = <<>> \/ ~Verified(Bearer(v))
  BY DEF AuthErrors
<1>2. HeaderGet(h) = Lookup(VisibleHeaders, h)
  BY HeaderGetVisible
<1>3. \A v \in HeaderGet(h) : Visible(h) /\ v = VisibleHeaders[h]
  BY <1>2 DEF Lookup
<1>4. CASE HeaderGet(h) = {} /\ s = 401
  <2>1. ~Visible(h)
    BY <1>2, <1>4 DEF Lookup
  <2> QED BY <1>4, <2>1 DEF Why
<1>5. CASE s = 431 /\ \E v \in HeaderGet(h) : Exceeds(Len(v), config.maxHeader)
  <2>1. Visible(h) /\ ~Within(VisibleHeaders[h], config.maxHeader)
    BY <1>3, <1>5 DEF Exceeds, Within
  <2> QED BY <1>5, <2>1 DEF Why
<1>6. CASE s = 401 /\ \E v \in HeaderGet(h) : Bearer(v) = <<>> \/ ~Verified(Bearer(v))
  <2>1. ~TokenGood(Bearer(VisibleHeaders[h]))
    BY <1>3, <1>6, VerifiedTells
  <2> QED BY <1>6, <2>1 DEF Why
<1> QED BY <1>1, <1>4, <1>5, <1>6

\* What an error of a VAR's source means (server.rs:712-741).
LEMMA SourceWhy ==
  ASSUME NEW j \in DOMAIN config.vars, SourceKind(config.vars[j].source),
         NEW s \in SourceErrors(config.vars[j].source)
  PROVE  Why(s, "vars")
<1> DEFINE src == config.vars[j].source
<1>1. \/ s = 500 /\ src.kind = "env" /\ Runtime(src) = {}
      \/ s = 400
      \/ s = 431 /\ src.kind = "header" /\ \E v \in Runtime(src) : Exceeds(Len(v), config.maxHeader)
  BY DEF SourceErrors
<1>2. CASE s = 500 /\ src.kind = "env" /\ Runtime(src) = {}
  <2>1. ~Bound(src)
    BY <1>2 DEF Runtime, Lookup, Bound
  <2> QED BY <1>2, <2>1 DEF Why
<1>3. CASE s = 431 /\ src.kind = "header" /\ \E v \in Runtime(src) : Exceeds(Len(v), config.maxHeader)
  <2>1. Runtime(src) = Lookup(VisibleHeaders, src.name)
    BY <1>3, HeaderGetVisible DEF Runtime
  <2>2. src.name \in DOMAIN VisibleHeaders /\ ~Within(VisibleHeaders[src.name], config.maxHeader)
    BY <1>3, <2>1 DEF Lookup, Exceeds, Within
  <2> QED BY <1>3, <2>2 DEF Why
<1>4. CASE s = 400
  BY <1>4 DEF Why
<1> QED BY <1>1, <1>2, <1>3, <1>4

\* A body is refused with 400 or 415 (server.rs:444-483).
LEMMA BodyWhy ==
  ASSUME TypeOK, NEW s \in BodyErrors
  PROVE  s \in {400, 415}
<1>1. \A fields : FormErrors(fields) \subseteq {400, 415} /\ FormFieldErrors(fields) \subseteq {400, 415}
  BY DEF FormErrors, FormFieldErrors
<1>2. \A v, fields : SchemaErrors(v, fields) \subseteq {400, 415}
  BY DEF SchemaErrors
<1>3. config.body.kind \in {"none", "binary", "string", "json", "form"}
  BY ConfigAssumption DEF TypeOK
<1>4. CASE config.body.kind \in {"none", "binary"}
  BY <1>4 DEF BodyErrors
<1>5. CASE config.body.kind = "string"
  BY <1>5 DEF BodyErrors
<1>6. CASE config.body.kind = "json"
  BY <1>2, <1>6 DEF BodyErrors
<1>7. CASE config.body.kind = "form"
  BY <1>1, <1>7 DEF BodyErrors
<1> QED BY <1>3, <1>4, <1>5, <1>6, <1>7

LEMMA ItemsTell ==
  ASSUME IInv, StatusTellsWhy, ValidateQuery \/ ValidateHeaders \/ ValidatePath \/ ResolveVars
  PROVE  StatusTellsWhy'
<1>1. /\ turn \in Nat \ {0} /\ NamedOnce(config.query) /\ NamedOnce(config.headers)
      /\ Listed(config.path) /\ NamedOnce(config.vars)
  BY ConfigAssumption DEF IInv, TypeOK
<1>2. CASE ValidateQuery
  <2> DEFINE f == config.query[turn]
             errors == FieldErrors(f, Lookup(req.query, f.name), config.maxQuery, 414)
  <2>1. stage = "query" /\ turn \in DOMAIN config.query
    BY <1>1, <1>2 DEF ValidateQuery, NamedOnce, Listed
  <2>2. CASE \E s \in errors : Reject(s)
    <3>1. PICK s \in errors : Reject(s)
      BY <2>2
    <3>2. f.name \in Names("query")
      BY <2>1 DEF Names
    <3> HIDE DEF f
    <3>3. s = 400 \/ (s = 414 /\ f.name \in DOMAIN req.query /\ ~Within(req.query[f.name], config.maxQuery))
      BY FieldWhy
    <3>4. Why(s, stage)
      BY <2>1, <3>2, <3>3 DEF Why
    <3> QED BY <3>1, <3>4, AnswerTells DEF Reject
  <2>3. CASE config' = config /\ req' = req /\ answer' = answer
    BY <2>3, SilenceTells
  <2> QED BY <1>2, <2>2, <2>3 DEF ValidateQuery, Item
<1>3. CASE ValidateHeaders
  <2> DEFINE f == config.headers[turn]
             errors == FieldErrors(f, Lookup(VisibleHeaders, f.name), config.maxHeader, 431)
  <2>1. stage = "headers" /\ HeaderGet(f.name) = Lookup(VisibleHeaders, f.name)
    BY <1>3, HeaderGetVisible DEF ValidateHeaders
  <2>2. CASE \E s \in errors : Reject(s)
    <3>1. PICK s \in errors : Reject(s)
      BY <2>2
    <3>2. s = 400 \/ (s = 431 /\ f.name \in DOMAIN VisibleHeaders
                         /\ ~Within(VisibleHeaders[f.name], config.maxHeader))
      BY FieldWhy
    <3>3. Why(s, stage)
      BY <2>1, <3>2 DEF Why
    <3> QED BY <3>1, <3>3, AnswerTells DEF Reject
  <2>3. CASE config' = config /\ req' = req /\ answer' = answer
    BY <2>3, SilenceTells
  <2> QED BY <1>3, <2>1, <2>2, <2>3 DEF ValidateHeaders, Item
<1>4. CASE ValidatePath
  <2>1. CASE \E s \in {400} : Reject(s)
    <3>1. Why(400, stage)
      BY DEF Why
    <3> QED BY <2>1, <3>1, AnswerTells DEF Reject
  <2>2. CASE config' = config /\ req' = req /\ answer' = answer
    BY <2>2, SilenceTells
  <2> QED BY <1>4, <2>1, <2>2 DEF ValidatePath, Item
<1>5. CASE ResolveVars
  <2> DEFINE src == config.vars[turn].source
  <2>1. stage = "vars" /\ turn \in DOMAIN config.vars
    BY <1>1, <1>5 DEF ResolveVars, NamedOnce, Listed
  <2>2. SourceKind(src)
    BY <2>1, ConfigAssumption DEF IInv, TypeOK
  <2>3. CASE \E s \in SourceErrors(src) : Reject(s)
    <3>1. PICK s \in SourceErrors(src) : Reject(s)
      BY <2>3
    <3>2. Why(s, stage)
      BY <2>1, <2>2, SourceWhy
    <3> QED BY <3>1, <3>2, AnswerTells DEF Reject
  <2>4. CASE config' = config /\ req' = req /\ answer' = answer
    BY <2>4, SilenceTells
  <2> QED BY <1>5, <2>3, <2>4 DEF ResolveVars, Item
<1> QED BY <1>2, <1>3, <1>4, <1>5

\* A status says what is wrong with the request, or with the server's own configuration
\* (server.rs:318-404, 649-741): every answer is given with its reason, and no step
\* between two answers changes the specification or the request.
THEOREM StatusIsTrue == Spec => []StatusTellsWhy
<1>1. Init => StatusTellsWhy
  BY DEF Init, NoAnswer, StatusTellsWhy
<1>2. ASSUME IInv, StatusTellsWhy, Next PROVE StatusTellsWhy'
  <2>1. CASE Serve \/ ServeFails \/ ScopeDone
    BY <1>2, <2>1, SilenceTells DEF Serve, ServeFails, ScopeDone
  <2>2. CASE Accept
    <3>1. answer' = NoAnswer
      BY <2>2 DEF Accept
    <3> QED BY <3>1 DEF StatusTellsWhy, NoAnswer
  <2>3. CASE Extract
    <3>1. Why(400, stage) /\ Why(413, stage)
      BY DEF Why
    <3> QED BY <1>2, <2>3, <3>1, AnswerTells, SilenceTells DEF Extract, Reject
  <2>4. CASE Authenticate
    <3>1. \A s \in AuthErrors : Why(s, stage)
      BY <1>2, <2>4, AuthWhy DEF Authenticate, IInv
    <3> QED BY <1>2, <2>4, <3>1, AnswerTells, SilenceTells DEF Authenticate, Reject
  <2>5. CASE ValidateQuery \/ ValidateHeaders \/ ValidatePath \/ ResolveVars
    BY <1>2, <2>5, ItemsTell
  <2>6. CASE BuildBody
    <3>1. \A s \in BodyErrors : Why(s, stage)
      BY <1>2, BodyWhy DEF IInv, Why
    <3> QED BY <1>2, <2>6, <3>1, AnswerTells, SilenceTells DEF BuildBody, Reject
  <2>7. CASE DryRun \/ NotStarted \/ Execute
    <3>1. stage = "run" /\ \E s \in {200, 500} : Respond(s)
      BY <2>7 DEF DryRun, NotStarted, Execute, Reject
    <3>2. Why(200, stage) /\ Why(500, stage)
      BY <3>1 DEF Why
    <3> QED BY <3>1, <3>2, AnswerTells
  <2> QED BY <1>2, <2>1, <2>2, <2>3, <2>4, <2>5, <2>6, <2>7 DEF Next
<1>3. ASSUME StatusTellsWhy, UNCHANGED gateVars PROVE StatusTellsWhy'
  BY <1>3, SilenceTells DEF gateVars
<1> QED BY <1>1, <1>2, <1>3, Inductive, PTL DEF Spec
----------------------------------------------------------------------------
(* The ranges of what a command gets. *)

\* The context's body is build_body's from there on.
BodyKept == stage = "run" \/ started => ctx.body = BodyValue

LEMMA BodyStays ==
  ASSUME IInv, BodyKept, [Next]_gateVars
  PROVE  BodyKept'
<1>1. started => stage = "answered"
  BY DEF IInv, StartedLast
<1>2. config' = config /\ req' = req => BodyValue' = BodyValue
  BY DEF BodyValue, ParsedForm
<1>3. ASSUME stage' # "run", started' => started, config' = config, req' = req, ctx' = ctx
      PROVE  BodyKept'
  BY <1>2, <1>3 DEF BodyKept
<1>4. CASE Serve \/ ServeFails
  BY <1>3, <1>4 DEF Serve, ServeFails
<1>5. CASE Accept
  BY <1>5 DEF Accept, BodyKept
<1>6. \A s : Reject(s) => BodyKept'
  BY <1>3 DEF Reject, Respond
<1>7. CASE Extract \/ Authenticate
  BY <1>3, <1>6, <1>7 DEF Extract, Authenticate
<1>8. ASSUME NEW errors, NEW newCtx, Item(errors, newCtx), stage \in Scopes PROVE BodyKept'
  <2>1. CASE \E s \in errors : Reject(s)
    BY <1>6, <2>1
  <2>2. CASE stage' = stage /\ started' = started
    BY <1>1, <1>8, <2>2 DEF BodyKept, Scopes
  <2> QED BY <1>8, <2>1, <2>2 DEF Item
<1>9. CASE ValidateQuery \/ ValidateHeaders \/ ValidatePath
  BY <1>8, <1>9 DEF ValidateQuery, ValidateHeaders, ValidatePath, Scopes
<1>10. CASE ResolveVars
  <2>1. stage \in Scopes
    BY <1>10 DEF ResolveVars, Scopes
  <2> QED BY <1>6, <1>8, <1>10, <2>1 DEF ResolveVars
<1>11. CASE ScopeDone
  BY <1>3, <1>11 DEF ScopeDone, After, Scopes
<1>12. CASE BuildBody
  <2>1. CASE \E s \in BodyErrors : Reject(s)
    BY <1>6, <2>1
  <2>2. CASE ctx' = [ctx EXCEPT !.body = BodyValue] /\ UNCHANGED <<config, req>>
    <3>1. "body" \in DOMAIN ctx
      BY DEF IInv, TypeOK
    <3>2. ctx'.body = BodyValue
      BY <2>2, <3>1
    <3> QED BY <1>2, <2>2, <3>2 DEF BodyKept
  <2> QED BY <1>12, <2>1, <2>2 DEF BuildBody
<1>13. CASE DryRun \/ NotStarted
  BY <1>6, <1>13 DEF DryRun, NotStarted
<1>14. CASE Execute
  <2>1. stage = "run" /\ UNCHANGED <<config, req, ctx>>
    BY <1>14 DEF Execute, Respond
  <2> QED BY <1>2, <2>1 DEF BodyKept
<1>15. CASE UNCHANGED gateVars
  BY <1>2, <1>15 DEF gateVars, BodyKept
<1> QED BY <1>4, <1>5, <1>7, <1>9, <1>10, <1>11, <1>12, <1>13, <1>14, <1>15 DEF Next

\* A number below nothing and above nothing is in the range, or is not a number.
LEMMA FloatInRange ==
  ASSUME NEW x, NEW t \in DOMAIN TypeOf, TypeOf[t].kind = "floatrange",
         IsNaN(x) \/ (x = Number(x.n) /\ x.n \in Int), FloatIn(x, TypeOf[t])
  PROVE  InRange(x, TypeOf[t])
<1> DEFINE min == TypeOf[t].min
           max == TypeOf[t].max
<1>1. min \in Int /\ max \in Int
  BY TypesAssumption
<1>2. \A n \in Int : ~IsNaN(Number(n)) /\ Number(n).n = n
  <2>1. ASSUME NEW n \in Int PROVE ~IsNaN(Number(n)) /\ Number(n).n = n
    <3>1. Number(n).nan = FALSE /\ Number(n).n = n
      BY DEF Number
    <3>2. [nan |-> TRUE].nan = TRUE
      OBVIOUS
    <3> QED BY <3>1, <3>2 DEF IsNaN
  <2> QED BY <2>1
<1>3. ~Below(x, Number(min)) /\ ~Below(Number(max), x)
  BY DEF FloatIn
<1>4. ~IsNaN(x) => ~(x.n < min) /\ ~(max < x.n) /\ x.n \in Int
  BY <1>1, <1>2, <1>3 DEF Below
<1> QED BY <1>1, <1>4 DEF InRange

\* What value.rs accepts of a text is in the type's range.
LEMMA TextFits ==
  ASSUME NEW v, NEW t \in DOMAIN TypeOf, ValidateText(v, TypeOf[t])
  PROVE  TextInRange(v, TypeOf[t])
<1>1. CASE TypeOf[t].kind = "intrange"
  <2>1. v \in DOMAIN IntOf /\ ~(IntOf[v] < TypeOf[t].min \/ IntOf[v] > TypeOf[t].max)
    BY <1>1 DEF ValidateText
  <2>2. TypeOf[t].min \in Int /\ TypeOf[t].max \in Int /\ IntOf[v] \in Int
    BY <1>1, <2>1, TypesAssumption
  <2>3. IntOf[v] \in TypeOf[t].min..TypeOf[t].max
    BY <2>1, <2>2
  <2> QED BY <1>1, <2>3 DEF TextInRange
<1>2. CASE TypeOf[t].kind = "floatrange"
  <2>1. v \in DOMAIN FloatOf /\ FloatIn(FloatOf[v], TypeOf[t])
    BY <1>2 DEF ValidateText
  <2>2. InRange(FloatOf[v], TypeOf[t])
    BY <1>2, <2>1, TypesAssumption, FloatInRange
  <2> QED BY <1>2, <2>2 DEF TextInRange
<1>3. CASE TypeOf[t].kind \notin {"intrange", "floatrange"}
  BY <1>3 DEF TextInRange
<1> QED BY <1>1, <1>2, <1>3

\* And of a JSON scalar.
LEMMA JsonFits ==
  ASSUME NEW j \in DOMAIN JsonOf, NEW t \in DOMAIN TypeOf, ValidateJson(JsonOf[j], TypeOf[t])
  PROVE  JsonInRange(JsonOf[j], TypeOf[t])
<1> DEFINE x == JsonOf[j]
<1>1. CASE TypeOf[t].kind = "intrange"
  <2>1. ValidateText(x.text, TypeOf[t])
    BY <1>1 DEF ValidateJson
  <2>2. TextInRange(x.text, TypeOf[t])
    BY <2>1, TextFits
  <2> QED BY <1>1, <2>2 DEF TextInRange, JsonInRange
<1>2. CASE TypeOf[t].kind = "floatrange"
  <2>1. AsFloat(x) /\ ValidateText(Shown[x.value], TypeOf[t])
    BY <1>2 DEF ValidateJson
  <2>2. ~IsNaN(x.value) /\ x.value \in DOMAIN Shown
    BY <2>1, TypesAssumption
  <2>3. TextInRange(Shown[x.value], TypeOf[t])
    BY <2>1, TextFits
  <2>4. FloatOf[Shown[x.value]] = x.value
    BY <2>2, TypesAssumption
  <2>5. InRange(x.value, TypeOf[t])
    BY <1>2, <2>3, <2>4 DEF TextInRange
  <2> QED BY <1>2, <2>2, <2>5 DEF JsonInRange
<1>3. CASE TypeOf[t].kind \notin {"intrange", "floatrange"}
  BY <1>3 DEF JsonInRange
<1> QED BY <1>1, <1>2, <1>3

\* So is every text that fits.
LEMMA FitsInRange ==
  ASSUME NEW v, NEW t, <<v, t>> \in Fits
  PROVE  TextInRange(v, TypeOf[t])
<1>1. t \in DOMAIN TypeOf /\ ValidateText(v, TypeOf[t])
  BY DataAssumption
<1> QED BY <1>1, TextFits

LEMMA FitsJsonInRange ==
  ASSUME NEW j, NEW t, <<j, t>> \in FitsJson
  PROVE  JsonInRange(JsonOf[j], TypeOf[t])
<1>1. j \in DOMAIN JsonOf /\ t \in DOMAIN TypeOf /\ ValidateJson(JsonOf[j], TypeOf[t])
  BY DataAssumption DEF FitsJsonAll
<1> QED BY <1>1, JsonFits

\* A plain type has no range.
LEMMA PlainInRange ==
  ASSUME NEW t \in {"string", "json", "binary"} \cap DOMAIN TypeOf
  PROVE  (\A v : TextInRange(v, TypeOf[t])) /\ (\A j : JsonInRange(j, TypeOf[t]))
<1>1. TypeOf[t].kind \notin {"intrange", "floatrange"}
  BY DataAssumption
<1> QED BY <1>1 DEF TextInRange, JsonInRange

\* A step of the handler reads its request and leaves it, and does not come up again.
LEMMA HandlerKeeps ==
  ASSUME Handler
  PROVE  UNCHANGED <<config, req>> /\ (stage = "down" => stage' = "down")
<1>1. ASSUME NEW s, Reject(s) PROVE UNCHANGED <<config, req>>
  BY <1>1 DEF Reject, Respond
<1>2. ASSUME NEW errors, NEW new, Item(errors, new) PROVE UNCHANGED <<config, req>>
  BY <1>1, <1>2 DEF Item
<1>3. CASE Serve \/ ServeFails \/ ScopeDone
  BY <1>3 DEF Serve, ServeFails, ScopeDone, Scopes
<1>4. CASE Extract \/ Authenticate \/ BuildBody \/ DryRun \/ NotStarted
  BY <1>1, <1>4 DEF Extract, Authenticate, BuildBody, DryRun, NotStarted
<1>5. CASE ValidateQuery
  BY <1>2, <1>5 DEF ValidateQuery
<1>6. CASE ValidateHeaders
  BY <1>2, <1>6 DEF ValidateHeaders
<1>7. CASE ValidatePath
  BY <1>2, <1>7 DEF ValidatePath
<1>8. CASE ResolveVars
  BY <1>1, <1>2, <1>8 DEF ResolveVars
<1>9. CASE Execute
  BY <1>9 DEF Execute, Respond
<1> QED BY <1>3, <1>4, <1>5, <1>6, <1>7, <1>8, <1>9 DEF Handler

\* The request is one that clients may send.
FromClient == req \in Requests

LEMMA RequestsAreSent == Spec => []FromClient
<1>1. Init => FromClient
  BY RequestAssumption DEF Init, FromClient
<1>2. ASSUME FromClient, [Next]_gateVars PROVE FromClient'
  <2> USE DEF FromClient
  <2>1. CASE Accept
    BY <2>1 DEF Accept
  <2>2. CASE Handler
    BY <1>2, <2>2, HandlerKeeps
  <2>3. CASE UNCHANGED gateVars
    BY <1>2, <2>3 DEF gateVars
  <2> QED BY <1>2, <2>1, <2>2, <2>3 DEF Next, Handler
<1> QED BY <1>1, <1>2, PTL DEF Spec

\* No value outside of its field's range gets into a command, whichever way it came
\* (value.rs:40-61, 147-156; server.rs:341-379, 444-483): a value in the context is one of
\* the request, and the request is good at the gate that its type was looked at.
THEOREM RangesAlwaysHold == Spec => []RangesHold
<1>1. Init => BodyKept
  BY DEF Init, BodyKept
<1>2. ASSUME IInv, BodyKept, FromClient PROVE RangesHold
  <2>1. SUFFICES ASSUME started PROVE RangesHold
    BY DEF RangesHold
  <2>2. /\ \A k \in DOMAIN Gates : Good(Gates[k])
        /\ \A scope \in Scopes : \A n \in DOMAIN ctx[scope] :
             n \in DOMAIN Given(scope) /\ ctx[scope][n] = Given(scope)[n]
    BY <1>2, <2>1 DEF IInv, ExecutesOnlyGood
  <2>3. AllGood
    BY <2>2, GatesAre
  <2>4. config \in Configs /\ req \in Requests
    BY <1>2 DEF IInv, TypeOK, FromClient
  <2>5. ASSUME NEW scope \in Scopes \ {"vars"}, NEW k \in DOMAIN config[scope],
               config[scope][k].name \in DOMAIN ctx[scope]
        PROVE  TextInRange(ctx[scope][config[scope][k].name], TypeOf[config[scope][k].ty])
    <3> DEFINE f == config[scope][k]
    <3>1. f.name \in DOMAIN Given(scope) /\ ctx[scope][f.name] = Given(scope)[f.name]
      BY <2>2, <2>5
    <3>2. ItemGood(scope, f)
      <4>1. Good(scope)
        BY <2>3 DEF AllGood, Scopes
      <4> QED BY <4>1, GoodIs
    <3>3. <<Given(scope)[f.name], f.ty>> \in Fits
      <4>1. CASE scope \in {"query", "headers"}
        BY <3>1, <3>2, <4>1 DEF ItemGood, Given, FieldGood
      <4>2. CASE scope = "path"
        BY <3>1, <3>2, <4>2 DEF ItemGood, Given
      <4> QED BY <4>1, <4>2 DEF Scopes
    <3> QED BY <3>1, <3>3, FitsInRange
  <2>6. BodyGood /\ ctx.body = BodyValue
    BY <1>2, <2>1, <2>3, GoodIs DEF AllGood, BodyKept
  <2>7. ctx.body.kind = config.body.kind
    <3>1. config.body.kind \in {"none", "binary", "string", "json", "form"}
      BY <2>4, ConfigAssumption
    <3> QED BY <2>6, <3>1 DEF BodyValue, NoBody
  <2> DEFINE fields == config.body.fields
  <2>8. ASSUME config.body.kind = "form", NEW k \in DOMAIN fields,
               fields[k].name \in DOMAIN ctx.body.value
        PROVE  TextInRange(ctx.body.value[fields[k].name].value, TypeOf[fields[k].ty])
    <3> DEFINE form == ParsedForm(fields)
               texts == [n \in {m \in DOMAIN form : ~form[m].binary} |-> form[n].value]
    <3>1. ctx.body.value = form
      BY <2>6, <2>8 DEF BodyValue
    <3>2. CASE fields[k].ty = "binary"
      <4>1. fields[k].ty \in DOMAIN TypeOf
        BY <2>4, <2>8, DataAssumption
      <4> QED BY <3>2, <4>1, PlainInRange
    <3>3. CASE fields[k].ty # "binary"
      <4>1. FieldGood(fields[k], texts, {})
        BY <2>6, <2>8, <3>3 DEF BodyGood, FormGood
      <4>2. NamedOnce(fields)
        BY <2>4, <2>8, ConfigAssumption
      <4>3. ~form[fields[k].name].binary
        <5>1. fields[k].name \notin FormNames(fields, {"binary"})
          BY <2>8, <3>3, <4>2 DEF FormNames, NamedOnce, Listed
        <5>2. \A n \in DOMAIN form : form[n].binary <=> n \in FormNames(fields, {"binary"})
          BY DEF ParsedForm
        <5> QED BY <2>8, <3>1, <5>1, <5>2
      <4>4. fields[k].name \in DOMAIN form
        BY <2>8, <3>1
      <4> HIDE DEF form
      <4>5. fields[k].name \in DOMAIN texts /\ texts[fields[k].name] = form[fields[k].name].value
        BY <4>3, <4>4
      <4> HIDE DEF texts
      <4>6. <<form[fields[k].name].value, fields[k].ty>> \in Fits
        BY <4>1, <4>5 DEF FieldGood
      <4> QED BY <3>1, <4>6, FitsInRange
    <3> QED BY <3>2, <3>3
  <2>9. ASSUME config.body.kind = "json", config.body.typed, NEW k \in DOMAIN fields,
               fields[k].name \in DOMAIN ctx.body.value.fields,
               NEW j \in DOMAIN ctx.body.value.fields[fields[k].name].items
        PROVE  JsonInRange(JsonOf[ctx.body.value.fields[fields[k].name].items[j]], TypeOf[fields[k].ty])
    <3> DEFINE v == ctx.body.value
               found == v.fields[fields[k].name]
    <3>1. PICK w \in req.body.json : JsonGood(w, fields)
      BY <2>6, <2>9 DEF BodyGood
    <3>2. AtMostOne(req.body.json)
      BY <2>4, RequestAssumption
    <3>3. v = w
      <4>1. ctx.body.value = (CHOOSE x \in req.body.json : TRUE)
        BY <2>6, <2>9 DEF BodyValue
      <4> QED BY <3>1, <3>2, <4>1 DEF AtMostOne
    <3>4. v.object /\ JsonFieldOk(found, fields[k]) /\ v \in req.body.json
      BY <2>9, <3>1, <3>3 DEF JsonGood
    <3>5. ~found.array => j = 1
      <4>1. fields[k].name \in DOMAIN v.fields /\ j \in DOMAIN found.items
        BY <2>9
      <4> HIDE DEF v
      <4>2. ~v.fields[fields[k].name].array => DOMAIN v.fields[fields[k].name].items = {1}
        BY <2>4, <3>4, <4>1, DataAssumption
      <4> QED BY <4>1, <4>2
    <3>6. fields[k].ty \in {"string", "json"} \/ <<found.items[j], fields[k].ty>> \in FitsJson
      BY <2>9, <3>4, <3>5 DEF JsonFieldOk
    <3>7. fields[k].ty \in DOMAIN TypeOf
      BY <2>4, <2>9, DataAssumption
    <3> QED BY <3>6, <3>7, PlainInRange, FitsJsonInRange
  <2> HIDE DEF fields
  <2> QED BY <2>5, <2>7, <2>8, <2>9 DEF RangesHold, fields
<1> QED BY <1>1, <1>2, BodyStays, Inductive, RequestsAreSent, PTL DEF Spec
----------------------------------------------------------------------------
(* A scan of a set of places. *)

BelowOf == {p \in Nat \X Nat : p[1] < p[2]}

\* Of several numbers there is a least.
LEMMA LeastOf ==
  ASSUME NEW T, T \subseteq Nat, T # {}
  PROVE  \E m \in T : \A k \in T : m =< k
<1>1. IsWellFoundedOn(BelowOf, Nat)
  BY NatLessThanWellFounded DEF OpToRel, BelowOf
<1>2. PICK m \in T : \A k \in T : ~(<<k, m>> \in BelowOf)
  BY <1>1, WFMin
<1>3. ASSUME NEW k \in T PROVE m =< k
  <2>1. k \in Nat /\ m \in Nat
    OBVIOUS
  <2>2. k < m => <<k, m>> \in BelowOf
    BY <2>1 DEF BelowOf
  <2> QED BY <1>2, <2>1, <2>2
<1> QED BY <1>3

\* The scan of a set: a finds its members in order, and skips only what is too near.
Scan(set, gap, n, a) ==
  /\ a \in Seq(1..n)
  /\ \A k \in 1..Len(a) : a[k] \in set
  /\ \A i, k \in 1..Len(a) : i < k => a[i] + gap =< a[k]
  /\ \A j \in 1..n : j \in set => \E k \in 1..Len(a) : a[k] =< j /\ j < a[k] + gap

ScanStep(set, gap, before, j) ==
  IF j \in set /\ (before = <<>> \/ Last(before) + gap =< j) THEN Append(before, j) ELSE before

Scans(set, gap, n, f) ==
  f = [j \in 0..n |-> IF j = 0 THEN <<>> ELSE ScanStep(set, gap, f[j - 1], j)]

\* The function that scans exists for every length.
LEMMA ScansExist ==
  ASSUME NEW set, NEW gap
  PROVE  \A n \in Nat : \E f : Scans(set, gap, n, f)
<1> SUFFICES ASSUME NEW b \in Nat, ~\E f : Scans(set, gap, b, f)
             PROVE  FALSE
  OBVIOUS
<1> DEFINE T == {n \in Nat : ~\E f : Scans(set, gap, n, f)}
<1>1. PICK m \in T : \A k \in T : m =< k
  <2>1. b \in T
    OBVIOUS
  <2> QED BY <2>1, LeastOf
<1>2. m # 0
  <2>1. Scans(set, gap, 0, [j \in 0..0 |-> <<>>])
    BY DEF Scans
  <2> QED BY <2>1
<1>3. m \in Nat /\ m - 1 \in Nat
  BY <1>2
<1>4. PICK f : Scans(set, gap, m - 1, f)
  BY <1>1, <1>3
<1> DEFINE g == [j \in 0..m |-> IF j = m THEN ScanStep(set, gap, f[m - 1], m) ELSE f[j]]
<1>5. ASSUME NEW j \in 0..m PROVE g[j] = IF j = 0 THEN <<>> ELSE ScanStep(set, gap, g[j - 1], j)
  <2>1. CASE j = m
    <3>1. m - 1 \in 0..m /\ m - 1 # m
      BY <1>3
    <3>2. g[m - 1] = f[m - 1]
      BY <3>1
    <3>3. g[m] = ScanStep(set, gap, f[m - 1], m)
      BY <1>3, <2>1
    <3> HIDE DEF g
    <3> QED BY <1>2, <2>1, <3>2, <3>3
  <2>2. CASE j # m
    <3>1. j \in 0..(m - 1) /\ g[j] = f[j]
      BY <1>3, <2>2
    <3>2. f[j] = IF j = 0 THEN <<>> ELSE ScanStep(set, gap, f[j - 1], j)
      BY <1>4, <3>1 DEF Scans
    <3>3. j # 0 => j - 1 \in 0..m /\ j - 1 # m
      BY <1>3, <3>1
    <3>4. j # 0 => g[j - 1] = f[j - 1]
      BY <3>3
    <3> HIDE DEF g
    <3> QED BY <3>1, <3>2, <3>4
  <2> QED BY <2>1, <2>2
<1>6. Scans(set, gap, m, g)
  <2>1. g = [j \in 0..m |-> g[j]]
    OBVIOUS
  <2> HIDE DEF g
  <2> QED BY <1>5, <2>1 DEF Scans
<1> HIDE DEF g
<1> QED BY <1>1, <1>6

\* One more place continues a scan.
LEMMA ScanGoesOn ==
  ASSUME NEW set, NEW gap \in Nat \ {0}, NEW j \in Nat \ {0}, NEW before, Scan(set, gap, j - 1, before)
  PROVE  Scan(set, gap, j, ScanStep(set, gap, before, j))
<1>1. before \in Seq(1..(j - 1)) /\ Len(before) \in Nat /\ before \in Seq(1..j)
  <2>1. before \in Seq(1..(j - 1))
    BY DEF Scan
  <2>2. 1..(j - 1) \subseteq 1..j
    OBVIOUS
  <2>3. \A k \in 1..Len(before) : before[k] \in 1..j
    BY <2>1, <2>2
  <2> QED BY <2>1, <2>3
<1>2. \A k \in 1..Len(before) : before[k] \in 1..(j - 1)
  BY <1>1
<1>3. before # <<>> => Len(before) \in 1..Len(before) /\ Last(before) = before[Len(before)]
  BY <1>1 DEF Last
<1> DEFINE past == before = <<>> \/ Last(before) + gap =< j
<1>4. CASE j \in set /\ past
  <2> DEFINE a == Append(before, j)
  <2>1. a \in Seq(1..j) /\ Len(a) = Len(before) + 1 /\ a[Len(a)] = j
        /\ \A k \in 1..Len(before) : a[k] = before[k]
    BY <1>1
  <2>2. \A k \in 1..Len(before) : before[k] + gap =< j
    <3> SUFFICES ASSUME NEW k \in 1..Len(before) PROVE before[k] + gap =< j
      OBVIOUS
    <3>1. before # <<>>
      BY <1>1
    <3>2. before[Len(before)] + gap =< j
      BY <1>3, <1>4, <3>1
    <3>3. k = Len(before) \/ before[k] + gap =< before[Len(before)]
      BY <1>1, <1>3, <3>1 DEF Scan
    <3> QED BY <1>1, <1>2, <1>3, <3>1, <3>2, <3>3
  <2> HIDE DEF a
  <2>3. \A k \in 1..Len(a) : a[k] \in set
    <3> SUFFICES ASSUME NEW k \in 1..Len(a) PROVE a[k] \in set
      OBVIOUS
    <3>1. k = Len(a) \/ k \in 1..Len(before)
      BY <1>1, <2>1
    <3>2. \A i \in 1..Len(before) : before[i] \in set
      BY DEF Scan
    <3> QED BY <1>4, <2>1, <3>1, <3>2
  <2>4. \A i, k \in 1..Len(a) : i < k => a[i] + gap =< a[k]
    <3> SUFFICES ASSUME NEW i \in 1..Len(a), NEW k \in 1..Len(a), i < k PROVE a[i] + gap =< a[k]
      OBVIOUS
    <3>1. i \in 1..Len(before) /\ a[i] = before[i]
      <4>1. Len(a) \in Nat /\ i < Len(a)
        BY <1>1, <2>1
      <4>2. i \in 1..Len(before)
        BY <1>1, <2>1, <4>1
      <4> QED BY <2>1, <4>2
    <3>2. CASE k = Len(a)
      BY <2>1, <2>2, <3>1, <3>2
    <3>3. CASE k # Len(a)
      <4>0. Len(a) = Len(before) + 1 /\ Len(before) \in Nat /\ k \in Nat /\ k =< Len(a) /\ k >= 1
        BY <1>1, <2>1
      <4>1. k \in 1..Len(before)
        BY <3>3, <4>0
      <4>2. before[i] + gap =< before[k]
        BY <3>1, <4>1 DEF Scan
      <4> QED BY <2>1, <3>1, <4>1, <4>2
    <3> QED BY <3>2, <3>3
  <2>5. \A l \in 1..j : l \in set => \E k \in 1..Len(a) : a[k] =< l /\ l < a[k] + gap
    <3> SUFFICES ASSUME NEW l \in 1..j, l \in set PROVE \E k \in 1..Len(a) : a[k] =< l /\ l < a[k] + gap
      OBVIOUS
    <3>1. CASE l = j
      <4>1. Len(a) \in 1..Len(a) /\ a[Len(a)] = l
        BY <1>1, <2>1, <3>1
      <4> QED BY <4>1
    <3>2. CASE l # j
      <4>1. l \in 1..(j - 1)
        BY <3>2
      <4>2. PICK k \in 1..Len(before) : before[k] =< l /\ l < before[k] + gap
        BY <4>1 DEF Scan
      <4>3. k \in 1..Len(a) /\ a[k] = before[k]
        BY <1>1, <2>1
      <4> QED BY <4>2, <4>3
    <3> QED BY <3>1, <3>2
  <2>6. ScanStep(set, gap, before, j) = a
    BY <1>4 DEF ScanStep, a
  <2> QED BY <2>1, <2>3, <2>4, <2>5, <2>6 DEF Scan
<1>5. CASE ~(j \in set /\ past)
  <2>1. ScanStep(set, gap, before, j) = before
    BY <1>5 DEF ScanStep
  <2>2. ASSUME NEW l \in 1..j, l \in set PROVE \E k \in 1..Len(before) : before[k] =< l /\ l < before[k] + gap
    <3>1. CASE l = j
      <4>1. before # <<>> /\ ~(before[Len(before)] + gap =< j)
        BY <1>3, <1>5, <2>2, <3>1
      <4>2. before[Len(before)] \in 1..(j - 1)
        BY <1>2, <1>3, <4>1
      <4> QED BY <1>3, <3>1, <4>1, <4>2
    <3>2. CASE l # j
      <4>1. l \in 1..(j - 1)
        BY <3>2
      <4> QED BY <2>2, <4>1 DEF Scan
    <3> QED BY <3>1, <3>2
  <2>3. /\ \A k \in 1..Len(before) : before[k] \in set
        /\ \A i, k \in 1..Len(before) : i < k => before[i] + gap =< before[k]
    BY DEF Scan
  <2> QED BY <1>1, <2>1, <2>2, <2>3 DEF Scan
<1> QED BY <1>4, <1>5

\* Spaced is a scan.
LEMMA SpacedIs ==
  ASSUME NEW set, NEW gap \in Nat \ {0}, NEW n \in Nat
  PROVE  Scan(set, gap, n, Spaced(set, gap, n))
<1> DEFINE f == CHOOSE f : Scans(set, gap, n, f)
<1>1. Scans(set, gap, n, f)
  BY ScansExist
<1>2. Spaced(set, gap, n) = f[n]
  BY DEF Spaced, Scans, ScanStep
<1> HIDE DEF f
<1>3. \A j \in 0..n : f[j] = IF j = 0 THEN <<>> ELSE ScanStep(set, gap, f[j - 1], j)
  BY <1>1 DEF Scans
<1>4. ASSUME ~Scan(set, gap, n, f[n]) PROVE FALSE
  <2> DEFINE T == {j \in 0..n : ~Scan(set, gap, j, f[j])}
  <2>1. n \in T /\ T \subseteq Nat
    BY <1>4
  <2>2. PICK m \in T : \A k \in T : m =< k
    BY <2>1, LeastOf
  <2>3. m \in 0..n /\ ~Scan(set, gap, m, f[m])
    OBVIOUS
  <2>4. CASE m = 0
    <3>1. f[0] = <<>>
      BY <1>3
    <3>2. Scan(set, gap, 0, <<>>)
      BY DEF Scan
    <3> QED BY <2>3, <2>4, <3>1, <3>2
  <2>5. CASE m # 0
    <3>1. m \in Nat \ {0} /\ m - 1 \in 0..n /\ m - 1 < m
      BY <2>3, <2>5
    <3>2. m - 1 \notin T
      BY <2>2, <2>3, <3>1
    <3>3. Scan(set, gap, m - 1, f[m - 1])
      BY <3>1, <3>2
    <3>4. Scan(set, gap, m, ScanStep(set, gap, f[m - 1], m))
      BY <3>1, <3>3, ScanGoesOn
    <3>5. f[m] = ScanStep(set, gap, f[m - 1], m)
      BY <1>3, <2>3, <2>5
    <3> QED BY <2>3, <3>4, <3>5
  <2> QED BY <2>4, <2>5
<1> QED BY <1>2, <1>4

\* A scan is of places.
LEMMA ScanIs ==
  ASSUME NEW set, NEW gap, NEW n \in Nat, NEW a, Scan(set, gap, n, a)
  PROVE  a \in Seq(1..n) /\ Len(a) \in Nat /\ \A k \in 1..Len(a) : a[k] \in 1..n
<1>1. a \in Seq(1..n)
  BY Zenon DEF Scan
<1> QED BY <1>1, LenProperties, ElementOfSeq, Zenon

\* Two scans that agree so far agree on what comes next: the later one is not ahead.
LEMMA ScanMatches ==
  ASSUME NEW set, NEW gap \in Nat \ {0}, NEW n \in Nat, NEW a, NEW b,
         Scan(set, gap, n, a), Scan(set, gap, n, b), NEW m \in 1..Len(a),
         \A k \in 1..(m - 1) : k =< Len(b) /\ a[k] = b[k]
  PROVE  m =< Len(b) /\ b[m] =< a[m]
<1>1. /\ a \in Seq(1..n) /\ Len(a) \in Nat /\ \A k \in 1..Len(a) : a[k] \in 1..n
      /\ b \in Seq(1..n) /\ Len(b) \in Nat /\ \A k \in 1..Len(b) : b[k] \in 1..n
  BY ScanIs, Zenon
<1>2. a[m] \in 1..n /\ a[m] \in set
  BY <1>1 DEF Scan
<1>3. PICK k \in 1..Len(b) : b[k] =< a[m] /\ a[m] < b[k] + gap
  BY <1>2 DEF Scan
<1>4. ~(k < m)
  <2> SUFFICES ASSUME k < m PROVE FALSE
    OBVIOUS
  <2>1. k \in 1..(m - 1) /\ k \in 1..Len(a)
    BY <1>1
  <2>2. a[k] + gap =< a[m]
    BY <2>1 DEF Scan
  <2>3. a[k] = b[k]
    BY <2>1
  <2> DEFINE x == a[m]
             y == b[k]
  <2>4. x \in Int /\ y \in Int
    <3>1. x \in 1..n /\ y \in 1..n
      BY <1>1, <1>2, Zenon
    <3> HIDE DEF x, y
    <3> QED BY <3>1
  <2>5. y + gap =< x /\ x < y + gap
    BY <1>3, <2>2, <2>3, Zenon
  <2> HIDE DEF x, y
  <2> QED BY <2>4, <2>5
<1>5. m \in 1..Len(b)
  BY <1>1, <1>4
<1>6. k = m \/ b[m] + gap =< b[k]
  BY <1>1, <1>4, <1>5 DEF Scan
<1>7. b[m] \in 1..n /\ b[k] \in 1..n /\ m =< Len(b)
  <2>1. b[m] \in 1..n /\ b[k] \in 1..n
    BY <1>1, <1>5, Zenon
  <2> DEFINE lb == Len(b)
  <2>2. m \in 1..lb /\ lb \in Nat
    BY <1>1, <1>5, Zenon
  <2> HIDE DEF lb
  <2>3. m =< lb
    BY <2>2
  <2> QED BY <2>1, <2>3, Zenon DEF lb
<1> DEFINE am == a[m]
           bm == b[m]
           bk == b[k]
<1>8. k = m => bm = bk
  BY Zenon
<1>9. bm \in Int /\ bk \in Int /\ am \in Int
  BY <1>2, <1>7
<1>10. bk =< am /\ (k = m \/ bm + gap =< bk)
  BY <1>3, <1>6, Zenon
<1>11. bm =< am
  <2> HIDE DEF am, bm, bk
  <2> QED BY <1>8, <1>9, <1>10
<1> QED BY <1>7, <1>11, Zenon

\* Of two scans, each holds what the other holds.
LEMMA ScanCovers ==
  ASSUME NEW set, NEW gap \in Nat \ {0}, NEW n \in Nat, NEW a, NEW b,
         Scan(set, gap, n, a), Scan(set, gap, n, b)
  PROVE  \A k \in 1..Len(a) : k =< Len(b) /\ a[k] = b[k]
<1>1. /\ a \in Seq(1..n) /\ Len(a) \in Nat /\ \A k \in 1..Len(a) : a[k] \in 1..n
      /\ b \in Seq(1..n) /\ Len(b) \in Nat /\ \A k \in 1..Len(b) : b[k] \in 1..n
  BY ScanIs, Zenon
<1> SUFFICES ASSUME NEW l \in 1..Len(a), ~(l =< Len(b) /\ a[l] = b[l]) PROVE FALSE
  OBVIOUS
<1> DEFINE T == {k \in 1..Len(a) : ~(k =< Len(b) /\ a[k] = b[k])}
<1>2. PICK m \in T : \A k \in T : m =< k
  <2>1. l \in T /\ T \subseteq Nat
    OBVIOUS
  <2> QED BY <2>1, LeastOf
<1>3. m \in 1..Len(a) /\ ~(m =< Len(b) /\ a[m] = b[m])
  OBVIOUS
<1>4. \A k \in 1..(m - 1) : k =< Len(b) /\ a[k] = b[k]
  <2> SUFFICES ASSUME NEW k \in 1..(m - 1) PROVE k =< Len(b) /\ a[k] = b[k]
    OBVIOUS
  <2>1. k \in 1..Len(a) /\ k \notin T
    BY <1>1, <1>2, <1>3
  <2> QED BY <2>1
<1> HIDE DEF T
<1>5. m =< Len(b) /\ b[m] =< a[m]
  BY <1>3, <1>4, ScanMatches
<1>6. m \in 1..Len(b) /\ \A k \in 1..(m - 1) : k =< Len(a) /\ b[k] = a[k]
  <2>1. \A k \in 1..(m - 1) : k =< Len(a)
    BY <1>1, <1>3
  <2>2. m \in 1..Len(b)
    BY <1>1, <1>3, <1>5
  <2> QED BY <1>4, <2>1, <2>2
<1>7. a[m] =< b[m]
  BY <1>6, ScanMatches
<1> QED BY <1>1, <1>3, <1>5, <1>6, <1>7

\* There is one scan.
LEMMA ScanUnique ==
  ASSUME NEW set, NEW gap \in Nat \ {0}, NEW n \in Nat, NEW a, Scan(set, gap, n, a)
  PROVE  Spaced(set, gap, n) = a
<1> DEFINE b == Spaced(set, gap, n)
<1>1. Scan(set, gap, n, b)
  BY SpacedIs
<1> HIDE DEF b
<1>2. a \in Seq(1..n) /\ b \in Seq(1..n) /\ Len(a) \in Nat /\ Len(b) \in Nat
  BY <1>1 DEF Scan
<1>3. (\A k \in 1..Len(a) : k =< Len(b) /\ a[k] = b[k]) /\ (\A k \in 1..Len(b) : k =< Len(a) /\ b[k] = a[k])
  <2>1. \A k \in 1..Len(a) : k =< Len(b) /\ a[k] = b[k]
    BY <1>1, ScanCovers
  <2>2. \A k \in 1..Len(b) : k =< Len(a) /\ b[k] = a[k]
    BY <1>1, ScanCovers
  <2> QED BY <2>1, <2>2
<1>4. Len(a) = Len(b)
  <2>1. Len(a) =< Len(b)
    <3>1. Len(a) = 0 \/ Len(a) \in 1..Len(a)
      BY <1>2
    <3> QED BY <1>2, <1>3, <3>1
  <2>2. Len(b) =< Len(a)
    <3>1. Len(b) = 0 \/ Len(b) \in 1..Len(b)
      BY <1>2
    <3> QED BY <1>2, <1>3, <3>1
  <2> QED BY <1>2, <2>1, <2>2
<1>5. a = b
  BY <1>2, <1>3, <1>4, SeqEqual, Zenon
<1> QED BY <1>5 DEF b

----------------------------------------------------------------------------
(* The pieces of a sequence between separators. *)

\* A sequence alone, or followed by an empty one, flattened.
LEMMA PairIs ==
  ASSUME NEW x, NEW U, x \in Seq(U)
  PROVE  FlattenSeq(<<x>>) = x /\ FlattenSeq(<<x, <<>>>>) = x
<1>1. FlattenSeq(<<x>>) = x
  <2> DEFINE f == [i \in 1..1 |-> x]
  <2>0. Len(<<x>>) = 1 /\ <<x>>[1] = x
    OBVIOUS
  <2> DEFINE g == CHOOSE g : g = [i \in 1..1 |-> IF i = 1 THEN <<x>>[i] ELSE g[i - 1] \o <<x>>[i]]
  <2>1. f = [i \in 1..1 |-> IF i = 1 THEN <<x>>[i] ELSE f[i - 1] \o <<x>>[i]]
    OBVIOUS
  <2>2. g = [i \in 1..1 |-> IF i = 1 THEN <<x>>[i] ELSE g[i - 1] \o <<x>>[i]]
    BY <2>1
  <2>3. FlattenSeq(<<x>>) = g[1]
    BY <2>0 DEF FlattenSeq
  <2> HIDE DEF g
  <2>4. g[1] = x
    BY <2>0, <2>2
  <2> QED BY <2>3, <2>4
<1>2. FlattenSeq(<<x, <<>>>>) = x
  <2> DEFINE s == <<x, <<>>>>
             f == [i \in 1..2 |-> x]
  <2>0. Len(s) = 2 /\ s[1] = x /\ s[2] = <<>> /\ x \o <<>> = x
    BY ConcatEmptySeq
  <2> DEFINE g == CHOOSE g : g = [i \in 1..2 |-> IF i = 1 THEN s[i] ELSE g[i - 1] \o s[i]]
  <2>1. f = [i \in 1..2 |-> IF i = 1 THEN s[i] ELSE f[i - 1] \o s[i]]
    <3> HIDE DEF s
    <3> QED BY <2>0
  <2>2. g = [i \in 1..2 |-> IF i = 1 THEN s[i] ELSE g[i - 1] \o s[i]]
    BY <2>1
  <2>3. FlattenSeq(s) = g[2]
    BY <2>0 DEF FlattenSeq
  <2> HIDE DEF g, s
  <2>4. g[1] = x
    BY <2>0, <2>2
  <2>5. g[2] = g[1] \o s[2]
    <3>1. \A i \in 1..2 : g[i] = IF i = 1 THEN s[i] ELSE g[i - 1] \o s[i]
      BY <2>2, Zenon
    <3>2. 2 \in 1..2 /\ 2 # 1 /\ 2 - 1 = 1
      OBVIOUS
    <3>3. g[2] = g[2 - 1] \o s[2]
      BY <3>1, <3>2, Zenon
    <3> QED BY <3>2, <3>3, Zenon
  <2> QED BY <2>0, <2>3, <2>4, <2>5 DEF s
<1> QED BY <1>1, <1>2

Cuts(s, separators, c) ==
  /\ c \in Seq(Nat) /\ Len(c) >= 2 /\ c[1] = 0 /\ c[Len(c)] = Len(s) + 1
  /\ \A i, k \in 1..Len(c) : i < k => c[i] < c[k]
  /\ \A j \in 1..Len(s) : s[j] \in separators <=> \E k \in 2..(Len(c) - 1) : c[k] = j

Cutting(s, separators, c) ==
  /\ Cuts(s, separators, c)
  /\ SplitAtAny(s, separators) = [k \in 1..(Len(c) - 1) |-> SubSeq(s, c[k] + 1, c[k + 1] - 1)]

\* SplitAtAny cuts at every separator and nowhere else.
LEMMA PiecesAre ==
  ASSUME NEW U, NEW s \in Seq(U), NEW separators
  PROVE  \E c : Cutting(s, separators, c)
<1> DEFINE n == Len(s)
           set == {j \in DOMAIN s : s[j] \in separators}
           a == Spaced(set, 1, n)
           c == <<0>> \o a \o <<n + 1>>
<1>1. n \in Nat /\ DOMAIN s = 1..n
  OBVIOUS
<1>2. Scan(set, 1, n, a)
  BY <1>1, SpacedIs
<1>3. SplitAtAny(s, separators) = [k \in 1..(Len(c) - 1) |-> SubSeq(s, c[k] + 1, c[k + 1] - 1)]
  BY DEF SplitAtAny
<1> HIDE DEF a
<1>4. a \in Seq(Nat) /\ Len(a) \in Nat /\ \A k \in 1..Len(a) : a[k] \in 1..n
  <2>1. a \in Seq(1..n)
    BY <1>2 DEF Scan
  <2> HIDE DEF n
  <2>2. 1..n \subseteq Nat
    OBVIOUS
  <2>3. a \in Seq(Nat)
    BY <2>1, <2>2, SeqMonotonic
  <2>4. Len(a) \in Nat
    BY <2>3
  <2>5. \A k \in 1..Len(a) : a[k] \in 1..n
    BY <2>1, ElementOfSeq
  <2> QED BY <2>3, <2>4, <2>5
<1>5. /\ c \in Seq(Nat) /\ Len(c) = Len(a) + 2 /\ c[1] = 0 /\ c[Len(a) + 2] = n + 1
      /\ \A k \in 1..Len(a) : c[k + 1] = a[k]
  BY <1>1, <1>4
<1> HIDE DEF c, n
<1>6. \A i, k \in 1..Len(c) : i < k => c[i] < c[k]
  <2> SUFFICES ASSUME NEW i \in 1..Len(c), NEW k \in 1..Len(c), i < k PROVE c[i] < c[k]
    OBVIOUS
  <2>1. CASE i = 1 /\ k = Len(a) + 2
    BY <1>1, <1>5, <2>1
  <2>2. CASE i = 1 /\ k # Len(a) + 2
    <3>1. k - 1 \in 1..Len(a) /\ (k - 1) + 1 = k
      BY <1>4, <1>5, <2>2
    <3>2. c[k] = a[k - 1] /\ a[k - 1] \in 1..n
      BY <1>4, <1>5, <3>1
    <3> QED BY <1>1, <1>5, <2>2, <3>2
  <2>3. CASE i # 1
    <3>1. i - 1 \in 1..Len(a) /\ (i - 1) + 1 = i
      BY <1>4, <1>5, <2>3
    <3>2. c[i] = a[i - 1] /\ a[i - 1] \in 1..n
      BY <1>4, <1>5, <3>1
    <3>3. CASE k = Len(a) + 2
      BY <1>1, <1>5, <3>2, <3>3
    <3>4. CASE k # Len(a) + 2
      <4>0. k \in Nat /\ k =< Len(a) + 2 /\ i \in Nat /\ i >= 1 /\ i < k /\ Len(a) \in Nat
        BY <1>4, <1>5
      <4>1. k - 1 \in 1..Len(a) /\ (k - 1) + 1 = k
        BY <2>3, <3>4, <4>0
      <4>2. c[k] = a[k - 1] /\ a[k - 1] \in 1..n
        BY <1>4, <1>5, <4>1
      <4>3. a[i - 1] + 1 =< a[k - 1]
        <5>1. i - 1 < k - 1
          BY <4>0
        <5>2. \A x, y \in 1..Len(a) : x < y => a[x] + 1 =< a[y]
          BY <1>2 DEF Scan
        <5> QED BY <3>1, <4>1, <5>1, <5>2, Zenon
      <4> QED BY <1>1, <3>2, <4>2, <4>3
    <3> QED BY <3>3, <3>4
  <2> QED BY <2>1, <2>2, <2>3
<1>7. \A j \in 1..n : s[j] \in separators <=> \E k \in 2..(Len(c) - 1) : c[k] = j
  <2> SUFFICES ASSUME NEW j \in 1..n PROVE s[j] \in separators <=> \E k \in 2..(Len(c) - 1) : c[k] = j
    OBVIOUS
  <2>1. ASSUME s[j] \in separators PROVE \E k \in 2..(Len(c) - 1) : c[k] = j
    <3>1. j \in set
      BY <1>1, <2>1
    <3>2. PICK i \in 1..Len(a) : a[i] =< j /\ j < a[i] + 1
      BY <1>2, <3>1 DEF Scan
    <3>3. a[i] = j /\ i + 1 \in 2..(Len(c) - 1) /\ c[i + 1] = a[i]
      BY <1>4, <1>5, <3>2
    <3> QED BY <3>3
  <2>2. ASSUME NEW k \in 2..(Len(c) - 1), c[k] = j PROVE s[j] \in separators
    <3>1. k - 1 \in 1..Len(a) /\ (k - 1) + 1 = k
      BY <1>4, <1>5
    <3>2. c[k] = a[k - 1] /\ a[k - 1] \in set
      BY <1>2, <1>5, <3>1 DEF Scan
    <3> QED BY <2>2, <3>2
  <2> QED BY <2>1, <2>2
<1>8. Cuts(s, separators, c)
  BY <1>4, <1>5, <1>6, <1>7, SMTT(20) DEF Cuts, n
<1> QED BY <1>3, <1>8 DEF Cutting

\* Two separators with none between them are neighbours among the cuts.
LEMMA PieceAt ==
  ASSUME NEW U, NEW s \in Seq(U), NEW separators, NEW c, Cuts(s, separators, c),
         NEW u \in 0..Len(s), NEW v \in 1..(Len(s) + 1), u < v,
         u = 0 \/ s[u] \in separators, v = Len(s) + 1 \/ s[v] \in separators,
         \A j \in (u + 1)..(v - 1) : s[j] \notin separators
  PROVE  \E k \in 1..(Len(c) - 1) : c[k] = u /\ c[k + 1] = v
<1>1. Len(s) \in Nat /\ Len(c) \in Nat /\ Len(c) >= 2 /\ \A k \in 1..Len(c) : c[k] \in Nat
  BY DEF Cuts
<1>2. PICK k \in 1..(Len(c) - 1) : c[k] = u
  <2>1. CASE u = 0
    <3>1. 1 \in 1..(Len(c) - 1)
      BY <1>1
    <3>2. c[1] = u
      BY <2>1 DEF Cuts
    <3> QED BY <3>1, <3>2
  <2>2. CASE u # 0
    <3>1. u \in 1..Len(s) /\ s[u] \in separators
      BY <2>2
    <3>2. PICK i \in 2..(Len(c) - 1) : c[i] = u
      BY <3>1 DEF Cuts
    <3> QED BY <1>1, <3>2
  <2> QED BY <2>1, <2>2
<1>3. PICK l \in 2..Len(c) : c[l] = v
  <2>1. CASE v = Len(s) + 1
    <3>1. Len(c) \in 2..Len(c)
      BY <1>1
    <3>2. c[Len(c)] = v
      BY <2>1 DEF Cuts
    <3> QED BY <3>1, <3>2
  <2>2. CASE v # Len(s) + 1
    <3>1. v \in 1..Len(s) /\ s[v] \in separators
      BY <1>1, <2>2
    <3>2. PICK i \in 2..(Len(c) - 1) : c[i] = v
      BY <3>1 DEF Cuts
    <3> QED BY <1>1, <3>2
  <2> QED BY <2>1, <2>2
<1>4. k < l
  <2> SUFFICES ASSUME l =< k PROVE FALSE
    BY <1>1
  <2>1. l = k \/ c[l] < c[k]
    BY <1>1 DEF Cuts
  <2> QED BY <1>2, <1>3, <2>1
<1>5. l = k + 1
  <2> SUFFICES ASSUME l # k + 1 PROVE FALSE
    OBVIOUS
  <2>1. k + 1 \in 2..(Len(c) - 1) /\ k + 1 < l /\ k < k + 1
    BY <1>1, <1>4
  <2>2. c[k] < c[k + 1] /\ c[k + 1] < c[l]
    <3>1. \A i, m \in 1..Len(c) : i < m => c[i] < c[m]
      BY DEF Cuts
    <3>2. k \in 1..Len(c) /\ k + 1 \in 1..Len(c) /\ l \in 1..Len(c)
      BY <1>1, <2>1
    <3> QED BY <2>1, <3>1, <3>2, Zenon
  <2>3. c[k + 1] \in (u + 1)..(v - 1) /\ c[k + 1] \in 1..Len(s)
    BY <1>1, <1>2, <1>3, <2>1, <2>2
  <2>4. s[c[k + 1]] \in separators
    BY <2>1, <2>3 DEF Cuts
  <2> QED BY <2>3, <2>4
<1> QED BY <1>2, <1>3, <1>5

\* Without a separator there is one piece.
LEMMA OnePiece ==
  ASSUME NEW U, NEW s \in Seq(U), NEW separators, \A j \in 1..Len(s) : s[j] \notin separators
  PROVE  SplitAtAny(s, separators) = <<s>>
<1>1. PICK c : Cutting(s, separators, c)
  BY PiecesAre
<1>2. PICK k \in 1..(Len(c) - 1) : c[k] = 0 /\ c[k + 1] = Len(s) + 1
  <2>1. Len(s) \in Nat
    OBVIOUS
  <2>2. 0 \in 0..Len(s) /\ Len(s) + 1 \in 1..(Len(s) + 1) /\ 0 < Len(s) + 1
    BY <2>1
  <2>3. \A j \in (0 + 1)..((Len(s) + 1) - 1) : s[j] \notin separators
    BY <2>1
  <2> QED BY <1>1, <2>2, <2>3, PieceAt, SMTT(20) DEF Cutting
<1>3. Len(c) \in Nat /\ c[1] = 0 /\ c[Len(c)] = Len(s) + 1 /\ \A i, j \in 1..Len(c) : i < j => c[i] < c[j]
      /\ Len(s) \in Nat /\ Len(c) >= 2
  BY <1>1 DEF Cutting, Cuts
<1>4. k = 1
  <2>1. 1 \in 1..Len(c) /\ k \in 1..Len(c)
    BY <1>3
  <2> QED BY <1>2, <1>3, <2>1
<1>5. Len(c) = 2
  <2>1. 2 \in 1..Len(c) /\ Len(c) \in 1..Len(c)
    BY <1>3
  <2>2. c[2] = Len(s) + 1
    BY <1>2, <1>4
  <2>3. 2 < Len(c) => c[2] < c[Len(c)]
    BY <1>3, <2>1, Zenon
  <2>4. Len(c) \in Nat /\ Len(c) >= 2 /\ c[Len(c)] = Len(s) + 1 /\ Len(s) \in Nat
    BY <1>3
  <2>5. 2 < Len(c) => Len(s) + 1 < Len(s) + 1
    BY <2>2, <2>3, <2>4, Zenon
  <2> DEFINE m == Len(c)
  <2>6. m \in Nat /\ m >= 2 /\ ~(2 < m)
    BY <2>4, <2>5
  <2> HIDE DEF m
  <2>7. m = 2
    BY <2>6
  <2> QED BY <2>7 DEF m
<1>6. SplitAtAny(s, separators) = [i \in 1..1 |-> SubSeq(s, c[i] + 1, c[i + 1] - 1)]
  BY <1>1, <1>5 DEF Cutting
<1>7. SubSeq(s, c[1] + 1, c[1 + 1] - 1) = s
  <2>1. c[1] + 1 = 1 /\ c[1 + 1] - 1 = Len(s)
    BY <1>2, <1>3, <1>4
  <2>2. SubSeq(s, 1, Len(s)) = s
    OBVIOUS
  <2> QED BY <2>1, <2>2
<1> DEFINE f == [i \in 1..1 |-> SubSeq(s, c[i] + 1, c[i + 1] - 1)]
<1>8. f[1] = s /\ f = [i \in 1..1 |-> f[i]]
  BY <1>7
<1> HIDE DEF f
<1>9. f = <<s>>
  BY <1>8
<1> QED BY <1>6, <1>9 DEF f

\* With one there are two.
LEMMA TwoPieces ==
  ASSUME NEW U, NEW s \in Seq(U), NEW separators, NEW j \in 1..Len(s), s[j] \in separators,
         \A i \in 1..Len(s) : i # j => s[i] \notin separators
  PROVE  SplitAtAny(s, separators) = <<SubSeq(s, 1, j - 1), SubSeq(s, j + 1, Len(s))>>
<1>0. Len(s) \in Nat /\ j \in Nat
  OBVIOUS
<1>1. PICK c : Cutting(s, separators, c)
  BY PiecesAre
<1>2. PICK k \in 1..(Len(c) - 1) : c[k] = 0 /\ c[k + 1] = j
  <2>2. 0 \in 0..Len(s) /\ j \in 1..(Len(s) + 1) /\ 0 < j
    BY <1>0
  <2>3. \A i \in (0 + 1)..(j - 1) : s[i] \notin separators
    BY <1>0
  <2> QED BY <1>1, <2>2, <2>3, PieceAt, SMTT(20) DEF Cutting
<1>2a. PICK l \in 1..(Len(c) - 1) : c[l] = j /\ c[l + 1] = Len(s) + 1
  <2>2. j \in 0..Len(s) /\ Len(s) + 1 \in 1..(Len(s) + 1) /\ j < Len(s) + 1
    BY <1>0
  <2>3. \A i \in (j + 1)..((Len(s) + 1) - 1) : s[i] \notin separators
    BY <1>0
  <2> QED BY <1>1, <2>2, <2>3, PieceAt, SMTT(20) DEF Cutting
<1>3. Len(c) \in Nat /\ c[1] = 0 /\ c[Len(c)] = Len(s) + 1 /\ \A x, y \in 1..Len(c) : x < y => c[x] < c[y]
      /\ Len(c) >= 2 /\ \A i \in 1..Len(c) : c[i] \in Nat
  <2>1. Cuts(s, separators, c)
    BY <1>1 DEF Cutting
  <2>2. c \in Seq(Nat)
    BY <2>1 DEF Cuts
  <2>3. Len(c) \in Nat /\ \A i \in 1..Len(c) : c[i] \in Nat
    BY <2>2
  <2> QED BY <2>1, <2>3 DEF Cuts
<1>4. k = 1
  <2>1. 1 \in 1..Len(c) /\ k \in 1..Len(c)
    BY <1>3
  <2> QED BY <1>2, <1>3, <2>1
<1>4a. l = 2
  <2>1. 2 \in 1..Len(c) /\ l \in 1..Len(c)
    BY <1>3
  <2> QED BY <1>2, <1>2a, <1>3, <1>4, <2>1
<1>5. Len(c) = 3
  <2>1. 3 \in 1..Len(c) /\ Len(c) \in 1..Len(c)
    BY <1>3, <1>4a
  <2>2. c[3] = Len(s) + 1
    BY <1>2a, <1>4a
  <2>3. 3 < Len(c) => c[3] < c[Len(c)]
    BY <1>3, <2>1, Zenon
  <2>4. Len(c) \in Nat /\ Len(c) >= 3 /\ c[Len(c)] = Len(s) + 1 /\ Len(s) \in Nat
    BY <1>0, <1>3, <1>4a
  <2>5. 3 < Len(c) => Len(s) + 1 < Len(s) + 1
    BY <2>2, <2>3, <2>4, Zenon
  <2> DEFINE m == Len(c)
  <2>6. m \in Nat /\ m >= 3 /\ ~(3 < m)
    BY <2>4, <2>5
  <2> HIDE DEF m
  <2>7. m = 3
    BY <2>6
  <2> QED BY <2>7 DEF m
<1>6. SplitAtAny(s, separators) = [i \in 1..2 |-> SubSeq(s, c[i] + 1, c[i + 1] - 1)]
  BY <1>1, <1>5 DEF Cutting
<1> DEFINE f == [i \in 1..2 |-> SubSeq(s, c[i] + 1, c[i + 1] - 1)]
<1>7. c[1] + 1 = 1 /\ c[1 + 1] = j /\ c[2] = j /\ c[2 + 1] - 1 = Len(s)
  BY <1>0, <1>2, <1>2a, <1>3, <1>4, <1>4a
<1>8. f[1] = SubSeq(s, 1, j - 1) /\ f[2] = SubSeq(s, j + 1, Len(s))
  <2>0. 1 \in 1..2 /\ 2 \in 1..2
    OBVIOUS
  <2>1. f[1] = SubSeq(s, c[1] + 1, c[1 + 1] - 1) /\ f[2] = SubSeq(s, c[2] + 1, c[2 + 1] - 1)
    BY <2>0, Zenon
  <2> QED BY <1>7, <2>1, Zenon
<1>9. f = [i \in 1..2 |-> f[i]]
  OBVIOUS
<1> HIDE DEF f
<1>10. f = <<f[1], f[2]>>
  BY <1>9
<1> QED BY <1>6, <1>8, <1>10 DEF f

----------------------------------------------------------------------------
(* The header lines of a part. *)

Marks == {"--", CRLF, ";", "content-disposition:", "form-data", "name=", "filename=", "content-type:",
          "octet-stream"}

\* What a sender may put into the headers of a part.
Sendable(p, U) ==
  /\ Marks \subseteq U /\ p.name \in Seq(U) /\ p.file \in Seq(U) /\ p.data \in Seq(U)
  /\ \A i \in 1..Len(p.name) : p.name[i] \notin {CRLF, ";"}
  /\ \A i \in 1..Len(p.file) : p.file[i] # CRLF

NameEnd(p) == 4 + Len(p.name)

\* The place of everything in a Content-Disposition.
Disposed(p, d) ==
  /\ d[1] = "content-disposition:" /\ d[2] = "form-data" /\ d[3] = ";" /\ d[4] = "name="
  /\ \A i \in 1..Len(p.name) : d[4 + i] = p.name[i]
  /\ p.file = <<>> => Len(d) = NameEnd(p)
  /\ p.file # <<>> =>
       /\ Len(d) = NameEnd(p) + Len(p.file) + 5
       /\ d[NameEnd(p) + 1] = ";" /\ d[NameEnd(p) + 2] = "filename="
       /\ \A i \in 1..Len(p.file) : d[NameEnd(p) + 2 + i] = p.file[i]
       /\ d[NameEnd(p) + Len(p.file) + 3] = CRLF /\ d[NameEnd(p) + Len(p.file) + 4] = "content-type:"
       /\ d[NameEnd(p) + Len(p.file) + 5] = "octet-stream"

Joins(s, t, x) ==
  /\ Len(x) = Len(s) + Len(t)
  /\ \A i \in 1..Len(s) : x[i] = s[i]
  /\ \A i \in 1..Len(t) : x[Len(s) + i] = t[i]

\* What stands where in a concatenation.
LEMMA ConcatIs ==
  ASSUME NEW U, NEW s \in Seq(U), NEW t \in Seq(U)
  PROVE  s \o t \in Seq(U) /\ Joins(s, t, s \o t)
  BY DEF Joins

\* Two, three and four elements in a row.
LEMMA TwoIs ==
  ASSUME NEW U, NEW a \in U, NEW b \in U
  PROVE  <<a, b>> \in Seq(U) /\ Len(<<a, b>>) = 2 /\ <<a, b>>[1] = a /\ <<a, b>>[2] = b
  OBVIOUS

LEMMA ThreeIs ==
  ASSUME NEW U, NEW a \in U, NEW b \in U, NEW c \in U
  PROVE  <<a, b, c>> \in Seq(U) /\ Len(<<a, b, c>>) = 3
         /\ <<a, b, c>>[1] = a /\ <<a, b, c>>[2] = b /\ <<a, b, c>>[3] = c
  OBVIOUS

LEMMA FourIs ==
  ASSUME NEW U, NEW a \in U, NEW b \in U, NEW c \in U, NEW d \in U
  PROVE  <<a, b, c, d>> \in Seq(U) /\ Len(<<a, b, c, d>>) = 4
         /\ <<a, b, c, d>>[1] = a /\ <<a, b, c, d>>[2] = b /\ <<a, b, c, d>>[3] = c /\ <<a, b, c, d>>[4] = d
  OBVIOUS

\* The texts of a part are sequences.
LEMMA SendableIs ==
  ASSUME NEW U, NEW p, Sendable(p, U)
  PROVE  /\ p.name \in Seq(U) /\ p.file \in Seq(U) /\ p.data \in Seq(U)
         /\ Len(p.name) \in Nat /\ Len(p.file) \in Nat /\ Len(p.data) \in Nat
<1>1. p.name \in Seq(U) /\ p.file \in Seq(U) /\ p.data \in Seq(U)
  BY Zenon DEF Sendable
<1> QED BY <1>1, LenProperties

\* The header lines of a part, place by place.
LEMMA DispositionIs ==
  ASSUME NEW U, NEW p, Sendable(p, U)
  PROVE  Disposition(p) \in Seq(U) /\ Disposed(p, Disposition(p))
<1> DEFINE name == p.name
           file == p.file
           h == <<"content-disposition:", "form-data", ";", "name=">>
           f1 == <<";", "filename=">>
           f2 == <<CRLF, "content-type:", "octet-stream">>
           x == h \o name
           y == f1 \o file
           z == y \o f2
           d == Disposition(p)
<1>0. /\ "content-disposition:" \in U /\ "form-data" \in U /\ ";" \in U /\ "name=" \in U /\ "filename=" \in U
      /\ CRLF \in U /\ "content-type:" \in U /\ "octet-stream" \in U
  BY DEF Sendable, Marks
<1>1. /\ h \in Seq(U) /\ Len(h) = 4 /\ h[1] = "content-disposition:" /\ h[2] = "form-data"
      /\ h[3] = ";" /\ h[4] = "name="
  BY <1>0, FourIs, Zenon
<1>2. f1 \in Seq(U) /\ Len(f1) = 2 /\ f1[1] = ";" /\ f1[2] = "filename="
  BY <1>0, TwoIs, Zenon
<1>3. f2 \in Seq(U) /\ Len(f2) = 3 /\ f2[1] = CRLF /\ f2[2] = "content-type:" /\ f2[3] = "octet-stream"
  BY <1>0, ThreeIs, Zenon
<1>4. name \in Seq(U) /\ file \in Seq(U) /\ Len(name) \in Nat /\ Len(file) \in Nat
  BY SendableIs
<1>5. d = x \o (IF file = <<>> THEN <<>> ELSE z)
  BY DEF Disposition
<1> HIDE DEF h, f1, f2, d, name, file
<1>6. x \in Seq(U) /\ Joins(h, name, x)
  BY <1>1, <1>4, ConcatIs, Zenon
<1>7. y \in Seq(U) /\ Joins(f1, file, y)
  BY <1>2, <1>4, ConcatIs, Zenon
<1> HIDE DEF x, y
<1>8. z \in Seq(U) /\ Joins(y, f2, z)
  BY <1>3, <1>7, ConcatIs, Zenon
<1> HIDE DEF z
<1>9. x[1] = "content-disposition:" /\ x[2] = "form-data" /\ x[3] = ";" /\ x[4] = "name="
  <2>1. \A i \in 1..4 : x[i] = h[i]
    BY <1>1, <1>6, Zenon DEF Joins
  <2>2. 1 \in 1..4 /\ 2 \in 1..4 /\ 3 \in 1..4 /\ 4 \in 1..4
    OBVIOUS
  <2> QED BY <1>1, <2>1, <2>2, Zenon
<1>10. \A i \in 1..Len(name) : x[4 + i] = name[i]
  BY <1>1, <1>6, Zenon DEF Joins
<1> DEFINE e == NameEnd(p)
           l == Len(file)
<1>11. Len(x) = e /\ e \in Nat /\ l \in Nat /\ e >= 4
  <2>1. Len(x) = 4 + Len(name)
    BY <1>1, <1>6, Zenon DEF Joins
  <2> QED BY <1>4, <2>1 DEF NameEnd, name
<1> HIDE DEF e
<1>12. CASE file = <<>>
  <2>1. d = x
    BY <1>5, <1>6, <1>12, ConcatEmptySeq
  <2> QED BY <1>6, <1>9, <1>10, <1>11, <1>12, <2>1, Zenon DEF Disposed, e, name, file, d
<1>13. CASE file # <<>>
  <2>1. d = x \o z
    BY <1>5, <1>13
  <2>2. d \in Seq(U) /\ Joins(x, z, d)
    BY <1>6, <1>8, <2>1, ConcatIs, Zenon
  <2>3. (\A i \in 1..e : d[i] = x[i]) /\ \A i \in 1..Len(z) : d[e + i] = z[i]
    BY <1>11, <2>2, Zenon DEF Joins
  <2>4. Len(y) = 2 + l /\ Len(z) = (2 + l) + 3
    BY <1>2, <1>3, <1>7, <1>8, Zenon DEF Joins
  <2> DEFINE q == Len(z)
  <2>5. q = l + 5 /\ (\A i \in 1..q : d[e + i] = z[i]) /\ \A i \in 1..(2 + l) : z[i] = y[i]
    <3>1. \A i \in 1..(2 + l) : z[i] = y[i]
      BY <1>8, <2>4, Zenon DEF Joins
    <3> QED BY <1>11, <2>3, <2>4, <3>1
  <2> HIDE DEF q
  <2>6. d[1] = "content-disposition:" /\ d[2] = "form-data" /\ d[3] = ";" /\ d[4] = "name="
    <3>1. 1 \in 1..e /\ 2 \in 1..e /\ 3 \in 1..e /\ 4 \in 1..e
      BY <1>11
    <3> QED BY <1>9, <2>3, <3>1, Zenon
  <2>7. \A i \in 1..Len(name) : d[4 + i] = name[i]
    <3> SUFFICES ASSUME NEW i \in 1..Len(name) PROVE d[4 + i] = name[i]
      OBVIOUS
    <3>1. 4 + i \in 1..e
      BY <1>4 DEF e, NameEnd, name
    <3> QED BY <1>10, <2>3, <3>1, Zenon
  <2>8. d[e + 1] = ";" /\ d[e + 2] = "filename="
    <3>1. 1 \in 1..q /\ 2 \in 1..q /\ 1 \in 1..(2 + l) /\ 2 \in 1..(2 + l) /\ 1 \in 1..2 /\ 2 \in 1..2
      BY <1>11, <2>5
    <3>2. y[1] = ";" /\ y[2] = "filename="
      BY <1>2, <1>7, <3>1, Zenon DEF Joins
    <3> QED BY <2>5, <3>1, <3>2, Zenon
  <2>9. \A i \in 1..l : d[e + 2 + i] = file[i]
    <3> SUFFICES ASSUME NEW i \in 1..l PROVE d[e + 2 + i] = file[i]
      OBVIOUS
    <3>1. 2 + i \in 1..(2 + l) /\ 2 + i \in 1..q /\ e + 2 + i = e + (2 + i)
      BY <1>11, <2>5
    <3>2. y[2 + i] = file[i]
      BY <1>2, <1>7, Zenon DEF Joins
    <3> QED BY <2>5, <3>1, <3>2, Zenon
  <2>10. d[e + l + 3] = CRLF /\ d[e + l + 4] = "content-type:" /\ d[e + l + 5] = "octet-stream"
    <3>1. l + 3 \in 1..q /\ l + 4 \in 1..q /\ l + 5 \in 1..q
      BY <1>11, <2>5
    <3>2. e + l + 3 = e + (l + 3) /\ e + l + 4 = e + (l + 4) /\ e + l + 5 = e + (l + 5)
          /\ (2 + l) + 1 = l + 3 /\ (2 + l) + 2 = l + 4 /\ (2 + l) + 3 = l + 5
          /\ 1 \in 1..3 /\ 2 \in 1..3 /\ 3 \in 1..3
      BY <1>11
    <3>3. z[l + 3] = CRLF /\ z[l + 4] = "content-type:" /\ z[l + 5] = "octet-stream"
      <4>1. \A i \in 1..3 : z[(2 + l) + i] = f2[i]
        BY <1>3, <1>8, <2>4, Zenon DEF Joins
      <4>2. z[(2 + l) + 1] = f2[1] /\ z[(2 + l) + 2] = f2[2] /\ z[(2 + l) + 3] = f2[3]
        BY <3>2, <4>1, Zenon
      <4> QED BY <1>3, <3>2, <4>2, Zenon
    <3> QED BY <2>5, <3>1, <3>2, <3>3, Zenon
  <2>11. Len(d) = e + l + 5
    <3>1. Len(d) = e + (l + 5)
      BY <1>11, <2>2, <2>5, Zenon DEF Joins, q
    <3> QED BY <1>11, <3>1
  <2> QED BY <1>13, <2>2, <2>6, <2>7, <2>8, <2>9, <2>10, <2>11, Zenon DEF Disposed, e, name, file, d
<1> QED BY <1>12, <1>13

\* A line is a name's and, of a file, a type's.
LEMMA LinesOf ==
  ASSUME NEW U, NEW p, Sendable(p, U)
  PROVE  \E l \in Seq(U) :
           /\ SplitAtAny(Disposition(p), {CRLF}) = <<l>>
              \/ \E m \in Seq(U) : SplitAtAny(Disposition(p), {CRLF}) = <<l, m>> /\ m # <<>> /\ Head(m) = "content-type:"
           /\ Len(l) = NameEnd(p) + (IF p.file = <<>> THEN 0 ELSE Len(p.file) + 2)
           /\ \A i \in 1..Len(l) : l[i] = Disposition(p)[i]
<1> DEFINE d == Disposition(p)
           N == Len(p.name)
           F == Len(p.file)
<1>1. d \in Seq(U) /\ Disposed(p, d)
  BY DispositionIs
<1> HIDE DEF d
<1>2. N \in Nat /\ F \in Nat /\ NameEnd(p) = 4 + N /\ Len(d) \in Nat
  BY <1>1, SendableIs DEF NameEnd
<1>3. \A i \in 1..NameEnd(p) : d[i] # CRLF
  <2> SUFFICES ASSUME NEW i \in 1..NameEnd(p) PROVE d[i] # CRLF
    OBVIOUS
  <2>1. CASE i \in 1..4
    <3>1. i = 1 \/ i = 2 \/ i = 3 \/ i = 4
      BY <2>1
    <3> QED BY <1>1, <3>1 DEF Disposed, CRLF
  <2>2. CASE i \notin 1..4
    <3>1. i - 4 \in 1..N /\ 4 + (i - 4) = i
      BY <1>2, <2>2
    <3>2. d[4 + (i - 4)] = p.name[i - 4]
      BY <1>1, <3>1 DEF Disposed
    <3>3. p.name[i - 4] # CRLF
      BY <3>1 DEF Sendable
    <3> QED BY <3>1, <3>2, <3>3
  <2> QED BY <2>1, <2>2
<1>4. CASE p.file = <<>>
  <2>1. Len(d) = NameEnd(p)
    BY <1>1, <1>4 DEF Disposed
  <2>2. \A i \in 1..Len(d) : d[i] \notin {CRLF}
    BY <1>3, <2>1
  <2>3. SplitAtAny(d, {CRLF}) = <<d>>
    BY <1>1, <2>2, OnePiece
  <2>4. Len(d) = NameEnd(p) + (IF p.file = <<>> THEN 0 ELSE F + 2)
    BY <1>2, <1>4, <2>1
  <2> QED BY <1>1, <2>3, <2>4 DEF d
<1>5. CASE p.file # <<>>
  <2> DEFINE e == NameEnd(p)
             j == e + F + 3
             l == SubSeq(d, 1, j - 1)
             m == SubSeq(d, j + 1, Len(d))
  <2>1. /\ Len(d) = e + F + 5 /\ d[e + 1] = ";" /\ d[e + 2] = "filename="
        /\ \A i \in 1..F : d[e + 2 + i] = p.file[i]
        /\ d[e + F + 3] = CRLF /\ d[e + F + 4] = "content-type:" /\ d[e + F + 5] = "octet-stream"
    BY <1>1, <1>5 DEF Disposed
  <2>2. e \in Nat /\ e >= 4
    BY <1>2
  <2> HIDE DEF e
  <2>3. j \in 1..Len(d) /\ d[j] \in {CRLF}
    <3>1. j \in 1..Len(d)
      <4>1. Len(d) = e + F + 5
        BY <2>1, Zenon
      <4> QED BY <1>2, <2>2, <4>1
    <3>2. d[j] = CRLF
      BY <2>1, Zenon
    <3> QED BY <3>1, <3>2
  <2>4. \A i \in 1..Len(d) : i # j => d[i] \notin {CRLF}
    <3> SUFFICES ASSUME NEW i \in 1..Len(d), i # j, d[i] = CRLF PROVE FALSE
      BY Zenon
    <3>1. CASE i \in 1..e
      BY <1>3, <3>1 DEF e
    <3>2. CASE i = e + 1 \/ i = e + 2 \/ i = e + F + 4 \/ i = e + F + 5
      BY <2>1, <3>2 DEF CRLF
    <3>3. CASE i \in (e + 3)..(e + F + 2)
      <4>1. i - (e + 2) \in 1..F /\ e + 2 + (i - (e + 2)) = i
        BY <1>2, <2>2, <3>3
      <4>2. d[e + 2 + (i - (e + 2))] = p.file[i - (e + 2)]
        BY <2>1, <4>1
      <4>3. p.file[i - (e + 2)] # CRLF
        BY <4>1 DEF Sendable
      <4> QED BY <4>1, <4>2, <4>3
    <3>4. i \in 1..(e + F + 5) /\ i # e + F + 3
      BY <2>1
    <3>5. i \in 1..e \/ (i = e + 1 \/ i = e + 2 \/ i = e + F + 4 \/ i = e + F + 5) \/ i \in (e + 3)..(e + F + 2)
      BY <1>2, <2>2, <3>4
    <3> QED BY <3>1, <3>2, <3>3, <3>5, Zenon
  <2> HIDE DEF j
  <2>5. SplitAtAny(d, {CRLF}) = <<l, m>>
    BY <1>1, <2>3, <2>4, TwoPieces
  <2>6. l \in Seq(U) /\ Len(l) = j - 1 /\ \A i \in 1..Len(l) : l[i] = d[i]
    BY <1>1, <1>2, <2>3
  <2>7. m \in Seq(U) /\ Len(m) = 2 /\ m[1] = d[j + 1]
    <3>0. Len(d) = e + F + 5
      BY <2>1, Zenon
    <3>1. j \in Nat /\ j >= 1 /\ Len(d) = j + 2
      BY <1>2, <2>2, <3>0 DEF j
    <3>2. \A i \in (j + 1)..Len(d) : d[i] \in U
      BY <1>1, <1>2, <3>1
    <3> HIDE DEF m
    <3>3. m \in Seq(U) /\ Len(m) = (IF j + 1 <= Len(d) THEN Len(d) - (j + 1) + 1 ELSE 0)
          /\ \A i \in 1..(Len(d) - (j + 1) + 1) : m[i] = d[(j + 1) + i - 1]
      BY <3>1, <3>2, SubSeqProperties DEF m
    <3> DEFINE q == Len(m)
    <3>4. q = 2
      BY <3>1, <3>3
    <3>5. m[1] = d[(j + 1) + 1 - 1] /\ (j + 1) + 1 - 1 = j + 1
      BY <3>1, <3>3
    <3> HIDE DEF q
    <3> QED BY <3>3, <3>4, <3>5 DEF q
  <2>8. m # <<>> /\ Head(m) = "content-type:"
    <3>0. j + 1 = e + F + 4
      BY <1>2, <2>2 DEF j
    <3>1. d[j + 1] = "content-type:"
      BY <2>1, <3>0, Zenon
    <3> HIDE DEF m
    <3>2. m # <<>>
      <4>1. Len(<<>>) = 0
        OBVIOUS
      <4>2. m = <<>> => Len(<<>>) = 2
        BY <2>7, Zenon
      <4> QED BY <4>1, <4>2
    <3>3. Head(m) = m[1]
      BY <2>7, <3>2
    <3> QED BY <2>7, <3>1, <3>2, <3>3
  <2>9. Len(l) = NameEnd(p) + (IF p.file = <<>> THEN 0 ELSE F + 2)
    <3>1. Len(l) = j - 1
      BY <2>6
    <3>2. j - 1 = e + (F + 2)
      BY <1>2, <2>2 DEF j
    <3> HIDE DEF l
    <3> QED BY <1>5, <3>1, <3>2, Zenon DEF e
  <2> HIDE DEF l, m
  <2> QED BY <2>5, <2>6, <2>7, <2>8, <2>9 DEF d
<1> QED BY <1>4, <1>5

----------------------------------------------------------------------------
(* The attributes of its disposition. *)

\* A function on 1..n is a sequence.
LEMMA SequenceOf ==
  ASSUME NEW S, NEW n \in Nat, NEW f, f = [i \in 1..n |-> f[i]], \A i \in 1..n : f[i] \in S
  PROVE  f \in Seq(S)
  OBVIOUS

\* The pieces of a sequence are sequences.
LEMMA PiecesTyped ==
  ASSUME NEW U, NEW s \in Seq(U), NEW separators
  PROVE  SplitAtAny(s, separators) \in Seq(Seq(U))
<1>1. PICK c : Cutting(s, separators, c)
  BY PiecesAre
<1>2. Len(c) - 1 \in Nat /\ \A k \in 1..(Len(c) - 1) : c[k] \in Nat /\ c[k + 1] \in Nat /\ c[k + 1] =< Len(s) + 1
  <2>1. Cuts(s, separators, c)
    BY <1>1 DEF Cutting
  <2>2. c \in Seq(Nat) /\ Len(c) >= 2 /\ c[Len(c)] = Len(s) + 1 /\ Len(s) \in Nat
    BY <2>1 DEF Cuts
  <2>3. \A i, k \in 1..Len(c) : i < k => c[i] < c[k]
    BY <2>1 DEF Cuts
  <2>4. Len(c) \in Nat /\ \A k \in 1..Len(c) : c[k] \in Nat
    BY <2>2
  <2> SUFFICES ASSUME NEW k \in 1..(Len(c) - 1) PROVE c[k] \in Nat /\ c[k + 1] \in Nat /\ c[k + 1] =< Len(s) + 1
    BY <2>2, <2>4
  <2>5. k \in 1..Len(c) /\ k + 1 \in 1..Len(c) /\ Len(c) \in 1..Len(c) /\ (k + 1 < Len(c) \/ k + 1 = Len(c))
    BY <2>2, <2>4
  <2>6. k + 1 < Len(c) => c[k + 1] < c[Len(c)]
    BY <2>3, <2>5, Zenon
  <2> QED BY <2>2, <2>4, <2>5, <2>6
<1> DEFINE n == Len(c) - 1
           f == [k \in 1..n |-> SubSeq(s, c[k] + 1, c[k + 1] - 1)]
<1>3. ASSUME NEW k \in 1..n PROVE f[k] \in Seq(U)
  <2>1. c[k] + 1 \in Int /\ c[k + 1] - 1 \in Int /\ \A i \in (c[k] + 1)..(c[k + 1] - 1) : s[i] \in U
    BY <1>2
  <2>2. SubSeq(s, c[k] + 1, c[k + 1] - 1) \in Seq(U)
    BY <2>1, SubSeqProperties
  <2> QED BY <2>2
<1>4. f = [k \in 1..n |-> f[k]]
  OBVIOUS
<1> HIDE DEF f
<1>5. n \in Nat
  BY <1>2
<1>6. SplitAtAny(s, separators) = f
  BY <1>1 DEF f, Cutting
<1> HIDE DEF n
<1>7. f \in Seq(Seq(U))
  BY <1>3, <1>4, <1>5, SequenceOf
<1> QED BY <1>6, <1>7

\* What is between the type of the disposition and its end.
Named(p, t) ==
  /\ Len(t) = Len(p.name) + 3 + (IF p.file = <<>> THEN 0 ELSE Len(p.file) + 2)
  /\ t[1] = "form-data" /\ t[2] = ";" /\ t[3] = "name="
  /\ \A i \in 1..Len(p.name) : t[3 + i] = p.name[i]
  /\ p.file # <<>> =>
       /\ t[Len(p.name) + 4] = ";" /\ t[Len(p.name) + 5] = "filename="
       /\ \A i \in 1..Len(p.file) : t[Len(p.name) + 5 + i] = p.file[i]

\* The attributes of a part are those of its first line.
LEMMA AttributesAre ==
  ASSUME NEW U, NEW p, Sendable(p, U)
  PROVE  \E t \in Seq(U) :
           Named(p, t) /\ Attributes(SplitAtAny(Disposition(p), {CRLF})) = SplitAtAny(t, {";"})
<1> DEFINE d == Disposition(p)
           lines == SplitAtAny(d, {CRLF})
           N == Len(p.name)
           F == Len(p.file)
<1>1. PICK l \in Seq(U) :
        /\ lines = <<l>> \/ \E m \in Seq(U) : lines = <<l, m>> /\ m # <<>> /\ Head(m) = "content-type:"
        /\ Len(l) = NameEnd(p) + (IF p.file = <<>> THEN 0 ELSE F + 2)
        /\ \A i \in 1..Len(l) : l[i] = d[i]
  BY LinesOf
<1> DEFINE x == IF p.file = <<>> THEN 0 ELSE F + 2
<1>2. N \in Nat /\ F \in Nat /\ NameEnd(p) = 4 + N /\ x \in Nat
  BY SendableIs DEF NameEnd
<1>3. d \in Seq(U) /\ Disposed(p, d)
  BY DispositionIs
<1> HIDE DEF d, lines, x
<1>4. Len(l) = 4 + N + x
  BY <1>1, <1>2 DEF x
<1> DEFINE t == Tail(l)
<1>5. l # <<>> /\ Head(l) = "content-disposition:"
  <2>1. 1 \in 1..Len(l)
    BY <1>2, <1>4
  <2>2. l # <<>>
    <3> SUFFICES ASSUME l = <<>> PROVE FALSE
      OBVIOUS
    <3>1. Len(l) = 0
      OBVIOUS
    <3> QED BY <2>1, <3>1
  <2>3. Head(l) = l[1]
    BY <2>2
  <2>4. l[1] = d[1]
    BY <1>1, <2>1, Zenon
  <2>5. d[1] = "content-disposition:"
    BY <1>3 DEF Disposed
  <2> QED BY <2>2, <2>3, <2>4, <2>5, Zenon
<1>6. t \in Seq(U) /\ Len(t) = Len(l) - 1 /\ \A i \in 1..Len(t) : t[i] = l[i + 1]
  BY <1>5, HeadTailProperties
<1> HIDE DEF t
<1>7. Len(t) = N + 3 + x /\ \A i \in 1..(N + 3 + x) : t[i] = d[i + 1]
  <2>1. Len(t) = N + 3 + x
    BY <1>2, <1>4, <1>6
  <2> SUFFICES ASSUME NEW i \in 1..(N + 3 + x) PROVE t[i] = d[i + 1]
    BY <2>1
  <2>2. i \in 1..Len(t) /\ i + 1 \in 1..Len(l)
    BY <1>2, <1>4, <2>1
  <2> QED BY <1>1, <1>6, <2>2, Zenon
<1>8. Named(p, t)
  <2>1. t[1] = "form-data" /\ t[2] = ";" /\ t[3] = "name="
    <3>1. 1 \in 1..(N + 3 + x) /\ 2 \in 1..(N + 3 + x) /\ 3 \in 1..(N + 3 + x) /\ 1 + 1 = 2 /\ 2 + 1 = 3 /\ 3 + 1 = 4
      BY <1>2
    <3>2. t[1] = d[2] /\ t[2] = d[3] /\ t[3] = d[4]
      BY <1>7, <3>1, Zenon
    <3> QED BY <1>3, <3>2, Zenon DEF Disposed
  <2>2. ASSUME NEW i \in 1..N PROVE t[3 + i] = p.name[i]
    <3>1. 3 + i \in 1..(N + 3 + x) /\ (3 + i) + 1 = 4 + i
      BY <1>2
    <3>2. d[4 + i] = p.name[i]
      BY <1>3, Zenon DEF Disposed
    <3> QED BY <1>7, <3>1, <3>2, Zenon
  <2>3. CASE p.file = <<>>
    BY <1>7, <2>1, <2>2, <2>3, Zenon DEF Named, x
  <2>4. CASE p.file # <<>>
    <3>1. x = F + 2
      BY <2>4 DEF x
    <3> DEFINE e == NameEnd(p)
    <3>a. e = 4 + N /\ N \in Nat /\ F \in Nat
      BY <1>2
    <3> HIDE DEF e, N, F
    <3>2. N + 4 \in 1..(N + 3 + x) /\ N + 5 \in 1..(N + 3 + x) /\ (N + 4) + 1 = e + 1 /\ (N + 5) + 1 = e + 2
      BY <3>a, <3>1
    <3>3. t[N + 4] = d[e + 1] /\ t[N + 5] = d[e + 2]
      BY <1>7, <3>2, Zenon
    <3>4. t[N + 4] = ";" /\ t[N + 5] = "filename="
      BY <1>3, <2>4, <3>3, Zenon DEF Disposed, e
    <3>5. ASSUME NEW i \in 1..F PROVE t[N + 5 + i] = p.file[i]
      <4>1. N + 5 + i \in 1..(N + 3 + x) /\ (N + 5 + i) + 1 = e + 2 + i
        BY <3>a, <3>1
      <4>2. d[e + 2 + i] = p.file[i]
        BY <1>3, <2>4, Zenon DEF Disposed, e, F
      <4> QED BY <1>7, <4>1, <4>2, Zenon
    <3> QED BY <1>7, <2>1, <2>2, <2>4, <3>4, <3>5, Zenon DEF Named, x, N, F
  <2> QED BY <2>3, <2>4
<1>9. SplitAtAny(t, {";"}) \in Seq(Seq(U))
  BY <1>6, PiecesTyped
<1> DEFINE of(m) == IF m # <<>> /\ Head(m) = "content-disposition:" THEN SplitAtAny(Tail(m), {";"}) ELSE <<>>
<1>10. Attributes(lines) = FlattenSeq([k \in DOMAIN lines |-> of(lines[k])])
  BY DEF Attributes
<1>11. of(l) = SplitAtAny(t, {";"})
  BY <1>5 DEF t
<1> DEFINE a == SplitAtAny(t, {";"})
           g == [k \in DOMAIN lines |-> of(lines[k])]
<1>12. ASSUME lines = <<l>> PROVE Attributes(lines) = a
  <2>1. DOMAIN lines = 1..1 /\ lines[1] = l
    BY <1>12
  <2>2. g = [k \in 1..1 |-> of(lines[k])]
    BY <2>1
  <2>3. g[1] = a
    <3> HIDE DEF of
    <3>1. 1 \in 1..1
      OBVIOUS
    <3>2. g[1] = of(lines[1])
      BY <2>1, <3>1, Zenon
    <3> QED BY <1>11, <2>1, <3>2
  <2> HIDE DEF g, a
  <2>4. g = <<a>>
    <3>1. g = [k \in 1..1 |-> g[k]]
      BY <2>2
    <3>2. g = <<g[1]>>
      BY <3>1
    <3> QED BY <2>3, <3>2
  <2>5. Attributes(lines) = a
    BY <1>9, <1>10, <2>4, PairIs, Zenon DEF g, a
  <2> QED BY <2>5
<1>13. ASSUME NEW m \in Seq(U), lines = <<l, m>>, m # <<>>, Head(m) = "content-type:"
       PROVE  Attributes(lines) = a
  <2>1. DOMAIN lines = 1..2 /\ lines[1] = l /\ lines[2] = m
    BY <1>13
  <2>2. g = [k \in 1..2 |-> of(lines[k])]
    BY <2>1
  <2>3. g[1] = a /\ g[2] = <<>>
    <3>1. "content-type:" # "content-disposition:"
      OBVIOUS
    <3>2. of(m) = <<>>
      BY <1>13, <3>1
    <3> HIDE DEF of
    <3>3. 1 \in 1..2 /\ 2 \in 1..2
      OBVIOUS
    <3>4. g[1] = of(lines[1]) /\ g[2] = of(lines[2])
      BY <2>1, <3>3, Zenon
    <3> QED BY <1>11, <2>1, <3>2, <3>4
  <2> HIDE DEF g, a, of
  <2>4. g = <<a, <<>>>>
    <3>1. g = [k \in 1..2 |-> g[k]]
      BY <2>2
    <3>2. g = <<g[1], g[2]>>
      BY <3>1
    <3> QED BY <2>3, <3>2
  <2> QED BY <1>9, <1>10, <2>4, PairIs, Zenon DEF g, a
<1> HIDE DEF a, g, of
<1>14. Attributes(lines) = a
  BY <1>1, <1>12, <1>13, Zenon
<1> QED BY <1>6, <1>8, <1>14 DEF a, lines, d

----------------------------------------------------------------------------
(* The name in them. *)

FileOnly(p) == Found(p.file, <<";", "name=">>) = {}

\* Two lexemes are found where they stand,
LEMMA FoundPair ==
  ASSUME NEW U, NEW s \in Seq(U), NEW a, NEW b, NEW j \in 1..(Len(s) - 1), s[j] = a, s[j + 1] = b
  PROVE  j \in Found(s, <<a, b>>)
<1>0. Len(s) \in Nat /\ Len(<<a, b>>) = 2
  OBVIOUS
<1> DEFINE q == SubSeq(s, j, j + 1)
<1>1. q = [i \in 1..2 |-> s[j + i - 1]]
  BY <1>0
<1>2. q[1] = s[j] /\ q[2] = s[j + 1]
  BY <1>0, <1>1
<1> HIDE DEF q
<1>3. q = <<q[1], q[2]>>
  BY <1>1
<1>4. q = <<a, b>>
  BY <1>2, <1>3
<1>5. j \in 1..(Len(s) + 1 - Len(<<a, b>>)) /\ j + Len(<<a, b>>) - 1 = j + 1
  BY <1>0
<1> QED BY <1>4, <1>5 DEF Found, q

\* The marks of a disposition.
Semi == ";"
NameKey == "name="
FileNameKey == "filename="
FormData == "form-data"

\* The marks of the attributes are different.
LEMMA MarksDiffer ==
  /\ Semi # NameKey /\ Semi # FileNameKey /\ Semi # FormData
  /\ NameKey # FileNameKey /\ NameKey # FormData
  BY DEF Semi, NameKey, FileNameKey, FormData

\* Only one attribute names a part.
LEMMA OneNames ==
  ASSUME NEW U, NEW p, Sendable(p, U), FileOnly(p), NEW t \in Seq(U), Named(p, t),
         NEW u \in 0..Len(t), u + 1 \in 1..Len(t), t[u + 1] = NameKey, u = 0 \/ t[u] = Semi
  PROVE  u = 2
<1> DEFINE N == Len(p.name)
           F == Len(p.file)
           L == Len(t)
<1>1. N \in Nat /\ F \in Nat /\ L \in Nat
  <2>1. L \in Nat
    OBVIOUS
  <2> QED BY <2>1, SendableIs
<1>a. p.file \in Seq(U)
  BY SendableIs
<1>2. \A i \in 1..N : p.name[i] # Semi
  BY Zenon DEF Sendable, Semi
<1>3. t[1] = FormData /\ t[2] = Semi /\ t[3] = NameKey /\ \A i \in 1..N : t[3 + i] = p.name[i]
  BY Zenon DEF Named, Semi, NameKey, FileNameKey, FormData
<1>4. u # 0
  <2> SUFFICES ASSUME u = 0 PROVE FALSE
    OBVIOUS
  <2>1. t[1] = NameKey
    OBVIOUS
  <2> QED BY <1>3, <2>1, MarksDiffer
<1>5. u # 1 /\ u # 3
  BY <1>3, MarksDiffer
<1>6. ~(u \in 4..(N + 3))
  <2> SUFFICES ASSUME u \in 4..(N + 3) PROVE FALSE
    OBVIOUS
  <2>1. u - 3 \in 1..N /\ 3 + (u - 3) = u
    BY <1>1
  <2>2. t[u] = p.name[u - 3]
    BY <1>3, <2>1, Zenon
  <2> QED BY <1>2, <1>4, <2>1, <2>2, Zenon
<1>7. CASE p.file = <<>>
  <2>1. L = N + 3 + 0
    BY <1>7, Zenon DEF Named, Semi, NameKey, FileNameKey, FormData
  <2> HIDE DEF L, N
  <2>2. u + 1 \in 1..L /\ u \in Nat
    BY DEF L
  <2>3. u \in 1..(N + 2)
    BY <1>1, <1>4, <2>1, <2>2
  <2> QED BY <1>1, <1>5, <1>6, <2>3
<1>8. CASE p.file # <<>>
  <2>1. L = N + 3 + (F + 2) /\ t[N + 4] = Semi /\ t[N + 5] = FileNameKey
        /\ \A i \in 1..F : t[N + 5 + i] = p.file[i]
    BY <1>8, Zenon DEF Named, Semi, NameKey, FileNameKey, FormData
  <2> HIDE DEF L, N, F
  <2>2. u + 1 \in 1..L /\ u \in Nat
    BY DEF L
  <2>3. u # N + 4
    <3> SUFFICES ASSUME u = N + 4 PROVE FALSE
      OBVIOUS
    <3>1. t[N + 5] = NameKey
      <4>1. u + 1 = N + 5
        BY <1>1
      <4> QED BY <4>1
    <3> QED BY <2>1, <3>1, MarksDiffer
  <2>4. u # N + 5
    <3> SUFFICES ASSUME u = N + 5 PROVE FALSE
      OBVIOUS
    <3>1. t[N + 5] = Semi
      BY <1>4
    <3> QED BY <2>1, <3>1, MarksDiffer
  <2>5. ~(u >= N + 6)
    <3> SUFFICES ASSUME u >= N + 6 PROVE FALSE
      OBVIOUS
    <3> DEFINE i == u - (N + 5)
    <3>1. i \in 1..(F - 1) /\ i \in 1..F /\ i + 1 \in 1..F /\ N + 5 + i = u /\ N + 5 + (i + 1) = u + 1
      BY <1>1, <2>1, <2>2
    <3> HIDE DEF i
    <3>2. p.file[i] = Semi /\ p.file[i + 1] = NameKey
      BY <1>4, <2>1, <3>1, Zenon
    <3>3. i \in Found(p.file, <<";", "name=">>)
      BY <1>a, <3>1, <3>2, FoundPair DEF F, Semi, NameKey
    <3> QED BY <3>3 DEF FileOnly
  <2>6. u \in 1..(N + 5) \/ u >= N + 6
    BY <1>1, <1>4, <2>2
  <2> QED BY <1>1, <1>5, <1>6, <2>3, <2>4, <2>5, <2>6
<1> QED BY <1>7, <1>8

\* The name of a part is the name it was given.
LEMMA NameIs ==
  ASSUME NEW U, NEW p, Sendable(p, U), FileOnly(p)
  PROVE  PartName(SplitAtAny(Disposition(p), {CRLF})) = {p.name}
<1> DEFINE lines == SplitAtAny(Disposition(p), {CRLF})
           seps == {";"}
<1>1. PICK t \in Seq(U) : Named(p, t) /\ Attributes(lines) = SplitAtAny(t, seps)
  BY AttributesAre
<1>2. PICK c : Cutting(t, seps, c)
  BY PiecesAre
<1>b. \A x : x \in seps <=> x = Semi
  BY DEF Semi
<1> HIDE DEF seps
<1> HIDE DEF lines
<1> DEFINE N == Len(p.name)
           L == Len(t)
           a == Attributes(lines)
<1>3. N \in Nat /\ L \in Nat
  BY SendableIs
<1>a. p.name \in Seq(U)
  BY SendableIs
<1>4. t[1] = FormData /\ t[2] = Semi /\ t[3] = NameKey /\ \A i \in 1..N : t[3 + i] = p.name[i]
  BY <1>1, Zenon DEF Named, Semi, NameKey, FileNameKey, FormData
<1>5. L >= N + 3 /\ (L = N + 3 \/ (L >= N + 4 /\ t[N + 4] = Semi))
  <2>1. CASE p.file = <<>>
    <3>1. L = N + 3 + 0
      BY <1>1, <2>1, Zenon DEF Named, Semi, NameKey, FileNameKey, FormData
    <3> HIDE DEF L, N
    <3> QED BY <1>3, <3>1
  <2>2. CASE p.file # <<>>
    <3>1. L = N + 3 + (Len(p.file) + 2) /\ t[N + 4] = Semi
      BY <1>1, <2>2, Zenon DEF Named, Semi, NameKey, FileNameKey, FormData
    <3>2. Len(p.file) \in Nat
      BY SendableIs
    <3> DEFINE F == Len(p.file)
    <3>3. L = N + 3 + (F + 2) /\ F \in Nat
      BY <3>1, <3>2, Zenon
    <3>4. t[N + 4] = Semi
      BY <3>1, Zenon
    <3> HIDE DEF L, N, F
    <3> QED BY <1>3, <3>3, <3>4
  <2> QED BY <2>1, <2>2
<1>6. PICK k \in 1..(Len(c) - 1) : c[k] = 2 /\ c[k + 1] = N + 4
  <2>1. Cuts(t, seps, c)
    BY <1>2 DEF Cutting
  <2>2. 2 \in 0..L /\ N + 4 \in 1..(L + 1) /\ 2 < N + 4 /\ (N + 4 = L + 1 \/ t[N + 4] \in seps) /\ t[2] \in seps
    <3>1. t[2] \in seps
      BY <1>4, <1>b, Zenon
    <3>2. t[N + 4] = Semi => t[N + 4] \in seps
      BY <1>b, Zenon
    <3> HIDE DEF L, N
    <3> QED BY <1>3, <1>5, <3>1, <3>2
  <2>3. \A j \in (2 + 1)..((N + 4) - 1) : t[j] \notin seps
    <3> SUFFICES ASSUME NEW j \in 3..(N + 3), t[j] = Semi PROVE FALSE
      BY <1>3, <1>b
    <3>1. j # 3
      BY <1>4, MarksDiffer
    <3>2. j - 3 \in 1..N /\ 3 + (j - 3) = j
      BY <1>3, <3>1
    <3>3. p.name[j - 3] = Semi
      BY <1>4, <3>2, Zenon
    <3> QED BY <3>2, <3>3, Zenon DEF Sendable, Semi
  <2>4. \E k \in 1..(Len(c) - 1) : c[k] = 2 /\ c[k + 1] = N + 4
    <3> DEFINE u == 2
               v == N + 4
    <3>1. u \in 0..Len(t) /\ v \in 1..(Len(t) + 1) /\ u < v
      BY <2>2, Zenon
    <3>2. (u = 0 \/ t[u] \in seps) /\ (v = Len(t) + 1 \/ t[v] \in seps)
      BY <2>2, Zenon
    <3>3. \A j \in (u + 1)..(v - 1) : t[j] \notin seps
      BY <2>3, Zenon
    <3> HIDE DEF u, v, N, L, a
    <3>4. \E k \in 1..(Len(c) - 1) : c[k] = u /\ c[k + 1] = v
      BY <2>1, <3>1, <3>2, <3>3, PieceAt
    <3> QED BY <3>4, Zenon DEF u, v
  <2> QED BY <2>4, Zenon
<1>7. a = [i \in 1..(Len(c) - 1) |-> SubSeq(t, c[i] + 1, c[i + 1] - 1)]
  BY <1>1, <1>2 DEF Cutting
<1> HIDE DEF a
<1> DEFINE m == SubSeq(t, 3, N + 3)
<1>8. a[k] = m /\ k \in DOMAIN a
  <2>1. c[k] + 1 = 3 /\ c[k + 1] - 1 = N + 3
    BY <1>3, <1>6
  <2>2. a[k] = SubSeq(t, c[k] + 1, c[k + 1] - 1) /\ k \in DOMAIN a
    BY <1>7
  <2> QED BY <2>1, <2>2, Zenon
<1>9. m # <<>> /\ Head(m) = NameKey /\ Tail(m) = p.name
  <2>1. 3 \in Int /\ N + 3 \in Int /\ (\A i \in 3..(N + 3) : t[i] \in U) /\ (N + 3) - 3 + 1 = N + 1 /\ 3 <= N + 3
    <3>1. \A i \in 1..L : t[i] \in U
      OBVIOUS
    <3> HIDE DEF L, N
    <3> QED BY <1>3, <1>5, <3>1
  <2>2. m \in Seq(U) /\ Len(m) = (IF 3 <= N + 3 THEN (N + 3) - 3 + 1 ELSE 0)
        /\ \A i \in 1..((N + 3) - 3 + 1) : m[i] = t[3 + i - 1]
    BY <2>1, SubSeqProperties
  <2> HIDE DEF m, N
  <2>3. Len(m) = N + 1 /\ \A i \in 1..(N + 1) : m[i] = t[3 + i - 1]
    BY <2>1, <2>2
  <2>4. m # <<>>
    <3> SUFFICES ASSUME m = <<>> PROVE FALSE
      OBVIOUS
    <3>1. Len(m) = 0
      OBVIOUS
    <3> QED BY <1>3, <2>3, <3>1
  <2>5. Head(m) \in U /\ Tail(m) \in Seq(U) /\ Len(Tail(m)) = Len(m) - 1
        /\ \A i \in 1..Len(Tail(m)) : Tail(m)[i] = m[i + 1]
    BY <2>2, <2>4, HeadTailProperties
  <2>6. Head(m) = m[1]
    BY <2>2, <2>4
  <2>7. m[1] = t[3]
    <3>1. 1 \in 1..(N + 1) /\ 3 + 1 - 1 = 3
      BY <1>3
    <3> QED BY <2>3, <3>1, Zenon
  <2>8. Len(Tail(m)) = N
    BY <1>3, <2>3, <2>5
  <2>9. ASSUME NEW i \in 1..Len(Tail(m)) PROVE Tail(m)[i] = p.name[i]
    <3>1. i \in 1..N /\ i + 1 \in 1..(N + 1) /\ 3 + (i + 1) - 1 = 3 + i
      BY <1>3, <2>8
    <3> QED BY <1>4, <2>3, <2>5, <3>1, Zenon
  <2>10. Tail(m) = p.name
    BY <1>a, <2>5, <2>8, <2>9, SeqEqual, Zenon DEF N
  <2> QED BY <1>4, <2>4, <2>6, <2>7, <2>10, Zenon
<1> HIDE DEF m
<1>10. ASSUME NEW i \in DOMAIN a, a[i] # <<>>, Head(a[i]) = NameKey PROVE i = k
  <2>1. i \in 1..(Len(c) - 1) /\ a[i] = SubSeq(t, c[i] + 1, c[i + 1] - 1)
    BY <1>7
  <2>2. Cuts(t, seps, c)
    BY <1>2 DEF Cutting
  <2>3. c \in Seq(Nat) /\ Len(c) >= 2 /\ c[1] = 0 /\ c[Len(c)] = L + 1
        /\ \A x, y \in 1..Len(c) : x < y => c[x] < c[y]
    BY <2>2 DEF Cuts
  <2>4. Len(c) \in Nat /\ \A x \in 1..Len(c) : c[x] \in Nat
    BY <2>3
  <2>5. i \in 1..Len(c) /\ i + 1 \in 1..Len(c) /\ Len(c) \in 1..Len(c) /\ (i + 1 = Len(c) \/ i + 1 < Len(c))
        /\ 1 \in 1..Len(c) /\ (i = 1 \/ 1 < i)
    BY <2>1, <2>4
  <2>6. c[i] \in Nat /\ c[i + 1] \in Nat /\ c[i + 1] =< L + 1
    <3>1. i + 1 < Len(c) => c[i + 1] < c[Len(c)]
      BY <2>3, <2>5, Zenon
    <3>2. c[Len(c)] = L + 1 /\ c[i] \in Nat /\ c[i + 1] \in Nat
      BY <2>3, <2>4, <2>5, Zenon
    <3>3. c[i + 1] = L + 1 \/ c[i + 1] < L + 1
      BY <2>5, <3>1, <3>2, Zenon
    <3> HIDE DEF L
    <3> QED BY <1>3, <3>2, <3>3
  <2> DEFINE u == c[i]
             v == c[i + 1]
  <2>7. u \in Nat /\ v \in Nat /\ v =< L + 1 /\ a[i] = SubSeq(t, u + 1, v - 1)
    BY <2>1, <2>6
  <2>8. (u = 0 \/ t[u] = Semi) /\ (i = 1 => u = 0)
    <3>1. i = 1 => u = 0
      BY <2>3
    <3>2. ASSUME i # 1 PROVE t[u] = Semi
      <4>1. i \in 2..(Len(c) - 1)
        BY <2>1, <2>4, <3>2
      <4>2. c[1] < c[i] /\ c[i] < c[i + 1]
        <5>1. 1 < i /\ i < i + 1
          BY <2>5, <3>2
        <5> QED BY <2>3, <2>5, <5>1, Zenon
      <4>3. u \in 1..L
        <5>1. u > 0 /\ u < v
          BY <2>3, <4>2
        <5> HIDE DEF u, v, L
        <5> QED BY <1>3, <2>7, <5>1
      <4>4. t[u] \in seps
        BY <2>2, <4>1, <4>3 DEF Cuts
      <4> QED BY <1>b, <4>4, Zenon
    <3> QED BY <3>1, <3>2
  <2> HIDE DEF u, v
  <2>9. u + 1 =< v - 1
    <3> SUFFICES ASSUME v - 1 < u + 1 PROVE FALSE
      BY <2>7
    <3>1. SubSeq(t, u + 1, v - 1) = <<>>
      BY <2>7, SubSeqEmpty
    <3> QED BY <1>10, <2>7, <3>1
  <2>10. Head(a[i]) = t[u + 1]
    <3>1. \A x \in (u + 1)..(v - 1) : t[x] \in U
      <4>1. \A x \in 1..L : t[x] \in U
        OBVIOUS
      <4> HIDE DEF L
      <4> QED BY <1>3, <2>7, <4>1
    <3>2. a[i] \in Seq(U) /\ \A x \in 1..((v - 1) - (u + 1) + 1) : a[i][x] = t[(u + 1) + x - 1]
      BY <2>7, <3>1, SubSeqProperties
    <3>3. 1 \in 1..((v - 1) - (u + 1) + 1) /\ (u + 1) + 1 - 1 = u + 1
      BY <2>7, <2>9
    <3>4. a[i][1] = t[u + 1]
      BY <3>2, <3>3, Zenon
    <3>5. Head(a[i]) = a[i][1]
      BY <1>10, <3>2
    <3> QED BY <3>4, <3>5
  <2>11. u = 2
    <3>1. u \in 0..L /\ u + 1 \in 1..L
      <4> HIDE DEF L
      <4> QED BY <1>3, <2>7, <2>9
    <3> QED BY <1>1, <1>10, <2>8, <2>10, <3>1, OneNames, Zenon
  <2>12. c[i] = c[k]
    BY <1>6, <2>11 DEF u
  <2>13. k \in 1..Len(c) /\ (i < k \/ k < i \/ i = k)
    BY <2>4, <2>5
  <2>14. i < k => c[i] < c[k]
    BY <2>3, <2>5, <2>13, Zenon
  <2>15. k < i => c[k] < c[i]
    BY <2>3, <2>5, <2>13, Zenon
  <2>16. ~(c[i] < c[k]) /\ ~(c[k] < c[i])
    BY <2>4, <2>5, <2>12, <2>13
  <2> QED BY <2>13, <2>14, <2>15, <2>16, Zenon
<1>11. Of(a, NameKey) = {k}
  BY <1>8, <1>9, <1>10 DEF Of, NameKey
<1> DEFINE named == Of(a, NameKey)
<1>12. {j \in named : \A i \in named : i =< j} = {k}
  <2>1. k =< k
    OBVIOUS
  <2> QED BY <1>11, <2>1
<1>13. PartName(lines) = {Tail(a[j]) : j \in {i \in named : \A l \in named : l =< i}}
  BY DEF PartName, a, NameKey
<1> HIDE DEF named
<1>14. PartName(lines) = {Tail(a[j]) : j \in {k}}
  BY <1>12, <1>13
<1> QED BY <1>8, <1>9, <1>14 DEF lines

----------------------------------------------------------------------------
(* A part between two delimiters. *)

\* The only line break of a disposition is before the type of its file.
LEMMA BreaksAre ==
  ASSUME NEW U, NEW p, Sendable(p, U), NEW d \in Seq(U), Disposed(p, d), NEW i \in 1..Len(d), d[i] = CRLF
  PROVE  p.file # <<>> /\ i = NameEnd(p) + Len(p.file) + 3
<1> DEFINE N == Len(p.name)
           F == Len(p.file)
           e == NameEnd(p)
<1>1. N \in Nat /\ F \in Nat /\ e = 4 + N
  BY SendableIs DEF NameEnd
<1>2. \A j \in 1..N : p.name[j] # CRLF
  BY Zenon DEF Sendable
<1>3. \A j \in 1..F : p.file[j] # CRLF
  BY Zenon DEF Sendable
<1>4. /\ d[1] # CRLF /\ d[2] # CRLF /\ d[3] # CRLF /\ d[4] # CRLF
      /\ p.file # <<>> => d[e + 1] # CRLF /\ d[e + 2] # CRLF /\ d[e + F + 4] # CRLF /\ d[e + F + 5] # CRLF
  <2>1. /\ "content-disposition:" # CRLF /\ "form-data" # CRLF /\ ";" # CRLF /\ "name=" # CRLF
        /\ "filename=" # CRLF /\ "content-type:" # CRLF /\ "octet-stream" # CRLF
    BY DEF CRLF
  <2> QED BY <2>1, Zenon DEF Disposed
<1>5. \A j \in 1..N : d[4 + j] = p.name[j]
  BY Zenon DEF Disposed
<1>6. ~(i \in 1..e)
  <2> SUFFICES ASSUME i \in 1..e PROVE FALSE
    OBVIOUS
  <2>1. i # 1 /\ i # 2 /\ i # 3 /\ i # 4
    BY <1>4, Zenon
  <2> HIDE DEF N, e
  <2>2. i - 4 \in 1..N /\ 4 + (i - 4) = i
    BY <1>1, <2>1
  <2> QED BY <1>2, <1>5, <2>2, Zenon
<1>7. CASE p.file = <<>>
  <2>1. Len(d) = e
    BY <1>7 DEF Disposed
  <2> QED BY <1>6, <2>1
<1>8. CASE p.file # <<>>
  <2>1. Len(d) = e + F + 5 /\ \A j \in 1..F : d[e + 2 + j] = p.file[j]
    BY <1>8, Zenon DEF Disposed
  <2> HIDE DEF N, F, e
  <2>2. i \in 1..(e + F + 5)
    BY <2>1
  <2>3. i # e + 1 /\ i # e + 2 /\ i # e + F + 4 /\ i # e + F + 5
    BY <1>4, <1>8, Zenon
  <2>4. ~(i \in (e + 3)..(e + F + 2))
    <3> SUFFICES ASSUME i \in (e + 3)..(e + F + 2) PROVE FALSE
      OBVIOUS
    <3>1. i - (e + 2) \in 1..F /\ e + 2 + (i - (e + 2)) = i
      BY <1>1
    <3> QED BY <1>3, <2>1, <3>1, Zenon
  <2>5. i = e + F + 3
    BY <1>1, <1>6, <2>2, <2>3, <2>4
  <2> QED BY <1>8, <2>5 DEF e, F
<1> QED BY <1>7, <1>8

\* and stand where they are found.
LEMMA PairFound ==
  ASSUME NEW U, NEW s \in Seq(U), NEW a, NEW b, NEW j \in Found(s, <<a, b>>)
  PROVE  j \in 1..(Len(s) - 1) /\ s[j] = a /\ s[j + 1] = b
<1>0. Len(s) \in Nat /\ Len(<<a, b>>) = 2
  OBVIOUS
<1> DEFINE q == SubSeq(s, j, j + 1)
<1>1. j \in 1..(Len(s) + 1 - Len(<<a, b>>)) /\ SubSeq(s, j, j + Len(<<a, b>>) - 1) = <<a, b>>
  BY DEF Found
<1>2. j \in 1..(Len(s) - 1) /\ j + Len(<<a, b>>) - 1 = j + 1
  BY <1>0, <1>1
<1>3. q = <<a, b>>
  BY <1>1, <1>2
<1>4. q[1] = s[j] /\ q[2] = s[j + 1]
  <2>1. q = [i \in 1..2 |-> s[j + i - 1]]
    BY <1>0, <1>2
  <2> QED BY <1>2, <2>1
<1> HIDE DEF q
<1>5. q[1] = a /\ q[2] = b
  BY <1>3
<1> QED BY <1>2, <1>4, <1>5

\* A part of a body, between two delimiters.
Enclosed(p, d, segment) ==
  /\ Len(segment) = Len(d) + Len(p.data) + 4
  /\ segment[1] = CRLF /\ segment[Len(d) + 2] = CRLF /\ segment[Len(d) + 3] = CRLF
  /\ segment[Len(d) + Len(p.data) + 4] = CRLF
  /\ \A i \in 1..Len(d) : segment[i + 1] = d[i]
  /\ \A i \in 1..Len(p.data) : segment[Len(d) + 3 + i] = p.data[i]

Told(p) == [name |-> {p.name}, value |-> p.data, utf8 |-> NotText \notin ToSet(p.data), ok |-> TRUE]

\* A part between two delimiters is read as it was sent (server.rs:603-632).
LEMMA PartIs ==
  ASSUME NEW U, NEW p, Sendable(p, U), FileOnly(p), NEW segment \in Seq(U),
         Enclosed(p, Disposition(p), segment)
  PROVE  Part(segment) = Told(p)
<1> DEFINE d == Disposition(p)
           M == Len(d)
           K == Len(p.data)
           x == StripPrefix(segment, CRLF)
           s == StripSuffix(x, CRLF)
<1>1. d \in Seq(U) /\ Disposed(p, d)
  BY DispositionIs
<1>2. PartName(SplitAtAny(d, {CRLF})) = {p.name}
  BY NameIs
<1> HIDE DEF d
<1>3. M \in Nat /\ K \in Nat
  BY <1>1, SendableIs
<1>4. Len(segment) = M + K + 4 /\ segment[1] = CRLF /\ segment[M + 2] = CRLF /\ segment[M + 3] = CRLF
      /\ segment[M + K + 4] = CRLF /\ (\A i \in 1..M : segment[i + 1] = d[i])
      /\ \A i \in 1..K : segment[M + 3 + i] = p.data[i]
  BY Zenon DEF Enclosed, d
<1> HIDE DEF M, K
<1>5. x \in Seq(U) /\ Len(x) = M + K + 3 /\ \A i \in 1..(M + K + 3) : x[i] = segment[i + 1]
  <2>1. segment # <<>>
    <3> SUFFICES ASSUME segment = <<>> PROVE FALSE
      OBVIOUS
    <3>1. Len(segment) = 0
      OBVIOUS
    <3> DEFINE z == Len(segment)
    <3>2. z = 0 /\ z = M + K + 4
      BY <1>4, <3>1
    <3> HIDE DEF z
    <3> QED BY <1>3, <3>2
  <2>2. Head(segment) = segment[1]
    BY <2>1
  <2>3. x = Tail(segment)
    BY <1>4, <2>1, <2>2, Zenon DEF StripPrefix
  <2> HIDE DEF x
  <2>4. x \in Seq(U) /\ Len(x) = Len(segment) - 1 /\ \A i \in 1..Len(x) : x[i] = segment[i + 1]
    BY <2>1, <2>3, HeadTailProperties
  <2>5. Len(x) = M + K + 3
    <3>1. Len(segment) = M + K + 4
      BY <1>4
    <3> QED BY <1>3, <2>4, <3>1
  <2> QED BY <2>4, <2>5, Zenon
<1> HIDE DEF x
<1>6. s \in Seq(U) /\ Len(s) = M + K + 2 /\ \A i \in 1..(M + K + 2) : s[i] = segment[i + 1]
  <2>1. x # <<>>
    <3> SUFFICES ASSUME x = <<>> PROVE FALSE
      OBVIOUS
    <3>1. Len(x) = 0
      OBVIOUS
    <3> DEFINE z == Len(x)
    <3>2. z = 0 /\ z = M + K + 3
      BY <1>5, <3>1
    <3> HIDE DEF z
    <3> QED BY <1>3, <3>2
  <2>2. Last(x) = CRLF
    <3>1. M + K + 3 \in 1..(M + K + 3) /\ (M + K + 3) + 1 = M + K + 4
      BY <1>3
    <3> QED BY <1>4, <1>5, <3>1, Zenon DEF Last
  <2>3. s = SubSeq(x, 1, (M + K + 3) - 1)
    BY <1>5, <2>1, <2>2, Zenon DEF StripSuffix, Front
  <2> HIDE DEF s
  <2>4. \A i \in 1..Len(x) : x[i] \in U
    BY <1>5
  <2>5. (M + K + 3) - 1 = M + K + 2 /\ M + K + 2 \in Int /\ 1 <= M + K + 2 /\ (M + K + 2) - 1 + 1 = M + K + 2
        /\ \A i \in 1..(M + K + 2) : x[i] \in U
    <3>1. \A i \in 1..(M + K + 3) : x[i] \in U
      BY <1>5, <2>4, Zenon
    <3> QED BY <1>3, <3>1
  <2> DEFINE n == M + K + 2
  <2>6. s = SubSeq(x, 1, n)
    BY <2>3, <2>5, Zenon
  <2>7. n \in Int /\ 1 <= n /\ n - 1 + 1 = n /\ \A i \in 1..n : x[i] \in U
    BY <2>5
  <2> HIDE DEF n
  <2>8. s \in Seq(U) /\ Len(s) = n /\ \A i \in 1..n : s[i] = x[1 + i - 1]
    BY <2>6, <2>7, SubSeqProperties
  <2>9. ASSUME NEW i \in 1..n PROVE s[i] = segment[i + 1]
    <3>1. 1 + i - 1 = i /\ i \in 1..(M + K + 3)
      BY <1>3 DEF n
    <3> QED BY <1>5, <2>8, <3>1, Zenon
  <2> QED BY <2>8, <2>9, Zenon DEF n
<1> HIDE DEF s
<1>7. \A i \in 1..M : s[i] = d[i]
  <2> SUFFICES ASSUME NEW i \in 1..M PROVE s[i] = d[i]
    OBVIOUS
  <2>1. i \in 1..(M + K + 2)
    BY <1>3
  <2> QED BY <1>4, <1>6, <2>1, Zenon
<1>8. s[M + 1] = CRLF /\ s[M + 2] = CRLF
  <2>1. M + 1 \in 1..(M + K + 2) /\ M + 2 \in 1..(M + K + 2) /\ (M + 1) + 1 = M + 2 /\ (M + 2) + 1 = M + 3
    BY <1>3
  <2> QED BY <1>4, <1>6, <2>1, Zenon
<1>9. \A i \in 1..K : s[M + 2 + i] = p.data[i]
  <2> SUFFICES ASSUME NEW i \in 1..K PROVE s[M + 2 + i] = p.data[i]
    OBVIOUS
  <2>1. M + 2 + i \in 1..(M + K + 2) /\ (M + 2 + i) + 1 = M + 3 + i
    BY <1>3
  <2> QED BY <1>4, <1>6, <2>1, Zenon
<1> DEFINE blank == Found(s, <<CRLF, CRLF>>)
           at == CHOOSE j \in blank : \A k \in blank : j =< k
<1>10. M + 1 \in blank
  <2>1. M + 1 \in 1..(Len(s) - 1) /\ (M + 1) + 1 = M + 2
    BY <1>3, <1>6
  <2> QED BY <1>6, <1>8, <2>1, FoundPair
<1>11. ASSUME NEW k \in blank PROVE k \in Nat /\ M + 1 =< k
  <2>1. k \in 1..(Len(s) - 1) /\ s[k] = CRLF /\ s[k + 1] = CRLF
    <3>1. s \in Seq(U) /\ k \in Found(s, <<CRLF, CRLF>>)
      BY <1>6 DEF blank
    <3> QED BY <3>1, PairFound
  <2>2. k \in Nat /\ k >= 1
    BY <2>1
  <2>3. ~(k \in 1..M)
    <3> SUFFICES ASSUME k \in 1..M PROVE FALSE
      OBVIOUS
    <3>1. d[k] = CRLF
      BY <1>7, <2>1, Zenon
    <3>2. p.file # <<>> /\ k = NameEnd(p) + Len(p.file) + 3
      BY <1>1, <3>1, BreaksAre DEF M
    <3>3. M = NameEnd(p) + Len(p.file) + 5 /\ d[NameEnd(p) + Len(p.file) + 4] = "content-type:"
      BY <1>1, <3>2, Zenon DEF Disposed, M
    <3>4. k + 1 \in 1..M /\ NameEnd(p) + Len(p.file) + 4 = k + 1
      <4>1. NameEnd(p) \in Nat /\ Len(p.file) \in Nat
        BY SendableIs DEF NameEnd
      <4>2. M = NameEnd(p) + Len(p.file) + 5
        BY <3>3
      <4> DEFINE e == NameEnd(p)
                 F == Len(p.file)
      <4>3. k = e + F + 3 /\ M = e + F + 5 /\ e \in Nat /\ F \in Nat
        BY <3>2, <4>1, <4>2, Zenon
      <4> HIDE DEF e, F
      <4>4. k + 1 \in 1..M /\ e + F + 4 = k + 1
        BY <4>3
      <4> QED BY <4>4 DEF e, F
    <3>5. d[k + 1] = CRLF
      BY <1>7, <2>1, <3>4, Zenon
    <3>6. d[k + 1] = "content-type:"
      BY <3>3, <3>4, Zenon
    <3> QED BY <3>5, <3>6 DEF CRLF
  <2> QED BY <1>3, <2>2, <2>3
<1> HIDE DEF blank
<1>12. at = M + 1
  <2>1. at \in blank /\ \A k \in blank : at =< k
    <3>1. \A k \in blank : M + 1 =< k
      BY <1>11
    <3> QED BY <1>10, <3>1, Zenon
  <2>2. at =< M + 1 /\ M + 1 =< at /\ at \in Nat
    BY <1>10, <1>11, <2>1, Zenon
  <2> HIDE DEF at
  <2> QED BY <1>3, <2>2
<1> HIDE DEF at
<1>13. SubSeq(s, 1, at - 1) = d
  <2> DEFINE q == SubSeq(s, 1, M)
  <2>1. at - 1 = M
    BY <1>3, <1>12
  <2>2. (\A i \in 1..M : s[i] \in U) /\ M - 1 + 1 = M /\ 1 \in Int /\ M \in Int
    <3>1. \A i \in 1..M : d[i] \in U
      BY <1>1 DEF M
    <3> QED BY <1>3, <1>7, <3>1
  <2>3. q \in Seq(U) /\ Len(q) = (IF 1 <= M THEN M - 1 + 1 ELSE 0) /\ \A i \in 1..(M - 1 + 1) : q[i] = s[1 + i - 1]
    BY <2>2, SubSeqProperties
  <2> HIDE DEF q
  <2>4. Len(q) = M
    BY <1>3, <2>3
  <2>5. ASSUME NEW i \in 1..M PROVE q[i] = d[i]
    <3>1. 1 + i - 1 = i
      BY <1>3
    <3> QED BY <1>7, <2>2, <2>3, <3>1, Zenon
  <2>6. q = d
    BY <1>1, <2>3, <2>4, <2>5, SeqEqual, Zenon DEF M
  <2> QED BY <2>1, <2>6 DEF q
<1>14. SubSeq(s, at + 2, Len(s)) = p.data
  <2> DEFINE q == SubSeq(s, M + 3, M + K + 2)
  <2>1. at + 2 = M + 3 /\ Len(s) = M + K + 2
    BY <1>3, <1>6, <1>12
  <2>2. M + 3 \in Int /\ M + K + 2 \in Int /\ (M + K + 2) - (M + 3) + 1 = K
        /\ (M + 3 <= M + K + 2 \/ K = 0)
    BY <1>3
  <2>a. \A i \in (M + 3)..(M + K + 2) : s[i] \in U
    <3>1. \A i \in 1..Len(s) : s[i] \in U
      BY <1>6
    <3> QED BY <1>3, <2>1, <3>1
  <2>3. q \in Seq(U) /\ Len(q) = (IF M + 3 <= M + K + 2 THEN (M + K + 2) - (M + 3) + 1 ELSE 0)
        /\ \A i \in 1..((M + K + 2) - (M + 3) + 1) : q[i] = s[(M + 3) + i - 1]
    BY <2>2, <2>a, SubSeqProperties
  <2> HIDE DEF q
  <2>4. Len(q) = K
    BY <1>3, <2>2, <2>3
  <2>5. ASSUME NEW i \in 1..K PROVE q[i] = p.data[i]
    <3>1. (M + 3) + i - 1 = M + 2 + i
      BY <1>3
    <3> QED BY <1>9, <2>2, <2>3, <3>1, Zenon
  <2>6. p.data \in Seq(U)
    BY SendableIs
  <2>7. q = p.data
    BY <2>3, <2>4, <2>5, <2>6, SeqEqual, Zenon DEF K
  <2> QED BY <2>1, <2>7 DEF q
<1>15. Part(segment) = [name |-> PartName(SplitAtAny(SubSeq(s, 1, at - 1), {CRLF})),
                        value |-> SubSeq(s, at + 2, Len(s)),
                        utf8 |-> NotText \notin ToSet(SubSeq(s, at + 2, Len(s))), ok |-> TRUE]
  BY <1>10, Zenon DEF Part, s, x, at, blank
<1> QED BY <1>2, <1>13, <1>14, <1>15, Zenon DEF Told

----------------------------------------------------------------------------
(* Sequences one after the other. *)

\* Where a text occurs in another.
LEMMA FoundIs ==
  ASSUME NEW U, NEW s \in Seq(U), NEW d \in Seq(U), Len(d) # 0, NEW j \in 1..(Len(s) + 1 - Len(d))
  PROVE  j \in Found(s, d) <=> \A i \in 1..Len(d) : s[j + i - 1] = d[i]
<1> DEFINE L == Len(d)
           N == Len(s)
           q == SubSeq(s, j, j + L - 1)
<1>1. L \in Nat /\ N \in Nat /\ \A i \in 1..N : s[i] \in U
  OBVIOUS
<1>2. j \in Found(s, d) <=> q = d
  BY DEF Found
<1>a. j \in 1..(N + 1 - L) /\ L # 0
  OBVIOUS
<1> HIDE DEF L, N
<1>3. /\ j \in Int /\ j + L - 1 \in Int /\ j =< j + L - 1 /\ (j + L - 1) - j + 1 = L
      /\ \A i \in j..(j + L - 1) : s[i] \in U
  BY <1>1, <1>a
<1>4. q \in Seq(U) /\ Len(q) = L /\ \A i \in 1..L : q[i] = s[j + i - 1]
  <2>1. /\ q \in Seq(U)
        /\ Len(q) = (IF j <= j + L - 1 THEN (j + L - 1) - j + 1 ELSE 0)
        /\ \A i \in 1..((j + L - 1) - j + 1) : q[i] = s[j + i - 1]
    BY <1>3, SubSeqProperties
  <2> QED BY <1>3, <2>1, Zenon
<1> HIDE DEF q
<1>5. ASSUME \A i \in 1..L : s[j + i - 1] = d[i] PROVE q = d
  BY <1>4, <1>5, SeqEqual, Zenon DEF L
<1>6. ASSUME q = d PROVE \A i \in 1..L : s[j + i - 1] = d[i]
  BY <1>4, <1>6, Zenon
<1> QED BY <1>2, <1>5, <1>6, Zenon DEF L

Flattens(seqs, n, f) ==
  f = [i \in 1..n |-> IF i = 1 THEN seqs[i] ELSE f[i - 1] \o seqs[i]]

\* Where each of them ends.
Laid(seqs, n, off, x) ==
  /\ \A k \in 0..n : off[k] \in Nat
  /\ off[0] = 0 /\ Len(x) = off[n]
  /\ \A k \in 1..n : off[k] = off[k - 1] + Len(seqs[k])
  /\ \A i, k \in 0..n : i =< k => off[i] =< off[k]
  /\ \A k \in 1..n : \A i \in 1..Len(seqs[k]) : x[off[k - 1] + i] = seqs[k][i]

\* One more sequence behind the others.
LEMMA LaysOn ==
  ASSUME NEW U, NEW seqs, NEW m \in Nat \ {0}, seqs[m] \in Seq(U), NEW off, NEW x \in Seq(U),
         \A k \in 1..m : Len(seqs[k]) \in Nat,
         Laid(seqs, m - 1, off, x)
  PROVE  \E ends : Laid(seqs, m, ends, x \o seqs[m])
<1> DEFINE t == seqs[m]
           L == Len(t)
           N == Len(x)
           y == x \o t
           ends == [k \in 0..m |-> IF k = m THEN N + L ELSE off[k]]
<1>1. L \in Nat /\ N \in Nat
  OBVIOUS
<1>2. y \in Seq(U) /\ Joins(x, t, y)
  BY ConcatIs
<1>3. (\A k \in 0..(m - 1) : off[k] \in Nat) /\ off[0] = 0 /\ N = off[m - 1]
  BY DEF Laid
<1>4. \A k \in 1..(m - 1) : off[k] = off[k - 1] + Len(seqs[k])
  BY DEF Laid
<1>5. \A i, k \in 0..(m - 1) : i =< k => off[i] =< off[k]
  BY DEF Laid
<1>6. \A k \in 1..(m - 1) : \A i \in 1..Len(seqs[k]) : x[off[k - 1] + i] = seqs[k][i]
  BY DEF Laid
<1>7. ends[m] = N + L /\ \A k \in 0..(m - 1) : ends[k] = off[k]
  OBVIOUS
<1> HIDE DEF t, L, N, y, ends
<1>8. \A k \in 0..m : ends[k] \in Nat
  <2> SUFFICES ASSUME NEW k \in 0..m PROVE ends[k] \in Nat
    OBVIOUS
  <2>1. k = m \/ k \in 0..(m - 1)
    OBVIOUS
  <2> QED BY <1>1, <1>3, <1>7, <2>1
<1>9. ends[0] = 0 /\ Len(y) = ends[m]
  <2>1. 0 \in 0..(m - 1)
    OBVIOUS
  <2> QED BY <1>2, <1>3, <1>7, <2>1, Zenon DEF Joins, N, L
<1>10. \A k \in 1..m : ends[k] = ends[k - 1] + Len(seqs[k])
  <2> SUFFICES ASSUME NEW k \in 1..m PROVE ends[k] = ends[k - 1] + Len(seqs[k])
    OBVIOUS
  <2>1. k - 1 \in 0..(m - 1) /\ ends[k - 1] = off[k - 1]
    BY <1>7
  <2>2. CASE k = m
    BY <1>3, <1>7, <2>1, <2>2 DEF L, t
  <2>3. CASE k # m
    <3>1. k \in 0..(m - 1) /\ k \in 1..(m - 1)
      BY <2>3
    <3> QED BY <1>4, <1>7, <2>1, <3>1, Zenon
  <2> QED BY <2>2, <2>3
<1>11. \A i, k \in 0..m : i =< k => ends[i] =< ends[k]
  <2> SUFFICES ASSUME NEW i \in 0..m, NEW k \in 0..m, i =< k PROVE ends[i] =< ends[k]
    OBVIOUS
  <2>1. CASE k # m
    <3>1. i \in 0..(m - 1) /\ k \in 0..(m - 1)
      BY <2>1
    <3> QED BY <1>5, <1>7, <3>1
  <2>2. CASE k = m /\ i = m
    BY <1>1, <1>7, <2>2
  <2>3. CASE k = m /\ i # m
    <3>1. i \in 0..(m - 1) /\ m - 1 \in 0..(m - 1) /\ i =< m - 1
      BY <2>3
    <3>2. off[i] =< off[m - 1] /\ off[i] \in Nat
      BY <1>3, <1>5, <3>1
    <3> QED BY <1>1, <1>3, <1>7, <2>3, <3>1, <3>2
  <2> QED BY <2>1, <2>2, <2>3
<1>12. \A k \in 1..m : \A i \in 1..Len(seqs[k]) : y[ends[k - 1] + i] = seqs[k][i]
  <2> SUFFICES ASSUME NEW k \in 1..m, NEW i \in 1..Len(seqs[k]) PROVE y[ends[k - 1] + i] = seqs[k][i]
    OBVIOUS
  <2>1. k - 1 \in 0..(m - 1) /\ ends[k - 1] = off[k - 1]
    BY <1>7
  <2>2. CASE k = m
    <3>1. ends[k - 1] = N
      BY <1>3, <2>1, <2>2
    <3>2. i \in 1..L
      BY <2>2 DEF L, t
    <3> QED BY <1>2, <2>2, <3>1, <3>2, Zenon DEF Joins, N, L, t
  <2>3. CASE k # m
    <3>1. k \in 1..(m - 1) /\ k \in 0..(m - 1) /\ m - 1 \in 0..(m - 1) /\ k =< m - 1
      BY <2>3
    <3>2. x[off[k - 1] + i] = seqs[k][i]
      BY <1>6, <3>1
    <3>3. off[k - 1] + Len(seqs[k]) =< N /\ off[k - 1] \in Nat
      <4>1. off[k] =< off[m - 1] /\ off[k] = off[k - 1] + Len(seqs[k])
        BY <1>4, <1>5, <3>1
      <4> QED BY <1>3, <2>1, <4>1
    <3>4. off[k - 1] + i \in 1..N
      <4> DEFINE z == Len(seqs[k])
                 o == off[k - 1]
      <4>1. z \in Nat /\ i \in 1..z /\ o \in Nat /\ o + z =< N
        BY <3>3
      <4> HIDE DEF z, o
      <4>2. o + i \in 1..N
        BY <1>1, <4>1
      <4> QED BY <4>2 DEF o
    <3>5. \A j \in 1..N : y[j] = x[j]
      BY <1>2, Zenon DEF Joins, N
    <3>6. y[off[k - 1] + i] = x[off[k - 1] + i]
      BY <3>4, <3>5
    <3>7. y[ends[k - 1] + i] = y[off[k - 1] + i]
      BY <2>1, Zenon
    <3> QED BY <3>2, <3>6, <3>7, Zenon
  <2> QED BY <2>2, <2>3
<1>13. Laid(seqs, m, ends, y)
  BY <1>8, <1>9, <1>10, <1>11, <1>12 DEF Laid
<1> QED BY <1>13 DEF y, t

\* The function that flattens exists for every length.
LEMMA FlattenEnds ==
  ASSUME NEW seqs
  PROVE  \A n \in Nat : \E f : Flattens(seqs, n, f)
<1> SUFFICES ASSUME NEW b \in Nat, ~\E f : Flattens(seqs, b, f)
             PROVE  FALSE
  OBVIOUS
<1> DEFINE T == {n \in Nat : ~\E f : Flattens(seqs, n, f)}
<1>1. PICK m \in T : \A k \in T : m =< k
  <2>1. b \in T
    OBVIOUS
  <2> QED BY <2>1, LeastOf
<1>2. m # 0
  <2>1. Flattens(seqs, 0, [i \in 1..0 |-> <<>>])
    BY DEF Flattens
  <2> QED BY <2>1
<1>3. m \in Nat /\ m - 1 \in Nat
  BY <1>2
<1>4. PICK f : Flattens(seqs, m - 1, f)
  BY <1>1, <1>3
<1> DEFINE g == [i \in 1..m |-> IF i = m THEN (IF m = 1 THEN seqs[m] ELSE f[m - 1] \o seqs[m]) ELSE f[i]]
<1>5. ASSUME NEW i \in 1..m PROVE g[i] = IF i = 1 THEN seqs[i] ELSE g[i - 1] \o seqs[i]
  <2>1. CASE i = m
    <3>1. m # 1 => m - 1 \in 1..m /\ m - 1 # m
      BY <1>3
    <3>2. m # 1 => g[m - 1] = f[m - 1]
      BY <3>1
    <3>3. g[m] = IF m = 1 THEN seqs[m] ELSE f[m - 1] \o seqs[m]
      BY <1>3, <2>1
    <3> HIDE DEF g
    <3> QED BY <2>1, <3>2, <3>3
  <2>2. CASE i # m
    <3>1. i \in 1..(m - 1) /\ g[i] = f[i]
      BY <1>3, <2>2
    <3>2. f[i] = IF i = 1 THEN seqs[i] ELSE f[i - 1] \o seqs[i]
      BY <1>4, <3>1 DEF Flattens
    <3>3. i # 1 => i - 1 \in 1..m /\ i - 1 # m
      BY <1>3, <3>1
    <3>4. i # 1 => g[i - 1] = f[i - 1]
      BY <3>3
    <3> HIDE DEF g
    <3> QED BY <3>1, <3>2, <3>4
  <2> QED BY <2>1, <2>2
<1>6. Flattens(seqs, m, g)
  <2>1. g = [i \in 1..m |-> g[i]]
    OBVIOUS
  <2> HIDE DEF g
  <2> QED BY <1>5, <2>1 DEF Flattens
<1> HIDE DEF g
<1> QED BY <1>1, <1>6

\* FlattenSeq lays them one behind the other.
LEMMA FlattenLays ==
  ASSUME NEW U, NEW seqs \in Seq(Seq(U))
  PROVE  FlattenSeq(seqs) \in Seq(U) /\ \E off : Laid(seqs, Len(seqs), off, FlattenSeq(seqs))
<1> DEFINE n == Len(seqs)
<1>1. n \in Nat /\ \A k \in 1..n : seqs[k] \in Seq(U) /\ Len(seqs[k]) \in Nat
  <2>1. n \in Nat /\ \A k \in 1..n : seqs[k] \in Seq(U)
    OBVIOUS
  <2>2. \A z \in Seq(U) : Len(z) \in Nat
    OBVIOUS
  <2> QED BY <2>1, <2>2, Zenon
<1>0. Laid(seqs, 0, [k \in 0..0 |-> 0], <<>>) /\ <<>> \in Seq(U)
  <2> DEFINE o == [k \in 0..0 |-> 0]
  <2>1. o[0] = 0 /\ Len(<<>>) = 0 /\ 1..0 = {} /\ \A k \in 0..0 : k = 0
    OBVIOUS
  <2> HIDE DEF o
  <2>2. Laid(seqs, 0, o, <<>>)
    BY <2>1 DEF Laid
  <2> QED BY <2>2 DEF o
<1>2. CASE n = 0
  <2>1. FlattenSeq(seqs) = <<>>
    BY <1>2 DEF FlattenSeq
  <2> QED BY <1>0, <1>2, <2>1
<1>3. CASE n # 0
  <2> DEFINE f == CHOOSE f : Flattens(seqs, n, f)
  <2>1. Flattens(seqs, n, f)
    BY <1>1, FlattenEnds
  <2>2. FlattenSeq(seqs) = f[n]
    BY <1>3 DEF FlattenSeq, Flattens
  <2> HIDE DEF f, n
  <2> DEFINE Fine(i) == f[i] \in Seq(U) /\ \E off : Laid(seqs, i, off, f[i])
  <2>3. ASSUME ~Fine(n) PROVE FALSE
    <3> DEFINE T == {i \in 1..n : ~Fine(i)}
    <3>1. n \in T /\ T \subseteq Nat
      BY <1>1, <1>3, <2>3
    <3>2. PICK m \in T : \A k \in T : m =< k
      BY <3>1, LeastOf
    <3>3. f[m] = IF m = 1 THEN seqs[m] ELSE f[m - 1] \o seqs[m]
      BY <2>1 DEF Flattens
    <3>4. m \in 1..n /\ ~Fine(m)
      OBVIOUS
    <3>5. seqs[m] \in Seq(U) /\ m \in Nat \ {0} /\ \A k \in 1..m : Len(seqs[k]) \in Nat
      BY <1>1, <3>4
    <3>6. \E x \in Seq(U) : f[m] = x \o seqs[m] /\ \E off : Laid(seqs, m - 1, off, x)
      <4>1. CASE m = 1
        <5>1. m - 1 = 0 /\ f[m] = <<>> \o seqs[m]
          BY <3>3, <3>5, <4>1, ConcatEmptySeq
        <5> QED BY <1>0, <5>1
      <4>2. CASE m # 1
        <5>1. m - 1 \in 1..n /\ m - 1 < m
          BY <1>1, <3>4, <4>2
        <5>2. m - 1 \notin T
          BY <3>2, <3>4, <5>1
        <5>3. Fine(m - 1)
          BY <5>1, <5>2
        <5> QED BY <3>3, <4>2, <5>3, Zenon
      <4> QED BY <4>1, <4>2
    <3>6a. PICK x \in Seq(U) : f[m] = x \o seqs[m] /\ \E off : Laid(seqs, m - 1, off, x)
      BY <3>6
    <3>7. PICK off : Laid(seqs, m - 1, off, x)
      BY <3>6a
    <3>8. f[m] \in Seq(U)
      BY <3>5, <3>6a
    <3>9. \E ends : Laid(seqs, m, ends, f[m])
      BY <3>5, <3>6a, <3>7, LaysOn, Zenon
    <3> QED BY <3>4, <3>8, <3>9
  <2> QED BY <2>2, <2>3 DEF n
<1> QED BY <1>2, <1>3

----------------------------------------------------------------------------
(* A part as it is sent, and the delimiter in it. *)

\* A part as it is sent, behind its delimiter.
Piece(p, d) ==
  d \o <<CRLF>> \o Disposition(p) \o <<CRLF, CRLF>> \o p.data \o <<CRLF>>

Pieced(D, data, d, s) ==
  /\ Len(s) = Len(d) + Len(D) + Len(data) + 4
  /\ s[Len(d) + 1] = CRLF /\ s[Len(d) + Len(D) + 2] = CRLF /\ s[Len(d) + Len(D) + 3] = CRLF
  /\ s[Len(d) + Len(D) + Len(data) + 4] = CRLF
  /\ \A i \in 1..Len(d) : s[i] = d[i]
  /\ \A i \in 1..Len(D) : s[Len(d) + 1 + i] = D[i]
  /\ \A i \in 1..Len(data) : s[Len(d) + Len(D) + 3 + i] = data[i]

\* A part as it is sent, place by place.
LEMMA PieceIs ==
  ASSUME NEW U, NEW p, Sendable(p, U), NEW d \in Seq(U)
  PROVE  Piece(p, d) \in Seq(U) /\ Pieced(Disposition(p), p.data, d, Piece(p, d))
<1> DEFINE D == Disposition(p)
           data == p.data
           c1 == <<CRLF>>
           c2 == <<CRLF, CRLF>>
           x1 == d \o c1
           x2 == x1 \o D
           x3 == x2 \o c2
           x4 == x3 \o data
           x5 == x4 \o c1
           L == Len(d)
           M == Len(D)
           K == Len(data)
<1>0. CRLF \in U
  BY DEF Sendable, Marks
<1>1. D \in Seq(U) /\ data \in Seq(U) /\ L \in Nat /\ M \in Nat /\ K \in Nat
  <2>1. D \in Seq(U) /\ data \in Seq(U)
    BY DispositionIs, SendableIs
  <2> HIDE DEF D, data
  <2> QED BY <2>1, LenProperties
<1>2. c1 \in Seq(U) /\ Len(c1) = 1 /\ c1[1] = CRLF
  BY <1>0
<1>3. c2 \in Seq(U) /\ Len(c2) = 2 /\ c2[1] = CRLF /\ c2[2] = CRLF
  BY <1>0, TwoIs, Zenon
<1>4. Piece(p, d) = x5
  BY DEF Piece
<1> HIDE DEF D, data, c1, c2
<1>5. x1 \in Seq(U) /\ Joins(d, c1, x1)
  BY <1>2, ConcatIs, Zenon
<1> HIDE DEF x1
<1>6. x2 \in Seq(U) /\ Joins(x1, D, x2)
  BY <1>1, <1>5, ConcatIs, Zenon
<1> HIDE DEF x2
<1>7. x3 \in Seq(U) /\ Joins(x2, c2, x3)
  BY <1>3, <1>6, ConcatIs, Zenon
<1> HIDE DEF x3
<1>8. x4 \in Seq(U) /\ Joins(x3, data, x4)
  BY <1>1, <1>7, ConcatIs, Zenon
<1> HIDE DEF x4
<1>9. x5 \in Seq(U) /\ Joins(x4, c1, x5)
  BY <1>2, <1>8, ConcatIs, Zenon
<1> HIDE DEF x5
<1>10. Len(x1) = L + 1 /\ Len(x2) = (L + 1) + M /\ Len(x3) = ((L + 1) + M) + 2
       /\ Len(x4) = (((L + 1) + M) + 2) + K /\ Len(x5) = ((((L + 1) + M) + 2) + K) + 1
  <2>1. Len(x1) = L + 1
    BY <1>2, <1>5, Zenon DEF Joins, L
  <2>2. Len(x2) = (L + 1) + M
    BY <1>6, <2>1, Zenon DEF Joins, M
  <2>3. Len(x3) = ((L + 1) + M) + 2
    BY <1>3, <1>7, <2>2, Zenon DEF Joins
  <2>4. Len(x4) = (((L + 1) + M) + 2) + K
    BY <1>8, <2>3, Zenon DEF Joins, K
  <2>5. Len(x5) = ((((L + 1) + M) + 2) + K) + 1
    BY <1>2, <1>9, <2>4, Zenon DEF Joins
  <2> QED BY <2>1, <2>2, <2>3, <2>4, <2>5
<1>11. (\A i \in 1..L : x1[i] = d[i]) /\ \A i \in 1..1 : x1[L + i] = c1[i]
  BY <1>2, <1>5, Zenon DEF Joins, L
<1>12. (\A i \in 1..(L + 1) : x2[i] = x1[i]) /\ \A i \in 1..M : x2[(L + 1) + i] = D[i]
  BY <1>10, <1>6, Zenon DEF Joins, M
<1>13. (\A i \in 1..((L + 1) + M) : x3[i] = x2[i]) /\ \A i \in 1..2 : x3[((L + 1) + M) + i] = c2[i]
  BY <1>3, <1>10, <1>7, Zenon DEF Joins
<1>14. (\A i \in 1..(((L + 1) + M) + 2) : x4[i] = x3[i]) /\ \A i \in 1..K : x4[(((L + 1) + M) + 2) + i] = data[i]
  BY <1>10, <1>8, Zenon DEF Joins, K
<1>15. (\A i \in 1..((((L + 1) + M) + 2) + K) : x5[i] = x4[i])
       /\ \A i \in 1..1 : x5[((((L + 1) + M) + 2) + K) + i] = c1[i]
  BY <1>2, <1>10, <1>9, Zenon DEF Joins
<1>16. \A i \in 1..(L + M + 3) : x5[i] = x3[i]
  <2> SUFFICES ASSUME NEW i \in 1..(L + M + 3) PROVE x5[i] = x3[i]
    OBVIOUS
  <2> HIDE DEF L, M, K
  <2>1. i \in 1..(((L + 1) + M) + 2) /\ i \in 1..((((L + 1) + M) + 2) + K)
    BY <1>1
  <2> QED BY <1>14, <1>15, <2>1, Zenon
<1>17. \A i \in 1..(L + M + 1) : x5[i] = x2[i]
  <2> SUFFICES ASSUME NEW i \in 1..(L + M + 1) PROVE x5[i] = x2[i]
    OBVIOUS
  <2> HIDE DEF L, M, K
  <2>1. i \in 1..(L + M + 3) /\ i \in 1..((L + 1) + M)
    BY <1>1
  <2> QED BY <1>13, <1>16, <2>1, Zenon
<1>18. \A i \in 1..L : x5[i] = d[i]
  <2> SUFFICES ASSUME NEW i \in 1..L PROVE x5[i] = d[i]
    OBVIOUS
  <2>a. i \in 1..L
    OBVIOUS
  <2> HIDE DEF L, M, K
  <2>1. i \in 1..(L + M + 1) /\ i \in 1..(L + 1)
    BY <1>1, <2>a
  <2> QED BY <1>11, <1>12, <1>17, <2>1, <2>a, Zenon
<1>19. \A i \in 1..M : x5[L + 1 + i] = D[i]
  <2> SUFFICES ASSUME NEW i \in 1..M PROVE x5[L + 1 + i] = D[i]
    OBVIOUS
  <2>a. i \in 1..M
    OBVIOUS
  <2> HIDE DEF L, M, K
  <2>1. L + 1 + i \in 1..(L + M + 1)
    BY <1>1, <2>a
  <2> QED BY <1>12, <1>17, <2>1, <2>a, Zenon
<1>20. \A i \in 1..K : x5[L + M + 3 + i] = data[i]
  <2> SUFFICES ASSUME NEW i \in 1..K PROVE x5[L + M + 3 + i] = data[i]
    OBVIOUS
  <2>a. i \in 1..K
    OBVIOUS
  <2> HIDE DEF L, M, K
  <2>1. L + M + 3 + i = (((L + 1) + M) + 2) + i /\ (((L + 1) + M) + 2) + i \in 1..((((L + 1) + M) + 2) + K)
    BY <1>1, <2>a
  <2> QED BY <1>14, <1>15, <2>1, <2>a, Zenon
<1>21. x5[L + 1] = CRLF
  <2> HIDE DEF L, M, K
  <2>1. L + 1 \in 1..(L + M + 1) /\ L + 1 \in 1..(L + 1) /\ 1 \in 1..1
    BY <1>1
  <2> QED BY <1>2, <1>11, <1>12, <1>17, <2>1, Zenon
<1>22. x5[L + M + 2] = CRLF /\ x5[L + M + 3] = CRLF
  <2> HIDE DEF L, M, K
  <2>1. L + M + 2 \in 1..(L + M + 3) /\ L + M + 3 \in 1..(L + M + 3) /\ 1 \in 1..2 /\ 2 \in 1..2
        /\ L + M + 2 = ((L + 1) + M) + 1 /\ L + M + 3 = ((L + 1) + M) + 2
    BY <1>1
  <2> QED BY <1>3, <1>13, <1>16, <2>1, Zenon
<1>23. x5[L + M + K + 4] = CRLF
  <2> HIDE DEF L, M, K
  <2>1. L + M + K + 4 = ((((L + 1) + M) + 2) + K) + 1 /\ 1 \in 1..1
    BY <1>1
  <2> QED BY <1>2, <1>15, <2>1, Zenon
<1>24. Len(x5) = L + M + K + 4
  <2>1. Len(x5) = ((((L + 1) + M) + 2) + K) + 1
    BY <1>10
  <2> HIDE DEF L, M, K
  <2> QED BY <1>1, <2>1
<1>25. Pieced(D, data, d, x5)
  BY <1>18, <1>19, <1>20, <1>21, <1>22, <1>23, <1>24, Zenon DEF Pieced, L, M, K
<1> QED BY <1>4, <1>9, <1>25, Zenon DEF D, data

\* What a delimiter has to be.
Delimits(d, U) ==
  /\ d \in Seq(U) /\ Len(d) >= 2 /\ \A i \in 1..Len(d) : d[i] # CRLF

\* Behind its delimiter there is no other in a part that does not hold it.
LEMMA NotInPiece ==
  ASSUME NEW U, NEW D \in Seq(U), NEW data \in Seq(U), NEW d, Delimits(d, U),
         Found(D, d) = {}, Found(data, d) = {},
         NEW s \in Seq(U), Pieced(D, data, d, s), NEW q \in Nat, q > Len(d), q =< Len(s),
         \A i \in 1..Len(d) : q + i - 1 =< Len(s) => s[q + i - 1] = d[i]
  PROVE  FALSE
<1> DEFINE L == Len(d)
           M == Len(D)
           K == Len(data)
           N == Len(s)
<1>1. L \in Nat /\ M \in Nat /\ K \in Nat /\ N \in Nat /\ L >= 2 /\ d \in Seq(U)
  BY DEF Delimits
<1>2. (\A i \in 1..L : d[i] # CRLF) /\ N = L + M + K + 4
  BY DEF Delimits, Pieced
<1>3. s[L + 1] = CRLF /\ s[L + M + 2] = CRLF /\ s[L + M + 3] = CRLF /\ s[N] = CRLF
  <2>1. N = L + M + K + 4
    BY <1>2
  <2> QED BY <2>1, Zenon DEF Pieced, L, M, K
<1>4. (\A i \in 1..M : s[L + 1 + i] = D[i]) /\ \A i \in 1..K : s[L + M + 3 + i] = data[i]
  BY Zenon DEF Pieced, L, M, K
<1>5. q > L /\ q =< N /\ \A i \in 1..L : q + i - 1 =< N => s[q + i - 1] = d[i]
  OBVIOUS
<1> HIDE DEF L, M, K, N
<1>6. ASSUME NEW c \in 1..N, s[c] = CRLF PROVE c < q \/ q + L - 1 < c
  <2> SUFFICES ASSUME ~(c < q), ~(q + L - 1 < c) PROVE FALSE
    OBVIOUS
  <2>1. c - q + 1 \in 1..L /\ q + (c - q + 1) - 1 = c /\ c =< N
    BY <1>1
  <2>2. s[c] = d[c - q + 1]
    BY <1>5, <2>1
  <2> QED BY <1>2, <1>6, <2>1, <2>2
<1>7. /\ L + 1 < q \/ q + L - 1 < L + 1
      /\ L + M + 2 < q \/ q + L - 1 < L + M + 2
      /\ L + M + 3 < q \/ q + L - 1 < L + M + 3
      /\ N < q \/ q + L - 1 < N
  <2>0. L \in Nat /\ M \in Nat /\ K \in Nat /\ N = L + M + K + 4
    BY <1>1, <1>2
  <2>1. L + 1 \in 1..N /\ L + M + 2 \in 1..N /\ L + M + 3 \in 1..N /\ N \in 1..N
    BY <2>0
  <2> QED BY <1>3, <1>6, <2>1, Zenon
<1>8. CASE q + L - 1 < L + M + 2
  <2> DEFINE r == q - (L + 1)
  <2>1. r \in 1..(M + 1 - L)
    BY <1>1, <1>5, <1>7, <1>8
  <2>2. ASSUME NEW i \in 1..L PROVE D[r + i - 1] = d[i]
    <3>1. r + i - 1 \in 1..M /\ L + 1 + (r + i - 1) = q + i - 1 /\ q + i - 1 =< N
      BY <1>1, <1>2, <2>1
    <3>2. s[q + i - 1] = d[i]
      BY <1>5, <3>1
    <3>3. s[L + 1 + (r + i - 1)] = D[r + i - 1]
      BY <1>4, <3>1
    <3> QED BY <3>1, <3>2, <3>3
  <2> HIDE DEF r
  <2>3. Len(d) # 0
    BY <1>1 DEF L
  <2>4. r \in Found(D, d)
    BY <1>1, <2>1, <2>2, <2>3, FoundIs, Zenon DEF L, M
  <2> QED BY <2>4
<1>9. CASE ~(q + L - 1 < L + M + 2)
  <2> DEFINE r == q - (L + M + 3)
  <2>1. r \in 1..(K + 1 - L)
    BY <1>1, <1>2, <1>5, <1>7, <1>9
  <2>2. ASSUME NEW i \in 1..L PROVE data[r + i - 1] = d[i]
    <3>0. L \in Nat /\ M \in Nat /\ K \in Nat /\ N = L + M + K + 4 /\ q \in Nat /\ i \in 1..L
      BY <1>1, <1>2
    <3>1. r + i - 1 \in 1..K /\ L + M + 3 + (r + i - 1) = q + i - 1 /\ q + i - 1 =< N
      BY <2>1, <3>0
    <3>2. s[q + i - 1] = d[i]
      BY <1>5, <3>1
    <3>3. s[L + M + 3 + (r + i - 1)] = data[r + i - 1]
      BY <1>4, <3>1
    <3> QED BY <3>1, <3>2, <3>3
  <2> HIDE DEF r
  <2>3. Len(d) # 0
    BY <1>1 DEF L
  <2>4. r \in Found(data, d)
    BY <1>1, <2>1, <2>2, <2>3, FoundIs, Zenon DEF L, K
  <2> QED BY <2>4
<1> QED BY <1>8, <1>9

----------------------------------------------------------------------------
(* A form as it is sent. *)

\* A form that a multipart body can carry behind this delimiter.
Sent(form, n, d, U) ==
  /\ Marks \subseteq U /\ Delimits(d, U) /\ n \in Nat /\ DOMAIN form = 1..n
  /\ \A k \in 1..n :
       /\ Sendable(form[k], U) /\ FileOnly(form[k])
       /\ Found(Disposition(form[k]), d) = {} /\ Found(form[k].data, d) = {}

\* The places of the parts in a body: each begins behind the end of the one before.
Framed(form, n, off, d, x) ==
  /\ \A k \in 0..n : off[k] \in Nat
  /\ off[0] = 0 /\ Len(x) = off[n] + Len(d) + 2
  /\ \A k \in 1..n : off[k] = off[k - 1] + Len(Piece(form[k], d))
  /\ \A i, k \in 0..n : i =< k => off[i] =< off[k]
  /\ \A k \in 1..n : \A i \in 1..Len(Piece(form[k], d)) : x[off[k - 1] + i] = Piece(form[k], d)[i]
  /\ \A i \in 1..Len(d) : x[off[n] + i] = d[i]
  /\ x[off[n] + Len(d) + 2] = CRLF

\* Encode lays the parts behind each other, and the last delimiter behind them.
LEMMA EncodedIs ==
  ASSUME NEW U, NEW form, NEW n, NEW d, Sent(form, n, d, U)
  PROVE  Encode(form, d) \in Seq(U) /\ \E off : Framed(form, n, off, d, Encode(form, d))
<1> DEFINE chunks == [k \in 1..n |-> Piece(form[k], d)]
           flat == FlattenSeq(chunks)
           end == <<"--", CRLF>>
           y == flat \o d
           x == y \o end
           L == Len(d)
<1>1. n \in Nat /\ d \in Seq(U) /\ L \in Nat /\ DOMAIN form = 1..n
  BY DEF Sent, Delimits
<1>2. \A k \in 1..n : Piece(form[k], d) \in Seq(U)
  <2> SUFFICES ASSUME NEW k \in 1..n PROVE Piece(form[k], d) \in Seq(U)
    OBVIOUS
  <2>1. Sendable(form[k], U)
    BY DEF Sent
  <2> QED BY <1>1, <2>1, PieceIs
<1>3. chunks \in Seq(Seq(U)) /\ Len(chunks) = n /\ \A k \in 1..n : chunks[k] = Piece(form[k], d)
  <2>1. \A k \in 1..n : chunks[k] = Piece(form[k], d)
    OBVIOUS
  <2>2. chunks = [k \in 1..n |-> chunks[k]]
    OBVIOUS
  <2> HIDE DEF chunks
  <2>3. \A k \in 1..n : chunks[k] \in Seq(U)
    BY <1>2, <2>1
  <2>4. chunks \in Seq(Seq(U))
    BY <1>1, <2>2, <2>3, SequenceOf
  <2>5. Len(chunks) = n
    <3>1. DOMAIN chunks = 1..n
      BY <2>2, Zenon
    <3> QED BY <1>1, <2>4, <3>1, LenProperties
  <2> QED BY <2>1, <2>4, <2>5
<1>4. Encode(form, d) = x
  BY <1>1 DEF Encode, Piece
<1> HIDE DEF chunks
<1>5. flat \in Seq(U) /\ \E off : Laid(chunks, n, off, flat)
  BY <1>3, FlattenLays, Zenon
<1>6. PICK off : Laid(chunks, n, off, flat)
  BY <1>5
<1> HIDE DEF flat
<1>7. end \in Seq(U) /\ Len(end) = 2 /\ end[1] = "--" /\ end[2] = CRLF
  <2>1. "--" \in U /\ CRLF \in U
    BY DEF Sent, Marks
  <2> QED BY <2>1, TwoIs, Zenon
<1> HIDE DEF end
<1>8. y \in Seq(U) /\ Joins(flat, d, y)
  BY <1>1, <1>5, ConcatIs, Zenon
<1> HIDE DEF y
<1>9. x \in Seq(U) /\ Joins(y, end, x)
  BY <1>7, <1>8, ConcatIs, Zenon
<1> HIDE DEF x
<1>10. /\ \A k \in 0..n : off[k] \in Nat
       /\ off[0] = 0 /\ Len(flat) = off[n]
       /\ \A k \in 1..n : off[k] = off[k - 1] + Len(Piece(form[k], d))
       /\ \A i, k \in 0..n : i =< k => off[i] =< off[k]
       /\ \A k \in 1..n : \A i \in 1..Len(Piece(form[k], d)) : flat[off[k - 1] + i] = Piece(form[k], d)[i]
  <2>1. \A k \in 1..n : chunks[k] = Piece(form[k], d)
    BY <1>3
  <2>2. /\ \A k \in 0..n : off[k] \in Nat
        /\ off[0] = 0 /\ Len(flat) = off[n]
        /\ \A k \in 1..n : off[k] = off[k - 1] + Len(chunks[k])
        /\ \A i, k \in 0..n : i =< k => off[i] =< off[k]
        /\ \A k \in 1..n : \A i \in 1..Len(chunks[k]) : flat[off[k - 1] + i] = chunks[k][i]
    BY <1>6, Zenon DEF Laid
  <2>3. \A k \in 1..n : off[k] = off[k - 1] + Len(Piece(form[k], d))
    BY <2>1, <2>2
  <2>4. \A k \in 1..n : \A i \in 1..Len(Piece(form[k], d)) : flat[off[k - 1] + i] = Piece(form[k], d)[i]
    BY <2>1, <2>2
  <2> QED BY <2>2, <2>3, <2>4, Zenon
<1> DEFINE e == off[n]
<1>11. e \in Nat /\ Len(flat) = e
  <2>1. n \in 0..n
    BY <1>1
  <2> QED BY <1>10, <2>1
<1> HIDE DEF e, L
<1>12. Len(y) = e + L /\ (\A i \in 1..e : y[i] = flat[i]) /\ \A i \in 1..L : y[e + i] = d[i]
  BY <1>8, <1>11, Zenon DEF Joins, L
<1>13. /\ Len(x) = (e + L) + 2 /\ (\A i \in 1..(e + L) : x[i] = y[i])
       /\ \A i \in 1..2 : x[(e + L) + i] = end[i]
  BY <1>7, <1>9, <1>12, Zenon DEF Joins
<1>14. \A i \in 1..e : x[i] = flat[i]
  <2> SUFFICES ASSUME NEW i \in 1..e PROVE x[i] = flat[i]
    OBVIOUS
  <2>1. i \in 1..(e + L)
    BY <1>1, <1>11
  <2> QED BY <1>12, <1>13, <2>1, Zenon
<1>15. \A i \in 1..L : x[e + i] = d[i]
  <2> SUFFICES ASSUME NEW i \in 1..L PROVE x[e + i] = d[i]
    OBVIOUS
  <2>1. e + i \in 1..(e + L)
    BY <1>1, <1>11
  <2> QED BY <1>12, <1>13, <2>1, Zenon
<1>16. x[e + L + 2] = CRLF
  <2>1. e + L + 2 = (e + L) + 2 /\ 2 \in 1..2
    BY <1>1, <1>11
  <2> QED BY <1>7, <1>13, <2>1, Zenon
<1>17. \A k \in 1..n : \A i \in 1..Len(Piece(form[k], d)) : x[off[k - 1] + i] = Piece(form[k], d)[i]
  <2> SUFFICES ASSUME NEW k \in 1..n, NEW i \in 1..Len(Piece(form[k], d))
               PROVE x[off[k - 1] + i] = Piece(form[k], d)[i]
    OBVIOUS
  <2> DEFINE z == Len(Piece(form[k], d))
             o == off[k - 1]
  <2>1. z \in Nat
    BY <1>2, LenProperties
  <2>2. k - 1 \in 0..n /\ k \in 0..n /\ n \in 0..n /\ k =< n
    BY <1>1
  <2>3. o \in Nat /\ off[k] = o + z /\ off[k] =< e
    BY <1>10, <2>2, Zenon DEF e
  <2>4. i \in 1..z /\ flat[o + i] = Piece(form[k], d)[i]
    BY <1>10, Zenon
  <2> HIDE DEF z, o
  <2>5. o + i \in 1..e
    BY <1>11, <2>1, <2>3, <2>4
  <2>6. x[o + i] = flat[o + i]
    BY <1>14, <2>5
  <2> QED BY <2>4, <2>6 DEF o
<1>18. Framed(form, n, off, d, x)
  <2>1. Len(x) = e + L + 2
    BY <1>13
  <2> QED BY <1>10, <1>15, <1>16, <1>17, <2>1, Zenon DEF Framed, e, L
<1> QED BY <1>4, <1>9, <1>18, Zenon

\* A part of a form that was sent is longer than its delimiter.
LEMMA PieceOf ==
  ASSUME NEW U, NEW form, NEW n, NEW d, Sent(form, n, d, U), NEW k \in 1..n
  PROVE  /\ Piece(form[k], d) \in Seq(U)
         /\ Pieced(Disposition(form[k]), form[k].data, d, Piece(form[k], d))
         /\ Len(Piece(form[k], d)) \in Nat /\ Len(Piece(form[k], d)) >= Len(d) + 4
<1> DEFINE s == Piece(form[k], d)
           D == Disposition(form[k])
           data == form[k].data
<1>1. Sendable(form[k], U) /\ d \in Seq(U)
  BY DEF Sent, Delimits
<1>2. s \in Seq(U) /\ Pieced(D, data, d, s) /\ D \in Seq(U) /\ data \in Seq(U)
  BY <1>1, PieceIs, DispositionIs, SendableIs, Zenon
<1> HIDE DEF s, D, data
<1>3. Len(s) = Len(d) + Len(D) + Len(data) + 4
  BY <1>2, Zenon DEF Pieced
<1>4. Len(s) \in Nat /\ Len(d) \in Nat /\ Len(D) \in Nat /\ Len(data) \in Nat
  BY <1>1, <1>2, LenProperties
<1>5. Len(s) >= Len(d) + 4
  BY <1>3, <1>4
<1> QED BY <1>2, <1>4, <1>5 DEF s, D, data

\* Where a delimiter occurs, it is one that was sent, or overlaps the last.
LEMMA Occurs ==
  ASSUME NEW U, NEW form, NEW n, NEW d, Sent(form, n, d, U), NEW x \in Seq(U), NEW off,
         Framed(form, n, off, d, x), NEW j \in Found(x, d)
  PROVE  \E k \in 0..n : off[k] + 1 =< j /\ j < off[k] + 1 + Len(d)
<1> DEFINE L == Len(d)
           N == Len(x)
<1>1. n \in Nat /\ d \in Seq(U) /\ L \in Nat /\ L >= 2 /\ N \in Nat
  BY DEF Sent, Delimits
<1>2. \A i \in 1..L : d[i] # CRLF
  BY DEF Sent, Delimits
<1>3. j \in 1..(N + 1 - L)
  BY DEF Found
<1>4. \A i \in 1..L : x[j + i - 1] = d[i]
  BY <1>1, <1>3, FoundIs
<1>5. /\ \A k \in 0..n : off[k] \in Nat
      /\ off[0] = 0 /\ N = off[n] + L + 2 /\ x[off[n] + L + 2] = CRLF
      /\ \A k \in 1..n : off[k] = off[k - 1] + Len(Piece(form[k], d))
      /\ \A k \in 1..n : \A i \in 1..Len(Piece(form[k], d)) : x[off[k - 1] + i] = Piece(form[k], d)[i]
  BY Zenon DEF Framed
<1> HIDE DEF L, N
<1> DEFINE T == {k \in 1..n : j =< off[k]}
<1>6. CASE T = {}
  <2>1. off[n] < j /\ off[n] \in Nat /\ n \in 0..n
    <3>1. n = 0 \/ n \in 1..n
      BY <1>1
    <3>2. n \in 0..n
      BY <1>1
    <3>3. n \in 1..n => ~(j =< off[n])
      BY <1>6
    <3>4. off[n] \in Nat
      BY <1>5, <3>2, Zenon
    <3>5. n = 0 => off[n] < j
      BY <1>1, <1>3, <1>5
    <3> HIDE DEF T
    <3> DEFINE top == off[n]
    <3>6. n \in 1..n => ~(j =< top)
      BY <3>3
    <3>7. j \in Int /\ top \in Int
      BY <1>1, <1>3, <3>4
    <3>8. top < j
      <4> HIDE DEF top
      <4>1. ASSUME ~(j =< top) PROVE top < j
        BY <3>7, <4>1
      <4> QED BY <3>1, <3>5, <3>6, <4>1 DEF top
    <3> QED BY <3>2, <3>4, <3>8
  <2>2. j =< off[n] + 3
    <3> DEFINE top == off[n]
    <3>1. N = top + L + 2
      BY <1>5, Zenon
    <3>2. top \in Nat
      BY <2>1
    <3> HIDE DEF top
    <3>3. j =< top + 3
      BY <1>1, <1>3, <3>1, <3>2
    <3> QED BY <3>3 DEF top
  <2>3. j < off[n] + 1 + L
    <3> SUFFICES ASSUME ~(j < off[n] + 1 + L) PROVE FALSE
      OBVIOUS
    <3> DEFINE e == off[n]
    <3>1. e \in Nat /\ j =< e + 3 /\ j >= e + 1 + L
      BY <1>1, <1>3, <2>1, <2>2
    <3> HIDE DEF e
    <3>2. L = 2 /\ j = e + 3
      BY <1>1, <1>3, <3>1
    <3>3. 2 \in 1..L /\ j + 2 - 1 = e + L + 2
      BY <3>1, <3>2
    <3>4. x[j + 2 - 1] = d[2] /\ d[2] # CRLF
      BY <1>2, <1>4, <3>3
    <3> QED BY <1>5, <3>3, <3>4 DEF e
  <2> QED BY <1>1, <1>3, <2>1, <2>3 DEF L
<1>7. CASE T # {}
  <2>1. PICK k \in T : \A l \in T : k =< l
    <3>1. T \subseteq Nat
      OBVIOUS
    <3> QED BY <1>7, <3>1, LeastOf
  <2>2. k \in 1..n /\ j =< off[k] /\ k - 1 \in 0..n
    BY <1>1
  <2> DEFINE o == off[k - 1]
             s == Piece(form[k], d)
             q == j - o
  <2>3. o \in Nat /\ o < j
    <3>1. o \in Nat
      BY <1>5, <2>2
    <3>2. k = 1 => o = 0
      BY <1>5
    <3>3. k # 1 => k - 1 \in 1..n /\ k - 1 \notin T
      BY <1>1, <2>1, <2>2
    <3>4. k # 1 => ~(j =< o)
      BY <3>3
    <3> HIDE DEF o, T
    <3> QED BY <1>3, <3>1, <3>2, <3>4
  <2>4. s \in Seq(U) /\ Pieced(Disposition(form[k]), form[k].data, d, s) /\ Len(s) \in Nat
    BY <2>2, PieceOf
  <2>5. off[k] = o + Len(s) /\ \A i \in 1..Len(s) : x[o + i] = s[i]
    BY <1>5, <2>2, Zenon
  <2>6. Disposition(form[k]) \in Seq(U) /\ form[k].data \in Seq(U)
        /\ Found(Disposition(form[k]), d) = {} /\ Found(form[k].data, d) = {} /\ Delimits(d, U)
    <3>1. Sendable(form[k], U)
      BY <2>2, Zenon DEF Sent
    <3>2. Found(Disposition(form[k]), d) = {} /\ Found(form[k].data, d) = {} /\ Delimits(d, U)
      BY <2>2, Zenon DEF Sent
    <3> QED BY <3>1, <3>2, DispositionIs, SendableIs, Zenon
  <2> HIDE DEF T, o, s
  <2>7. q \in Nat /\ q =< Len(s)
    BY <1>3, <2>2, <2>3, <2>4, <2>5
  <2>8. ASSUME NEW i \in 1..L, q + i - 1 =< Len(s) PROVE s[q + i - 1] = d[i]
    <3>1. q + i - 1 \in 1..Len(s) /\ o + (q + i - 1) = j + i - 1
      BY <1>1, <1>3, <2>3, <2>4, <2>8
    <3>2. x[o + (q + i - 1)] = s[q + i - 1]
      BY <2>5, <3>1
    <3>3. x[j + i - 1] = d[i]
      BY <1>4
    <3> QED BY <3>1, <3>2, <3>3
  <2> HIDE DEF q
  <2>9. ~(q > L)
    BY <2>4, <2>6, <2>7, <2>8, NotInPiece DEF L
  <2>10. o + 1 =< j /\ j < o + 1 + L
    BY <1>1, <1>3, <2>3, <2>7, <2>9 DEF q
  <2> QED BY <2>2, <2>10 DEF o, L
<1> QED BY <1>6, <1>7

----------------------------------------------------------------------------
(* What was sent comes out. *)

\* The scan finds the delimiters that were sent and no other.
LEMMA DelimitersAre ==
  ASSUME NEW U, NEW form, NEW n, NEW d, Sent(form, n, d, U), NEW x \in Seq(U), NEW off,
         Framed(form, n, off, d, x)
  PROVE  Spaced(Found(x, d), Len(d), Len(x)) = [k \in 1..(n + 1) |-> off[k - 1] + 1]
<1> DEFINE L == Len(d)
           N == Len(x)
           a == [k \in 1..(n + 1) |-> off[k - 1] + 1]
<1>1. n \in Nat /\ d \in Seq(U) /\ L \in Nat /\ L >= 2 /\ N \in Nat
  BY DEF Sent, Delimits
<1>2. /\ \A k \in 0..n : off[k] \in Nat
      /\ N = off[n] + L + 2
      /\ \A k \in 1..n : off[k] = off[k - 1] + Len(Piece(form[k], d))
      /\ \A i, k \in 0..n : i =< k => off[i] =< off[k]
      /\ \A k \in 1..n : \A i \in 1..Len(Piece(form[k], d)) : x[off[k - 1] + i] = Piece(form[k], d)[i]
      /\ \A i \in 1..L : x[off[n] + i] = d[i]
  BY Zenon DEF Framed
<1> HIDE DEF L, N
<1>3. ASSUME NEW k \in 1..n
      PROVE  off[k - 1] + L + 4 =< off[k] /\ \A i \in 1..L : x[off[k - 1] + i] = d[i]
  <2> DEFINE s == Piece(form[k], d)
             o == off[k - 1]
  <2>1. Len(s) \in Nat /\ Len(s) >= L + 4 /\ \A i \in 1..L : s[i] = d[i]
    <3>1. Pieced(Disposition(form[k]), form[k].data, d, s) /\ Len(s) \in Nat /\ Len(s) >= Len(d) + 4
      BY PieceOf
    <3> HIDE DEF s
    <3> QED BY <3>1, Zenon DEF Pieced, L
  <2>2. off[k] = o + Len(s) /\ \A i \in 1..Len(s) : x[o + i] = s[i]
    BY <1>2, Zenon
  <2>3. o \in Nat
    <3>1. k - 1 \in 0..n
      BY <1>1
    <3> QED BY <1>2, <3>1
  <2> HIDE DEF s, o
  <2>4. o + L + 4 =< off[k]
    BY <1>1, <2>1, <2>2, <2>3
  <2>5. ASSUME NEW i \in 1..L PROVE x[o + i] = d[i]
    <3>1. i \in 1..Len(s)
      BY <1>1, <2>1
    <3> QED BY <2>1, <2>2, <3>1
  <2> QED BY <2>4, <2>5 DEF o
<1>4. \A k \in 0..n : off[k] + L + 2 =< N /\ \A i \in 1..L : x[off[k] + i] = d[i]
  <2> SUFFICES ASSUME NEW k \in 0..n PROVE off[k] + L + 2 =< N /\ \A i \in 1..L : x[off[k] + i] = d[i]
    OBVIOUS
  <2>1. off[k] \in Nat /\ off[n] \in Nat /\ off[k] =< off[n]
    <3>1. n \in 0..n /\ k =< n
      BY <1>1
    <3> QED BY <1>2, <3>1
  <2>2. off[k] + L + 2 =< N
    BY <1>1, <1>2, <2>1
  <2>3. CASE k = n
    BY <1>2, <2>2, <2>3
  <2>4. CASE k # n
    <3>1. k + 1 \in 1..n /\ (k + 1) - 1 = k
      BY <1>1, <2>4
    <3>2. \A i \in 1..L : x[off[(k + 1) - 1] + i] = d[i]
      BY <1>3, <3>1
    <3> QED BY <2>2, <3>1, <3>2
  <2> QED BY <2>3, <2>4
<1>5. a \in Seq(1..N) /\ Len(a) = n + 1 /\ \A k \in 1..(n + 1) : a[k] = off[k - 1] + 1
  <2>1. \A k \in 1..(n + 1) : a[k] = off[k - 1] + 1
    OBVIOUS
  <2>2. a = [k \in 1..(n + 1) |-> a[k]] /\ DOMAIN a = 1..(n + 1)
    OBVIOUS
  <2>3. ASSUME NEW k \in 1..(n + 1) PROVE off[k - 1] + 1 \in 1..N
    <3>1. k - 1 \in 0..n
      BY <1>1
    <3>2. off[k - 1] \in Nat /\ off[k - 1] + L + 2 =< N
      BY <1>2, <1>4, <3>1
    <3> QED BY <1>1, <3>2
  <2> HIDE DEF a
  <2>4. n + 1 \in Nat /\ \A k \in 1..(n + 1) : a[k] \in 1..N
    BY <1>1, <2>1, <2>3
  <2>5. a \in Seq(1..N)
    BY <2>2, <2>4, SequenceOf
  <2>6. Len(a) = n + 1
    BY <2>2, <2>4, <2>5, LenProperties
  <2> QED BY <2>1, <2>5, <2>6
<1> HIDE DEF a
<1>6. \A k \in 1..Len(a) : a[k] \in Found(x, d)
  <2> SUFFICES ASSUME NEW k \in 1..Len(a) PROVE a[k] \in Found(x, d)
    OBVIOUS
  <2>1. k \in 1..(n + 1) /\ k - 1 \in 0..n
    BY <1>1, <1>5
  <2> DEFINE o == off[k - 1]
  <2>2. a[k] = o + 1 /\ o \in Nat /\ o + L + 2 =< N /\ \A i \in 1..L : x[o + i] = d[i]
    BY <1>2, <1>4, <1>5, <2>1, Zenon
  <2> HIDE DEF o
  <2>3. a[k] \in 1..(N + 1 - L) /\ L # 0
    BY <1>1, <2>2
  <2>4. ASSUME NEW i \in 1..L PROVE x[a[k] + i - 1] = d[i]
    <3>1. a[k] + i - 1 = o + i
      BY <1>1, <2>2
    <3> QED BY <2>2, <3>1
  <2> QED BY <1>1, <2>3, <2>4, FoundIs, Zenon DEF L, N
<1>7. \A i, k \in 1..Len(a) : i < k => a[i] + L =< a[k]
  <2> SUFFICES ASSUME NEW i \in 1..Len(a), NEW k \in 1..Len(a), i < k PROVE a[i] + L =< a[k]
    OBVIOUS
  <2>1. i \in 1..(n + 1) /\ k \in 1..(n + 1) /\ i \in 1..n /\ i - 1 \in 0..n /\ i \in 0..n /\ k - 1 \in 0..n /\ i =< k - 1
    <3>1. i \in 1..(n + 1) /\ k \in 1..(n + 1) /\ i < k
      BY <1>5
    <3> QED BY <1>1, <3>1
  <2>2. a[i] = off[i - 1] + 1 /\ a[k] = off[k - 1] + 1
    BY <1>5, <2>1
  <2>3. off[i - 1] + L + 4 =< off[i] /\ off[i] =< off[k - 1] /\ off[i - 1] \in Nat /\ off[i] \in Nat /\ off[k - 1] \in Nat
    BY <1>2, <1>3, <2>1
  <2> DEFINE p == off[i - 1]
             q == off[i]
             r == off[k - 1]
  <2>4. L \in Nat /\ p \in Nat /\ q \in Nat /\ r \in Nat /\ p + L + 4 =< q /\ q =< r
    BY <1>1, <2>3
  <2>5. a[i] = p + 1 /\ a[k] = r + 1
    BY <2>2
  <2> HIDE DEF p, q, r
  <2>6. (p + 1) + L =< r + 1
    BY <2>4
  <2> QED BY <2>5, <2>6
<1>8. \A j \in 1..N : j \in Found(x, d) => \E k \in 1..Len(a) : a[k] =< j /\ j < a[k] + L
  <2> SUFFICES ASSUME NEW j \in 1..N, j \in Found(x, d) PROVE \E k \in 1..Len(a) : a[k] =< j /\ j < a[k] + L
    OBVIOUS
  <2>1. PICK k \in 0..n : off[k] + 1 =< j /\ j < off[k] + 1 + L
    BY Occurs DEF L
  <2>2. k + 1 \in 1..Len(a) /\ a[k + 1] = off[k] + 1
    <3>1. k + 1 \in 1..(n + 1) /\ (k + 1) - 1 = k
      BY <1>1
    <3> QED BY <1>5, <3>1
  <2> QED BY <2>1, <2>2
<1>9. Scan(Found(x, d), L, N, a)
  BY <1>5, <1>6, <1>7, <1>8, Zenon DEF Scan
<1>10. L \in Nat \ {0}
  BY <1>1
<1>11. Spaced(Found(x, d), L, N) = a
  BY <1>1, <1>9, <1>10, ScanUnique
<1> QED BY <1>11, Zenon DEF L, N, a

\* Between two of them is what was sent.
LEMMA SegmentIs ==
  ASSUME NEW U, NEW form, NEW n, NEW d, Sent(form, n, d, U), NEW x \in Seq(U), NEW off,
         Framed(form, n, off, d, x), NEW k \in 1..n
  PROVE  /\ SubSeq(x, (off[k - 1] + 1) + Len(d), (off[k] + 1) - 1) \in Seq(U)
         /\ Enclosed(form[k], Disposition(form[k]),
                     SubSeq(x, (off[k - 1] + 1) + Len(d), (off[k] + 1) - 1))
<1> DEFINE L == Len(d)
           N == Len(x)
           s == Piece(form[k], d)
           D == Disposition(form[k])
           data == form[k].data
           M == Len(D)
           K == Len(data)
           o == off[k - 1]
           e == off[k]
           u == (o + 1) + L
           v == (e + 1) - 1
           q == SubSeq(x, u, v)
<1>1. n \in Nat /\ d \in Seq(U) /\ L \in Nat /\ L >= 2 /\ N \in Nat
  BY DEF Sent, Delimits
<1>2. Pieced(D, data, d, s) /\ Len(s) \in Nat
  BY PieceOf
<1>3. M \in Nat /\ K \in Nat
  <2>1. Sendable(form[k], U)
    BY Zenon DEF Sent
  <2>2. D \in Seq(U) /\ data \in Seq(U)
    BY <2>1, DispositionIs, SendableIs, Zenon
  <2> HIDE DEF D, data
  <2> QED BY <2>2, LenProperties
<1>4. o \in Nat /\ e \in Nat /\ e =< N /\ e = o + Len(s) /\ \A i \in 1..Len(s) : x[o + i] = s[i]
  <2>1. k - 1 \in 0..n /\ k \in 0..n /\ n \in 0..n /\ k =< n
    BY <1>1
  <2>2. o \in Nat /\ e \in Nat /\ e =< off[n] /\ off[n] \in Nat /\ N = off[n] + L + 2
    BY <2>1, Zenon DEF Framed
  <2>3. e = o + Len(s) /\ \A i \in 1..Len(s) : x[o + i] = s[i]
    BY Zenon DEF Framed
  <2> HIDE DEF e, o, N, L, s
  <2>4. e =< N
    BY <1>1, <2>2
  <2> QED BY <2>2, <2>3, <2>4, Zenon
<1>x. \A i \in 1..N : x[i] \in U
  BY DEF N
<1> HIDE DEF s, D, data, o, e, N
<1>5. Len(s) = L + M + K + 4
  BY <1>2, Zenon DEF Pieced, L, M, K
<1>6. /\ s[L + 1] = CRLF /\ s[L + M + 2] = CRLF /\ s[L + M + 3] = CRLF /\ s[L + M + K + 4] = CRLF
      /\ (\A i \in 1..M : s[L + 1 + i] = D[i]) /\ \A i \in 1..K : s[L + M + 3 + i] = data[i]
  BY <1>2, Zenon DEF Pieced, L, M, K
<1> HIDE DEF L, M, K
<1>7. q \in Seq(U) /\ Len(q) = M + K + 4 /\ \A i \in 1..(M + K + 4) : q[i] = s[L + i]
  <2>1. u \in Int /\ v \in Int /\ u =< v /\ v - u + 1 = M + K + 4 /\ v = e
    BY <1>1, <1>3, <1>4, <1>5
  <2>2. \A i \in u..v : x[i] \in U
    <3> SUFFICES ASSUME NEW i \in u..v PROVE x[i] \in U
      OBVIOUS
    <3>1. i \in 1..N
      BY <1>1, <1>4, <2>1
    <3> QED BY <1>x, <3>1
  <2>3. q \in Seq(U) /\ Len(q) = (IF u <= v THEN v - u + 1 ELSE 0) /\ \A i \in 1..(v - u + 1) : q[i] = x[u + i - 1]
    BY <2>1, <2>2, SubSeqProperties
  <2> HIDE DEF q
  <2>4. ASSUME NEW i \in 1..(M + K + 4) PROVE q[i] = s[L + i]
    <3>1. u + i - 1 = o + (L + i)
      BY <1>1, <1>3, <1>4
    <3>2. L + i \in 1..Len(s)
      BY <1>1, <1>3, <1>5
    <3>3. q[i] = x[u + i - 1]
      BY <2>1, <2>3
    <3> QED BY <1>4, <3>1, <3>2, <3>3
  <2> QED BY <2>1, <2>3, <2>4
<1> HIDE DEF q, u, v
<1>8. q[1] = CRLF /\ q[M + 2] = CRLF /\ q[M + 3] = CRLF /\ q[M + K + 4] = CRLF
  <2>1. 1 \in 1..(M + K + 4) /\ M + 2 \in 1..(M + K + 4) /\ M + 3 \in 1..(M + K + 4) /\ M + K + 4 \in 1..(M + K + 4)
    BY <1>3
  <2>2. L + (M + 2) = L + M + 2 /\ L + (M + 3) = L + M + 3 /\ L + (M + K + 4) = L + M + K + 4
    BY <1>1, <1>3
  <2>3. q[1] = s[L + 1] /\ q[M + 2] = s[L + (M + 2)]
    BY <1>7, <2>1, Zenon
  <2>4. q[M + 3] = s[L + (M + 3)] /\ q[M + K + 4] = s[L + (M + K + 4)]
    BY <1>7, <2>1, Zenon
  <2> QED BY <1>6, <2>2, <2>3, <2>4, Zenon
<1>9. \A i \in 1..M : q[i + 1] = D[i]
  <2> SUFFICES ASSUME NEW i \in 1..M PROVE q[i + 1] = D[i]
    OBVIOUS
  <2>1. i + 1 \in 1..(M + K + 4) /\ L + (i + 1) = L + 1 + i
    BY <1>1, <1>3
  <2>2. q[i + 1] = s[L + (i + 1)]
    BY <1>7, <2>1, Zenon
  <2>3. s[L + 1 + i] = D[i]
    BY <1>6
  <2> QED BY <2>1, <2>2, <2>3, Zenon
<1>10. \A i \in 1..K : q[M + 3 + i] = data[i]
  <2> SUFFICES ASSUME NEW i \in 1..K PROVE q[M + 3 + i] = data[i]
    OBVIOUS
  <2>1. M + 3 + i \in 1..(M + K + 4) /\ L + (M + 3 + i) = L + M + 3 + i
    BY <1>1, <1>3
  <2> QED BY <1>6, <1>7, <2>1, Zenon
<1>11. Enclosed(form[k], D, q)
  BY <1>7, <1>8, <1>9, <1>10, Zenon DEF Enclosed, M, K, data
<1> QED BY <1>7, <1>11, Zenon DEF q, u, v, L, o, e, D

\* What was sent comes out.
LEMMA SplitIs ==
  ASSUME NEW U, NEW form, NEW n, NEW d, Sent(form, n, d, U)
  PROVE  Split(Encode(form, d), d) = [k \in 1..n |-> Told(form[k])]
<1> DEFINE x == Encode(form, d)
           at == Spaced(Found(x, d), Len(d), Len(x))
           a(off) == [k \in 1..(n + 1) |-> off[k - 1] + 1]
<1>1. x \in Seq(U) /\ \E off : Framed(form, n, off, d, x)
  BY EncodedIs
<1>2. PICK off : Framed(form, n, off, d, x)
  BY <1>1
<1>0. n \in Nat
  BY DEF Sent
<1> HIDE DEF x
<1>3. at = a(off)
  BY <1>1, <1>2, DelimitersAre
<1>4. Split(x, d) = IF at = <<>> THEN <<BadPart>>
        ELSE [k \in 1..(Len(at) - 1) |-> Part(SubSeq(x, at[k] + Len(d), at[k + 1] - 1))]
  BY DEF Split
<1>5. /\ DOMAIN at = 1..(n + 1) /\ \A k \in 1..(n + 1) : at[k] = off[k - 1] + 1
  BY <1>3
<1>6. Len(at) = n + 1 /\ at # <<>>
  <2>1. \A k \in 1..(n + 1) : at[k] \in Nat
    <3> SUFFICES ASSUME NEW k \in 1..(n + 1) PROVE at[k] \in Nat
      OBVIOUS
    <3>1. k - 1 \in 0..n
      BY <1>0
    <3>2. off[k - 1] \in Nat
      BY <1>2, <3>1 DEF Framed
    <3> QED BY <1>5, <3>2
  <2>2. at = [k \in 1..(n + 1) |-> at[k]]
    BY <1>3
  <2> HIDE DEF at
  <2>3. n + 1 \in Nat /\ n + 1 # 0
    BY <1>0
  <2>4. at \in Seq(Nat)
    BY <2>1, <2>2, <2>3, SequenceOf
  <2>5. Len(at) = n + 1
    BY <1>5, <2>3, <2>4, LenProperties
  <2>6. ASSUME at = <<>> PROVE FALSE
    <3>1. Len(<<>>) = 0
      OBVIOUS
    <3>2. 0 = n + 1
      BY <2>5, <2>6, <3>1, Zenon
    <3> QED BY <1>0, <3>2
  <2> QED BY <2>5, <2>6
<1> HIDE DEF at
<1>7. Len(at) - 1 = n
  BY <1>0, <1>6
<1>8. ASSUME NEW k \in 1..n PROVE Part(SubSeq(x, at[k] + Len(d), at[k + 1] - 1)) = Told(form[k])
  <2>1. at[k] = off[k - 1] + 1 /\ at[k + 1] = off[k] + 1
    <3>1. k \in 1..(n + 1) /\ k + 1 \in 1..(n + 1) /\ (k + 1) - 1 = k
      BY <1>0
    <3> QED BY <1>5, <3>1
  <2> DEFINE segment == SubSeq(x, at[k] + Len(d), at[k + 1] - 1)
  <2>2. segment \in Seq(U) /\ Enclosed(form[k], Disposition(form[k]), segment)
    BY <1>1, <1>2, <2>1, SegmentIs
  <2> HIDE DEF segment
  <2>3. Sendable(form[k], U) /\ FileOnly(form[k])
    BY Zenon DEF Sent
  <2>4. Part(segment) = Told(form[k])
    BY <2>2, <2>3, PartIs
  <2> QED BY <2>4 DEF segment
<1>9. Split(x, d) = [k \in 1..n |-> Part(SubSeq(x, at[k] + Len(d), at[k + 1] - 1))]
  BY <1>4, <1>6, <1>7, Zenon
<1>10. [k \in 1..n |-> Part(SubSeq(x, at[k] + Len(d), at[k + 1] - 1))] = [k \in 1..n |-> Told(form[k])]
  BY <1>8
<1> QED BY <1>9, <1>10 DEF x

----------------------------------------------------------------------------
(* The form that a command gets. *)

\* A text is a sequence of what it holds.
LEMMA TextIn ==
  ASSUME NEW v, Text(v), NEW U, ToSet(v) \subseteq U
  PROVE  v \in Seq(U) /\ \A i \in 1..Len(v) : v[i] \in ToSet(v)
<1>1. v \in Seq(ToSet(v))
  BY DEF Text
<1>2. v \in Seq(U)
  BY <1>1, SeqMonotonic
<1>3. \A i \in 1..Len(v) : v[i] \in ToSet(v)
  BY <1>1, ElementOfSeq
<1> QED BY <1>2, <1>3

\* What a request carries is a form as the lemmas above have it.
LEMMA CarriesIs ==
  ASSUME NEW s, Carries(s), \A k \in DOMAIN s.form : ~Misread(s.form[k])
  PROVE  \E U : Sent(s.form, Len(s.form), s.delim, U)
<1> DEFINE form == s.form
           n == Len(form)
           d == s.delim
           Parts(k) == ToSet(form[k].name) \cup ToSet(form[k].file) \cup ToSet(form[k].data)
           U == Marks \cup ToSet(d) \cup UNION {Parts(k) : k \in DOMAIN form}
<1>1. n \in Nat /\ DOMAIN form = 1..n
  BY DEF Carries, Listed
<1>2. Marks \subseteq U /\ ToSet(d) \subseteq U
        /\ \A k \in DOMAIN form : ToSet(form[k].name) \subseteq U /\ ToSet(form[k].file) \subseteq U /\ ToSet(form[k].data) \subseteq U
  <2>1. Marks \subseteq U /\ ToSet(d) \subseteq U
    OBVIOUS
  <2>2. \A k \in DOMAIN form : Parts(k) \subseteq U
    <3> HIDE DEF Parts
    <3> QED OBVIOUS
  <2>3. \A k : ToSet(form[k].name) \subseteq Parts(k) /\ ToSet(form[k].file) \subseteq Parts(k) /\ ToSet(form[k].data) \subseteq Parts(k)
    OBVIOUS
  <2> HIDE DEF U, Parts
  <2> QED BY <2>1, <2>2, <2>3
<1> HIDE DEF U
<1>3. Delimits(d, U)
  <2>1. Text(d) /\ Len(d) >= 2 /\ CRLF \notin ToSet(d)
    BY DEF Carries
  <2>2. d \in Seq(U) /\ \A i \in 1..Len(d) : d[i] \in ToSet(d)
    BY <1>2, <2>1, TextIn
  <2> QED BY <2>1, <2>2, Zenon DEF Delimits
<1>4. ASSUME NEW k \in 1..n
      PROVE  /\ Sendable(form[k], U) /\ FileOnly(form[k])
             /\ Found(Disposition(form[k]), d) = {} /\ Found(form[k].data, d) = {}
  <2> DEFINE p == form[k]
  <2>0. k \in DOMAIN form
    BY <1>1
  <2>1. /\ Text(p.name) /\ Text(p.file) /\ Text(p.data)
        /\ {CRLF, ";"} \cap ToSet(p.name) = {} /\ CRLF \notin ToSet(p.file)
        /\ Found(Disposition(p), d) = {} /\ Found(p.data, d) = {}
    BY <2>0 DEF Carries
  <2>2. ToSet(p.name) \subseteq U /\ ToSet(p.file) \subseteq U /\ ToSet(p.data) \subseteq U
    BY <1>2, <2>0
  <2>3. FileOnly(p)
    BY <2>0 DEF FileOnly, Misread
  <2> HIDE DEF p
  <2>4. p.name \in Seq(U) /\ \A i \in 1..Len(p.name) : p.name[i] \in ToSet(p.name)
    BY <2>1, <2>2, TextIn
  <2>5. p.file \in Seq(U) /\ \A i \in 1..Len(p.file) : p.file[i] \in ToSet(p.file)
    BY <2>1, <2>2, TextIn
  <2>6. p.data \in Seq(U)
    BY <2>1, <2>2, TextIn
  <2>7. \A i \in 1..Len(p.name) : p.name[i] \notin {CRLF, ";"}
    BY <2>1, <2>4
  <2>8. \A i \in 1..Len(p.file) : p.file[i] # CRLF
    BY <2>1, <2>5
  <2>9. Sendable(p, U)
    BY <1>2, <2>4, <2>5, <2>6, <2>7, <2>8, Zenon DEF Sendable
  <2> QED BY <2>1, <2>3, <2>9 DEF p
<1>5. Sent(form, n, d, U)
  BY <1>1, <1>2, <1>3, <1>4, Zenon DEF Sent
<1> QED BY <1>5

\* Of several parts there is a last.
LEMMA LastOfSome ==
  ASSUME NEW n \in Nat, NEW S, S \subseteq 1..n, S # {}
  PROVE  \E m \in S : \A k \in S : k =< m
<1> DEFINE T == {n - k : k \in S}
<1>1. T \subseteq Nat /\ T # {}
  <2>1. \A k \in S : n - k \in Nat
    OBVIOUS
  <2>2. PICK k \in S : TRUE
    OBVIOUS
  <2>3. n - k \in T
    OBVIOUS
  <2> QED BY <2>1, <2>3
<1>2. PICK l \in T : \A j \in T : l =< j
  <2> HIDE DEF T
  <2> QED BY <1>1, LeastOf
<1>3. PICK m \in S : l = n - m
  OBVIOUS
<1>4. ASSUME NEW k \in S PROVE k =< m
  <2>1. n - m =< n - k
    BY <1>2, <1>3
  <2> QED BY <2>1
<1> QED BY <1>4

\* The parts are those of a form that a body can carry.
SentForm(s) ==
  /\ Carries(s) /\ req.body.multipart
  /\ req.body.parts = Split(Encode(s.form, s.delim), s.delim)

\* A body of this kind is the form that was sent.
LEMMA FormAsSent ==
  ASSUME NEW s, SentForm(s), \A k \in DOMAIN s.form : ~Misread(s.form[k]), NEW fields
  PROVE  /\ req.body.multipart
         /\ DOMAIN req.body.parts = DOMAIN s.form
         /\ \A k \in DOMAIN s.form : req.body.parts[k] = Told(s.form[k])
         /\ DOMAIN ParsedForm(fields) = SentNames(s.form)
         /\ \A m \in SentNames(s.form) :
              /\ ParsedForm(fields)[m].value = LastSent(s.form, m)
              /\ ParsedForm(fields)[m].binary <=> m \in FormNames(fields, {"binary"})
<1> DEFINE form == s.form
           n == Len(form)
           parts == req.body.parts
<1>1. Carries(s) /\ req.body.multipart /\ parts = Split(Encode(form, s.delim), s.delim)
  BY DEF SentForm
<1>2. n \in Nat /\ DOMAIN form = 1..n
  BY <1>1 DEF Carries, Listed
<1>3. parts = [k \in 1..n |-> Told(form[k])]
  <2>1. PICK U : Sent(form, n, s.delim, U)
    BY <1>1, CarriesIs
  <2>2. Split(Encode(form, s.delim), s.delim) = [k \in 1..n |-> Told(form[k])]
    BY <2>1, SplitIs
  <2> QED BY <1>1, <2>2
<1>4. DOMAIN parts = 1..n /\ \A k \in 1..n : parts[k] = Told(form[k])
  BY <1>3
<1>5. \A k \in 1..n : parts[k].name = {form[k].name} /\ parts[k].value = form[k].data
  <2>1. \A p : Told(p).name = {p.name} /\ Told(p).value = p.data
    BY DEF Told
  <2> QED BY <1>4, <2>1, Zenon
<1> HIDE DEF form, n, parts
<1> DEFINE names == UNION {parts[j].name : j \in DOMAIN parts}
           last(m) == CHOOSE j \in DOMAIN parts :
                        /\ m \in parts[j].name
                        /\ \A k \in DOMAIN parts : m \in parts[k].name => k =< j
<1>6. ParsedForm(fields) = [m \in names |-> [binary |-> m \in FormNames(fields, {"binary"}),
                                            value |-> parts[last(m)].value]]
  BY DEF ParsedForm, parts
<1>7. names = SentNames(form)
  BY <1>2, <1>4, <1>5 DEF SentNames
<1>8. ASSUME NEW m \in SentNames(form) PROVE parts[last(m)].value = LastSent(form, m)
  <2> DEFINE S == SentAs(form, m)
             mine == last(m)
             its == CHOOSE k \in S : \A j \in S : j =< k
  <2>1. S \subseteq 1..n /\ S # {} /\ \A k \in 1..n : k \in S <=> m \in parts[k].name
    BY <1>2, <1>5 DEF SentAs, SentNames
  <2>2. PICK top \in S : \A k \in S : k =< top
    <3> HIDE DEF S
    <3> QED BY <1>2, <2>1, LastOfSome
  <2>3. its \in S /\ \A j \in S : j =< its
    BY <2>2, Zenon
  <2>4. mine \in S /\ \A j \in S : j =< mine
    <3> HIDE DEF S
    <3>1. top \in DOMAIN parts /\ m \in parts[top].name /\ \A k \in DOMAIN parts : m \in parts[k].name => k =< top
      BY <1>4, <2>1, <2>2
    <3>2. mine \in DOMAIN parts /\ m \in parts[mine].name /\ \A k \in DOMAIN parts : m \in parts[k].name => k =< mine
      BY <3>1, Zenon
    <3> QED BY <1>4, <2>1, <3>2
  <2>5. mine = its
    <3> HIDE DEF mine, its, S
    <3>1. mine \in Nat /\ its \in Nat /\ mine =< its /\ its =< mine
      BY <2>1, <2>3, <2>4
    <3> QED BY <3>1
  <2>6. LastSent(form, m) = form[its].data
    BY DEF LastSent
  <2>7. its \in 1..n
    BY <2>1, <2>3
  <2> HIDE DEF mine, its, S
  <2>8. parts[mine].value = form[its].data
    BY <1>5, <2>5, <2>7
  <2> QED BY <2>6, <2>8 DEF mine
<1>9. \A m \in SentNames(form) :
        /\ ParsedForm(fields)[m].value = LastSent(form, m)
        /\ ParsedForm(fields)[m].binary <=> m \in FormNames(fields, {"binary"})
  <2> HIDE DEF names, last
  <2> SUFFICES ASSUME NEW m \in SentNames(form)
               PROVE  /\ ParsedForm(fields)[m].value = LastSent(form, m)
                      /\ ParsedForm(fields)[m].binary <=> m \in FormNames(fields, {"binary"})
    OBVIOUS
  <2> DEFINE v == [binary |-> m \in FormNames(fields, {"binary"}), value |-> parts[last(m)].value]
  <2>1. ParsedForm(fields)[m] = v
    BY <1>6, <1>7
  <2>2. v.value = parts[last(m)].value /\ (v.binary <=> m \in FormNames(fields, {"binary"}))
    OBVIOUS
  <2> HIDE DEF v
  <2> QED BY <1>8, <2>1, <2>2
<1>10. DOMAIN ParsedForm(fields) = SentNames(form)
  <2> HIDE DEF names, last
  <2> QED BY <1>6, <1>7
<1> QED BY <1>1, <1>2, <1>4, <1>9, <1>10 DEF form, parts

\* A body that is not good fails for a field or for bytes that are not text.
LEMMA FormFails ==
  ASSUME NEW s, SentForm(s), \A k \in DOMAIN s.form : ~Misread(s.form[k]),
         NEW fields, NamedOnce(fields), ~FormGood(fields)
  PROVE  \/ \E k \in DOMAIN fields :
              IF fields[k].name \in SentNames(s.form)
              THEN fields[k].ty # "binary" /\ <<LastSent(s.form, fields[k].name), fields[k].ty>> \notin Fits
              ELSE ~fields[k].optional
         \/ \E k \in DOMAIN s.form :
              NotText \in ToSet(s.form[k].data) /\ s.form[k].name \notin FormNames(fields, {"binary"})
<1> DEFINE form == ParsedForm(fields)
           binaries == FormNames(fields, {"binary"})
           texts == [m \in {l \in DOMAIN form : ~form[l].binary} |-> form[m].value]
<1>1. /\ req.body.multipart
      /\ DOMAIN req.body.parts = DOMAIN s.form
      /\ \A k \in DOMAIN s.form : req.body.parts[k] = Told(s.form[k])
      /\ DOMAIN form = SentNames(s.form)
      /\ \A m \in SentNames(s.form) :
           form[m].value = LastSent(s.form, m) /\ (form[m].binary <=> m \in binaries)
  BY FormAsSent
<1>2. \A j \in DOMAIN fields : fields[j].name \in binaries <=> fields[j].ty = "binary"
  BY DEF FormNames, NamedOnce, Listed
<1>3. \/ \E j \in DOMAIN fields : fields[j].ty # "binary" /\ ~FieldGood(fields[j], texts, {})
      \/ \E j \in DOMAIN fields : ~fields[j].optional /\ fields[j].name \notin DOMAIN form
      \/ \E j \in DOMAIN s.form : PartBad(req.body.parts[j], fields)
  BY <1>1 DEF FormGood
<1> HIDE DEF form, binaries
<1>4. ASSUME NEW j \in DOMAIN fields, fields[j].ty # "binary", ~FieldGood(fields[j], texts, {})
      PROVE  IF fields[j].name \in SentNames(s.form)
             THEN fields[j].ty # "binary" /\ <<LastSent(s.form, fields[j].name), fields[j].ty>> \notin Fits
             ELSE ~fields[j].optional
  <2>1. CASE fields[j].name \in SentNames(s.form)
    <3>1. fields[j].name \in DOMAIN texts /\ texts[fields[j].name] = LastSent(s.form, fields[j].name)
      BY <1>1, <1>2, <1>4, <2>1
    <3> HIDE DEF texts
    <3> QED BY <1>4, <2>1, <3>1 DEF FieldGood, Within
  <2>2. CASE fields[j].name \notin SentNames(s.form)
    <3>1. fields[j].name \notin DOMAIN texts
      BY <1>1, <2>2
    <3> HIDE DEF texts
    <3> QED BY <1>4, <2>2, <3>1 DEF FieldGood
  <2> QED BY <2>1, <2>2
<1>5. ASSUME NEW j \in DOMAIN s.form, PartBad(req.body.parts[j], fields)
      PROVE  NotText \in ToSet(s.form[j].data) /\ s.form[j].name \notin binaries
  <2>1. req.body.parts[j] = Told(s.form[j])
    BY <1>1
  <2>2. /\ Told(s.form[j]).ok /\ (Told(s.form[j]).utf8 <=> NotText \notin ToSet(s.form[j].data))
        /\ Told(s.form[j]).name = {s.form[j].name}
    BY DEF Told
  <2> QED BY <1>5, <2>1, <2>2 DEF PartBad, binaries
<1> HIDE DEF texts
<1> QED BY <1>1, <1>3, <1>4, <1>5 DEF binaries

\* An answer is the last thing of a request.
AnsweredLast == answer.at # "none" => stage = "answered"

\* Every step keeps that.
LEMMA AnswerStays ==
  ASSUME AnsweredLast, [Next]_gateVars
  PROVE  AnsweredLast'
<1>1. ASSUME stage # "answered", answer' = answer PROVE AnsweredLast'
  BY <1>1 DEF AnsweredLast
<1>2. \A s : Respond(s) => AnsweredLast'
  BY DEF Respond, AnsweredLast
<1>3. CASE Accept
  BY <1>3 DEF Accept, AnsweredLast, NoAnswer
<1>4. CASE Serve \/ ServeFails
  BY <1>1, <1>4 DEF Serve, ServeFails
<1>5. CASE Extract \/ Authenticate \/ BuildBody
  BY <1>1, <1>2, <1>5 DEF Extract, Authenticate, BuildBody, Reject
<1>6. ASSUME NEW errors, NEW newCtx, stage # "answered", Item(errors, newCtx) PROVE AnsweredLast'
  BY <1>1, <1>2, <1>6 DEF Item, Reject
<1>7. CASE ValidateQuery \/ ValidateHeaders \/ ValidatePath
  BY <1>6, <1>7 DEF ValidateQuery, ValidateHeaders, ValidatePath
<1>8. CASE ResolveVars
  <2>1. stage # "answered"
    BY <1>8 DEF ResolveVars
  <2> QED BY <1>2, <1>6, <1>8, <2>1 DEF ResolveVars, Reject
<1>9. CASE ScopeDone
  BY <1>1, <1>9 DEF ScopeDone, Scopes
<1>10. CASE DryRun \/ NotStarted \/ Execute
  BY <1>2, <1>10 DEF DryRun, NotStarted, Execute, Reject
<1>11. CASE UNCHANGED gateVars
  BY <1>11 DEF gateVars, AnsweredLast
<1> QED BY <1>3, <1>4, <1>5, <1>7, <1>8, <1>9, <1>10, <1>11 DEF Next

\* A form that was sent as multipart/form-data is the form that the command gets, name by
\* name and byte for byte, and a refusal names what is wrong with it (server.rs:516-640,
\* 444-483): SplitIs gives back the parts, and build_body's errors are those of the form.
THEOREM FormAlwaysAsSent == Spec => []FormIsWhatWasSent
<1>1. Init => BodyKept /\ AnsweredLast
  BY DEF Init, BodyKept, AnsweredLast, NoAnswer
<1>2. ASSUME IInv, BodyKept, AnsweredLast, FromClient PROVE FormIsWhatWasSent
  <2> SUFFICES ASSUME config.body.kind = "form", NEW s \in req.body.sent,
                      \A k \in DOMAIN s.form : ~Misread(s.form[k])
               PROVE  /\ stage = "run" =>
                           /\ DOMAIN ctx.body.value = SentNames(s.form)
                           /\ \A n \in SentNames(s.form) : ctx.body.value[n].value = LastSent(s.form, n)
                      /\ answer.at = "body" =>
                           \/ \E k \in DOMAIN config.body.fields :
                                LET f == config.body.fields[k] IN
                                IF f.name \in SentNames(s.form)
                                THEN f.ty # "binary" /\ <<LastSent(s.form, f.name), f.ty>> \notin Fits
                                ELSE ~f.optional
                           \/ \E k \in DOMAIN s.form :
                                /\ NotText \in ToSet(s.form[k].data)
                                /\ s.form[k].name \notin FormNames(config.body.fields, {"binary"})
    BY DEF FormIsWhatWasSent
  <2> DEFINE fields == config.body.fields
  <2>1. config \in Configs /\ SentForm(s)
    BY <1>2, SentAssumption DEF IInv, TypeOK, FromClient, SentForm
  <2>2. NamedOnce(fields)
    BY <2>1, ConfigAssumption
  <2>3. ASSUME stage = "run"
        PROVE  /\ DOMAIN ctx.body.value = SentNames(s.form)
               /\ \A n \in SentNames(s.form) : ctx.body.value[n].value = LastSent(s.form, n)
    <3>1. ctx.body = [kind |-> "form", value |-> ParsedForm(fields)]
      BY <1>2, <2>3 DEF BodyKept, BodyValue
    <3>2. ctx.body.value = ParsedForm(fields)
      BY <3>1
    <3>3. /\ DOMAIN ParsedForm(fields) = SentNames(s.form)
          /\ \A n \in SentNames(s.form) : ParsedForm(fields)[n].value = LastSent(s.form, n)
      BY <2>1, FormAsSent
    <3> QED BY <3>2, <3>3
  <2>4. answer.at = "body" => ~FormGood(fields)
    <3> SUFFICES ASSUME answer.at = "body" PROVE ~FormGood(fields)
      OBVIOUS
    <3>1. stage = "answered"
      BY <1>2 DEF AnsweredLast
    <3>2. FirstDefect
      BY <1>2, FirstDefectIs DEF IInv
    <3>3. ~BodyGood
      BY <3>1, <3>2, GoodIs DEF FirstDefect
    <3> QED BY <3>3 DEF BodyGood
  <2> HIDE DEF fields
  <2>5. ASSUME answer.at = "body"
        PROVE  \/ \E k \in DOMAIN fields :
                    IF fields[k].name \in SentNames(s.form)
                    THEN fields[k].ty # "binary" /\ <<LastSent(s.form, fields[k].name), fields[k].ty>> \notin Fits
                    ELSE ~fields[k].optional
               \/ \E k \in DOMAIN s.form :
                    NotText \in ToSet(s.form[k].data) /\ s.form[k].name \notin FormNames(fields, {"binary"})
    BY <2>1, <2>2, <2>4, <2>5, FormFails, Zenon
  <2> QED BY <2>3, <2>5, Zenon DEF fields
<1> QED BY <1>1, <1>2, Inductive, BodyStays, AnswerStays, RequestsAreSent, PTL DEF Spec

----------------------------------------------------------------------------
(* The macro: what is wrong with an invocation does not depend on the order  *)
(* of its lines, though the macro finds it line by line.                     *)

Meant(k) == Mapping(input.lines[k])
Bindable(k) == Matching(Meant(k))

\* Line k stands beside the lines before it, and its method is made.
Placed(k) ==
  \E e \in DOMAIN input.endpoints :
    /\ Meant(k).method \in Methods /\ Bindable(k) = {e}
    /\ ~Ungenerable(input.endpoints[e], Meant(k).output)
    /\ methods[k] = Generated(Meant(k), e)
    /\ \A j \in 1..(k - 1) : Meant(j).fn # Meant(k).fn /\ e \notin Bindable(j)

Makeable == {Generated(Meant(k), e) : k \in DOMAIN input.lines, e \in DOMAIN input.endpoints}

\* What the lines before `line` left behind; without a fault, all of it.
LinesDone ==
  /\ line \in Nat \ {0} /\ line =< Len(input.lines) + 1
  /\ \A fn \in taken : \E j \in 1..(line - 1) : Meant(j).fn = fn
  /\ \A e \in mapped : \E j \in 1..(line - 1) : e \in Bindable(j)
  /\ faults = {} =>
       /\ methods \in Seq(Makeable) /\ Len(methods) = line - 1
       /\ \A k \in 1..(line - 1) :
            Placed(k) /\ Meant(k).fn \in taken /\ Bindable(k) \subseteq mapped

MacroInv ==
  /\ input \in Inputs /\ phase \in {"parse", "spec", "map", "client", "error"}
  /\ LinesDone
  /\ phase \in {"parse", "spec"} => line = 1 /\ methods = <<>> /\ faults = {}
  /\ phase \in {"spec", "map", "client"} => \A k \in DOMAIN input.lines : Readable(input.lines[k])
  /\ phase \in {"map", "client"} => input.file = "good"
  /\ phase \in {"map", "client"} /\ faults = {} => input.lines # <<>>
  /\ phase = "client" => faults = {} /\ line = Len(input.lines) + 1
  /\ phase = "error" => faults # {}
  /\ faults # {} => ~Sound

\* The invocation does not change, and no more does what it says.
LEMMA InputStays ==
  ASSUME input' = input
  PROVE  /\ \A k : Meant(k)' = Meant(k) /\ Bindable(k)' = Bindable(k)
         /\ \A m, e : Generated(m, e)' = Generated(m, e)
         /\ \A tokens : Readable(tokens)' <=> Readable(tokens)
         /\ Sound' <=> Sound
         /\ Makeable' = Makeable
<1>1. /\ \A tokens : Mapping(tokens)' = Mapping(tokens)
      /\ \A tokens : Readable(tokens)' <=> Readable(tokens)
  BY DEF Mapping, Readable, PathOk
<1>2. \A m : Matching(m)' = Matching(m)
  BY DEF Matching
<1>3. \A k : Meant(k)' = Meant(k) /\ Bindable(k)' = Bindable(k)
  BY <1>1, <1>2 DEF Meant, Bindable
<1>4. \A m, e : Generated(m, e)' = Generated(m, e)
  BY DEF Generated
<1>5. Sound' <=> Sound
  BY <1>1, <1>2, ZenonT(30) DEF Sound
<1>6. Makeable' = Makeable
  BY <1>3, <1>4 DEF Makeable
<1> QED BY <1>1, <1>3, <1>4, <1>5, <1>6

LEMMA LinesAre ==
  ASSUME input \in Inputs
  PROVE  /\ Len(input.lines) \in Nat /\ DOMAIN input.lines = 1..Len(input.lines)
         /\ input.lines = <<>> <=> Len(input.lines) = 0
<1>1. Len(input.lines) \in Nat /\ input.lines = [k \in 1..Len(input.lines) |-> input.lines[k]]
  BY InputAssumption
<1>2. PICK n : n = Len(input.lines)
  OBVIOUS
<1>3. PICK f : f = input.lines
  OBVIOUS
<1>4. f = [k \in 1..n |-> f[k]] /\ n \in Nat
  BY <1>1, <1>2, <1>3
<1>5. DOMAIN f = 1..n
  BY <1>4
<1>6. ASSUME n = 0 PROVE f = <<>>
  BY <1>4, <1>5, <1>6
<1>7. f = <<>> => n = 0
  BY <1>2, <1>3
<1> QED BY <1>2, <1>3, <1>4, <1>5, <1>6, <1>7

\* A fault is a reason for the invocation to be refused.
LEMMA FaultTells ==
  ASSUME MacroInv, InTurn,
         \/ Turn.fn \in taken
         \/ Turn.method \notin Methods
         \/ Cardinality(Matching(Turn)) # 1
         \/ \E e \in mapped : Matching(Turn) = {e}
         \/ \E e \in Matching(Turn) : Ungenerable(input.endpoints[e], Turn.output)
  PROVE  ~Sound
<1>1. Turn = Meant(line) /\ Matching(Turn) = Bindable(line)
  BY DEF Turn, Meant, Bindable
<1>2. line \in DOMAIN input.lines /\ \A j \in 1..(line - 1) : j \in DOMAIN input.lines /\ j # line
  BY LinesAre DEF MacroInv, LinesDone, InTurn
<1>3. CASE Turn.fn \in taken
  <2>1. PICK j \in 1..(line - 1) : Meant(j).fn = Turn.fn
    BY <1>3 DEF MacroInv, LinesDone
  <2> QED BY <1>1, <1>2, <2>1 DEF Sound, Meant
<1>4. CASE \E e \in mapped : Matching(Turn) = {e}
  <2>1. PICK e \in mapped : Bindable(line) = {e}
    BY <1>1, <1>4
  <2>2. PICK j \in 1..(line - 1) : e \in Bindable(j)
    BY <2>1 DEF MacroInv, LinesDone
  <2> QED BY <1>2, <2>1, <2>2 DEF Sound, Meant, Bindable
<1>5. CASE \/ Turn.method \notin Methods
           \/ Cardinality(Matching(Turn)) # 1
           \/ \E e \in Matching(Turn) : Ungenerable(input.endpoints[e], Turn.output)
  BY <1>1, <1>2, <1>5 DEF Sound, Meant
<1> QED BY <1>3, <1>4, <1>5

\* A line with a fault leaves its name, and no more.
LEMMA FaultKeeps ==
  ASSUME MacroInv, InTurn, NextLine, ~Sound, faults' # {}, mapped' = mapped \/
           (\E e \in Matching(Turn) : mapped' = mapped \cup {e}),
         taken' \subseteq taken \cup {Turn.fn}
  PROVE  MacroInv'
<1>1. line' = line + 1 /\ input' = input /\ phase' = phase /\ phase = "map"
  BY DEF NextLine, InTurn
<1>2. line \in Nat \ {0} /\ line =< Len(input.lines) /\ Len(input.lines) \in Nat
  BY LinesAre DEF MacroInv, LinesDone, InTurn
<1>3. Turn = Meant(line) /\ Matching(Turn) = Bindable(line)
  BY DEF Turn, Meant, Bindable
<1>4. PICK n : n = line
  OBVIOUS
<1>5. /\ \A fn \in taken' : \E j \in 1..n : Meant(j).fn = fn
      /\ \A e \in mapped' : \E j \in 1..n : e \in Bindable(j)
  <2>1. /\ \A fn \in taken : \E j \in 1..(n - 1) : Meant(j).fn = fn
        /\ \A e \in mapped : \E j \in 1..(n - 1) : e \in Bindable(j)
    BY <1>4 DEF MacroInv, LinesDone
  <2>2. n \in 1..n /\ \A j \in 1..(n - 1) : j \in 1..n
    BY <1>2, <1>4
  <2>3. \A fn \in taken' : \E j \in 1..n : Meant(j).fn = fn
    BY <1>3, <1>4, <2>1, <2>2
  <2>4. \A e \in mapped' : \E j \in 1..n : e \in Bindable(j)
    BY <1>3, <1>4, <2>1, <2>2
  <2> QED BY <2>3, <2>4
<1>6. line' = n + 1 /\ n \in Nat /\ (n + 1) - 1 = n /\ n + 1 =< Len(input.lines) + 1
  BY <1>1, <1>2, <1>4
<1>7. LinesDone'
  BY <1>1, <1>5, <1>6, InputStays DEF LinesDone
<1> QED BY <1>1, <1>7, InputStays DEF MacroInv

\* A line without one is placed, and so stay those before it.
LEMMA GenerateKeeps ==
  ASSUME MacroInv, Generate
  PROVE  MacroInv'
<1>1. /\ InTurn /\ NextLine /\ Turn.fn \notin taken /\ Turn.method \in Methods
      /\ taken' = taken \cup {Turn.fn}
  BY DEF Generate
<1>2. PICK e \in DOMAIN input.endpoints \ mapped :
        /\ Matching(Turn) = {e} /\ mapped' = mapped \cup {e}
        /\ IF Ungenerable(input.endpoints[e], Turn.output)
           THEN faults' = faults \cup {line} /\ methods' = methods
           ELSE methods' = Append(methods, Generated(Turn, e)) /\ faults' = faults
  BY DEF Generate
<1>3. CASE Ungenerable(input.endpoints[e], Turn.output)
  <2>1. ~Sound /\ faults' # {}
    BY <1>1, <1>2, <1>3, FaultTells
  <2> QED BY <1>1, <1>2, <2>1, FaultKeeps
<1>4. CASE ~Ungenerable(input.endpoints[e], Turn.output) /\ faults # {}
  <2>1. ~Sound /\ faults' # {}
    BY <1>2, <1>4 DEF MacroInv
  <2> QED BY <1>1, <1>2, <2>1, FaultKeeps
<1>5. CASE ~Ungenerable(input.endpoints[e], Turn.output) /\ faults = {}
  <2>1. line' = line + 1 /\ input' = input /\ phase' = phase /\ phase = "map"
    BY <1>1 DEF NextLine, InTurn
  <2>2. line \in Nat \ {0} /\ line =< Len(input.lines) /\ line \in DOMAIN input.lines /\ Len(input.lines) \in Nat
    BY <1>1, LinesAre DEF MacroInv, LinesDone, InTurn
  <2>3. PICK n : n = line
    OBVIOUS
  <2>4. /\ line' = n + 1 /\ n \in Nat \ {0} /\ (n + 1) - 1 = n /\ n + 1 =< Len(input.lines) + 1
        /\ n \in 1..n /\ \A j \in 1..n : j = n \/ j \in 1..(n - 1)
        /\ \A j \in 1..(n - 1) : j \in 1..n
    BY <2>1, <2>2, <2>3
  <2>5. Turn = Meant(n) /\ Bindable(n) = {e}
    BY <1>2, <2>3 DEF Turn, Meant, Bindable
  <2>6. /\ \A fn \in taken : \E j \in 1..(n - 1) : Meant(j).fn = fn
        /\ \A x \in mapped : \E j \in 1..(n - 1) : x \in Bindable(j)
        /\ methods \in Seq(Makeable) /\ Len(methods) = n - 1
        /\ \A k \in 1..(n - 1) :
             Placed(k) /\ Meant(k).fn \in taken /\ Bindable(k) \subseteq mapped
    BY <1>5, <2>3 DEF MacroInv, LinesDone
  <2>7. Generated(Turn, e) \in Makeable
    BY <2>2, <2>3, <2>5 DEF Makeable
  <2>8. /\ methods' \in Seq(Makeable) /\ Len(methods') = n /\ methods'[n] = Generated(Turn, e)
        /\ \A k \in 1..(n - 1) : methods'[k] = methods[k]
    <3>1. methods' = Append(methods, Generated(Turn, e))
      BY <1>2, <1>5
    <3> HIDE DEF Makeable
    <3> QED BY <2>4, <2>6, <2>7, <3>1
  <2>9. /\ \A fn \in taken' : \E j \in 1..n : Meant(j).fn = fn
        /\ \A x \in mapped' : \E j \in 1..n : x \in Bindable(j)
    BY <1>1, <1>2, <2>4, <2>5, <2>6
  <2>10. ASSUME NEW k \in 1..n
         PROVE  Placed(k)' /\ Meant(k).fn \in taken' /\ Bindable(k) \subseteq mapped'
    <3>1. CASE k = n
      <4>1. \A j \in 1..(n - 1) : Meant(j).fn # Meant(n).fn /\ e \notin Bindable(j)
        BY <1>1, <1>2, <2>5, <2>6
      <4>2. /\ Meant(n).method \in Methods /\ ~Ungenerable(input.endpoints[e], Meant(n).output)
            /\ methods'[n] = Generated(Meant(n), e) /\ e \in DOMAIN input.endpoints
        BY <1>1, <1>2, <1>5, <2>5, <2>8
      <4>3. Placed(n)'
        BY <2>1, <2>5, <4>1, <4>2, InputStays DEF Placed
      <4> QED BY <1>1, <1>2, <2>5, <3>1, <4>3
    <3>2. CASE k \in 1..(n - 1)
      <4>1. Placed(k) /\ Meant(k).fn \in taken /\ Bindable(k) \subseteq mapped /\ methods'[k] = methods[k]
        BY <2>6, <2>8, <3>2
      <4>2. Placed(k)'
        BY <2>1, <4>1, InputStays DEF Placed
      <4> QED BY <1>1, <1>2, <4>1, <4>2
    <3> QED BY <2>4, <3>1, <3>2
  <2>11. LinesDone'
    <3>1. Makeable' = Makeable /\ \A k : Meant(k)' = Meant(k) /\ Bindable(k)' = Bindable(k)
      BY <2>1, InputStays
    <3> QED BY <2>1, <2>4, <2>8, <2>9, <2>10, <3>1 DEF LinesDone
  <2>12. faults' = {}
    BY <1>2, <1>5
  <2> QED BY <2>1, <2>11, <2>12, <1>5, InputStays DEF MacroInv
<1> QED BY <1>3, <1>4, <1>5

LEMMA LinesStayDone ==
  ASSUME LinesDone, UNCHANGED <<input, line, taken, mapped, methods, faults>>
  PROVE  LinesDone'
<1>1. \A k : Placed(k) => Placed(k)'
  BY InputStays DEF Placed
<1>2. Makeable' = Makeable /\ \A k : Meant(k)' = Meant(k) /\ Bindable(k)' = Bindable(k)
  BY InputStays
<1> HIDE DEF Placed, Makeable, Meant, Bindable
<1> QED BY <1>1, <1>2 DEF LinesDone

LEMMA ParseKeeps ==
  ASSUME MacroInv, ParseInput \/ ReadSpec
  PROVE  MacroInv'
<1>1. input' = input /\ UNCHANGED <<line, taken, mapped, methods>> /\ line = 1 /\ methods = <<>>
      /\ phase \in {"parse", "spec"}
  BY DEF ParseInput, ReadSpec, Fail, MacroInv
<1>2. ASSUME LinesDone, faults' = {} => faults = {} PROVE LinesDone'
  <2>1. PICK n : n = line
    OBVIOUS
  <2>2. \A k \in 1..(n - 1) : FALSE
    BY <1>1, <2>1
  <2> QED BY <1>1, <1>2, <2>1, <2>2, InputStays DEF LinesDone
<1>3. CASE Fail
  <2>1. phase' = "error" /\ 0 \in faults'
    BY <1>3 DEF Fail
  <2>2. ~Sound
    <3>1. CASE ParseInput
      <4>1. ~\A k \in DOMAIN input.lines : Readable(input.lines[k])
        BY <1>3, <3>1 DEF ParseInput, Fail
      <4> QED BY <4>1 DEF Sound
    <3>2. CASE ReadSpec
      <4>1. input.file # "good"
        BY <1>3, <3>2 DEF ReadSpec, Fail
      <4> QED BY <4>1 DEF Sound
    <3> QED BY <3>1, <3>2
  <2> QED BY <1>1, <1>2, <2>1, <2>2, InputStays DEF MacroInv
<1>4. CASE ParseInput /\ ~Fail
  <2>1. phase' = "spec" /\ faults' = faults /\ \A k \in DOMAIN input.lines : Readable(input.lines[k])
    BY <1>4 DEF ParseInput
  <2> QED BY <1>1, <1>2, <2>1, InputStays DEF MacroInv
<1>5. CASE ReadSpec /\ ~Fail
  <2>1. /\ phase = "spec" /\ phase' = "map" /\ input.file = "good"
        /\ faults' = {0 : k \in {1} \ DOMAIN input.lines}
    BY <1>5 DEF ReadSpec
  <2>2. faults' = {} <=> input.lines # <<>>
    BY <2>1, LinesAre DEF MacroInv
  <2>3. faults = {}
    BY <2>1 DEF MacroInv
  <2>4. input.lines = <<>> => ~Sound
    BY DEF Sound
  <2> QED BY <1>1, <1>2, <2>1, <2>2, <2>3, <2>4, InputStays DEF MacroInv
<1> QED BY <1>3, <1>4, <1>5

LEMMA EmitKeeps ==
  ASSUME MacroInv, Emit
  PROVE  MacroInv'
<1>1. /\ phase = "map" /\ line > Len(input.lines) /\ phase' = IF faults = {} THEN "client" ELSE "error"
      /\ UNCHANGED <<input, line, taken, mapped, methods, faults>>
  BY DEF Emit
<1>2. LinesDone'
  BY <1>1, LinesStayDone DEF MacroInv
<1>3. line = Len(input.lines) + 1
  BY <1>1, LinesAre DEF MacroInv, LinesDone
<1> QED BY <1>1, <1>2, <1>3, InputStays DEF MacroInv

LEMMA MacroStays ==
  ASSUME MacroInv, MacroNext \/ UNCHANGED macroVars
  PROVE  MacroInv'
<1>1. CASE DuplicateName
  <2>1. ~Sound
    BY <1>1, FaultTells DEF DuplicateName
  <2> QED BY <1>1, <2>1, FaultKeeps DEF DuplicateName
<1>2. CASE NoEndpoint
  <2>1. ~Sound
    BY <1>2, FaultTells DEF NoEndpoint
  <2> QED BY <1>2, <2>1, FaultKeeps DEF NoEndpoint
<1>3. CASE MappedTwice
  <2>1. ~Sound
    BY <1>3, FaultTells DEF MappedTwice
  <2> QED BY <1>3, <2>1, FaultKeeps DEF MappedTwice
<1>4. CASE UNCHANGED macroVars
  <2>1. UNCHANGED <<input, phase, line, taken, mapped, methods, faults>>
    BY <1>4 DEF macroVars
  <2>2. LinesDone'
    BY <2>1, LinesStayDone DEF MacroInv
  <2> QED BY <2>1, <2>2, InputStays DEF MacroInv
<1> QED BY <1>1, <1>2, <1>3, <1>4, ParseKeeps, GenerateKeeps, EmitKeeps DEF MacroNext

\* Fields that do not collide have as many names as there are fields.
LEMMA NamesAtMost ==
  ASSUME NEW S, NEW fields \in Seq(S)
  PROVE  ~Collide(fields) => Cardinality(RustNames(fields)) = Len(fields)
<1> DEFINE n == Len(fields)
           T == RustNames(fields)
           f == [k \in 1..n |-> fields[k].rust]
<1>1. n \in Nat /\ DOMAIN fields = 1..n
  OBVIOUS
<1>2. f \in Surjection(1..n, T)
  BY <1>1 DEF Surjection, RustNames
<1>3. IsFiniteSet(1..n) /\ Cardinality(1..n) = n
  BY <1>1, FS_Interval
<1> HIDE DEF f, T, n
<1>4. IsFiniteSet(T) /\ Cardinality(T) <= Cardinality(1..n)
  BY <1>2, <1>3, FS_Surjection
<1>5. Cardinality(T) \in Nat
  BY <1>4, FS_CardinalityType
<1> QED BY <1>1, <1>3, <1>4, <1>5 DEF Collide, T, n

\* The fields of an endpoint are lists.
LEMMA FieldsAre ==
  ASSUME input \in Inputs, NEW e \in DOMAIN input.endpoints
  PROVE  \E S : /\ RequestFields(input.endpoints[e]) \in Seq(S)
                /\ BodyFields(input.endpoints[e]) \in Seq(S)
<1> DEFINE ep == input.endpoints[e]
           Listing(scope, source) == [k \in DOMAIN scope |-> Field(scope[k], source)]
           All(scope, source) == {Field(scope[k], source) : k \in DOMAIN scope}
           S == All(ep.path, "path") \cup All(ep.query, "query") \cup All(ep.headers, "header")
                  \cup All(ep.body.fields, "body")
<1>1. Listed(ep.path) /\ Listed(ep.query) /\ Listed(ep.headers)
  BY CallAssumption, ConfigAssumption DEF NamedOnce
<1>2. HasFields(ep) => Listed(ep.body.fields)
  BY CallAssumption
<1>3. ASSUME NEW scope, NEW source, Listed(scope), NEW T, All(scope, source) \subseteq T
      PROVE  Listing(scope, source) \in Seq(T)
  <2>1. PICK n \in Nat : DOMAIN scope = 1..n
    BY <1>3 DEF Listed
  <2> DEFINE g(k) == Field(scope[k], source)
  <2>2. \A k \in 1..n : g(k) \in T
    BY <1>3, <2>1
  <2> HIDE DEF g
  <2>3. [k \in 1..n |-> g(k)] \in Seq(T)
    BY <2>2
  <2> QED BY <2>1, <2>3 DEF g
<1>4. /\ All(ep.path, "path") \subseteq S /\ All(ep.query, "query") \subseteq S
      /\ All(ep.headers, "header") \subseteq S /\ All(ep.body.fields, "body") \subseteq S
  OBVIOUS
<1> HIDE DEF All, S
<1>5. /\ Listing(ep.path, "path") \in Seq(S) /\ Listing(ep.query, "query") \in Seq(S)
      /\ Listing(ep.headers, "header") \in Seq(S)
      /\ HasFields(ep) => Listing(ep.body.fields, "body") \in Seq(S)
  BY <1>1, <1>2, <1>3, <1>4
<1>6. RequestFields(ep) = Listing(ep.path, "path") \o Listing(ep.query, "query") \o Listing(ep.headers, "header")
  BY DEF RequestFields
<1>7. BodyFields(ep) = IF HasFields(ep) THEN Listing(ep.body.fields, "body") ELSE <<>>
  BY DEF BodyFields
<1> HIDE DEF Listing, ep
<1>8. RequestFields(ep) \in Seq(S)
  BY <1>5, <1>6
<1>9. BodyFields(ep) \in Seq(S)
  <2>1. <<>> \in Seq(S)
    OBVIOUS
  <2> QED BY <1>5, <1>7, <2>1
<1> QED BY <1>8, <1>9 DEF ep

\* The macro yields a client exactly for an invocation that is sound as a whole, and then
\* each line has its own endpoint and each input its own field (lib.rs:144-228 of the
\* macros): what is found line by line is wrong with the invocation, and nothing else is.
THEOREM ClientAlwaysIffSound == CallSpec => []ClientIffSound
<1>1. CallInit => MacroInv
  <2> SUFFICES ASSUME CallInit PROVE MacroInv
    OBVIOUS
  <2>1. /\ input \in Inputs /\ phase = "parse" /\ line = 1 /\ taken = {} /\ mapped = {}
        /\ methods = <<>> /\ faults = {}
    BY DEF CallInit, MacroInit
  <2>2. Len(input.lines) \in Nat /\ 1 \in Nat \ {0} /\ 1 - 1 = 0 /\ 1..0 = {}
    BY <2>1, LinesAre
  <2>3. <<>> \in Seq(Makeable) /\ Len(<<>>) = 0
    OBVIOUS
  <2>4. LinesDone
    BY <2>1, <2>2, <2>3 DEF LinesDone
  <2> QED BY <2>1, <2>4 DEF MacroInv
<1>2. ASSUME MacroInv, [CallNext]_callVars PROVE MacroInv'
  <2>1. MacroNext \/ UNCHANGED macroVars
    BY <1>2 DEF CallNext, callVars, macroVars
  <2> QED BY <1>2, <2>1, MacroStays
<1>3. ASSUME MacroInv PROVE ClientIffSound
  <2>1. phase = "error" => ~Sound
    BY <1>3 DEF MacroInv
  <2>2. SUFFICES ASSUME phase = "client" PROVE ClientIffSound
    BY <2>1 DEF ClientIffSound
  <2>3. PICK n : n = Len(input.lines)
    OBVIOUS
  <2>4. n \in Nat /\ DOMAIN input.lines = 1..n /\ line = n + 1 /\ (n + 1) - 1 = n
    BY <1>3, <2>2, <2>3, LinesAre DEF MacroInv
  <2>5. /\ methods \in Seq(Makeable) /\ Len(methods) = n /\ \A k \in 1..n : Placed(k)
        /\ input.file = "good" /\ input.lines # <<>>
        /\ \A k \in 1..n : Readable(input.lines[k])
    BY <1>3, <2>2, <2>4 DEF MacroInv, LinesDone
  <2>6. DOMAIN methods = 1..n
    BY <2>5
  <2>7. ASSUME NEW j \in 1..n, NEW k \in 1..n, j # k
        PROVE  Meant(j).fn # Meant(k).fn /\ Bindable(j) \cap Bindable(k) = {}
    <3>1. ASSUME NEW a \in 1..n, NEW b \in 1..n, a < b
          PROVE  Meant(a).fn # Meant(b).fn /\ Bindable(a) \cap Bindable(b) = {}
      <4>1. a \in 1..(b - 1)
        BY <2>4, <3>1
      <4>2. Placed(b)
        BY <2>5
      <4> QED BY <4>1, <4>2 DEF Placed
    <3>2. j < k \/ k < j
      BY <2>4, <2>7
    <3>3. CASE j < k
      BY <3>1, <3>3
    <3>4. CASE k < j
      <4>1. Meant(k).fn # Meant(j).fn /\ Bindable(k) \cap Bindable(j) = {}
        BY <3>1, <3>4
      <4> QED BY <4>1
    <3> QED BY <3>2, <3>3, <3>4
  <2>8. ASSUME NEW k \in 1..n
        PROVE  /\ Meant(k).method \in Methods /\ Cardinality(Bindable(k)) = 1
               /\ \A e \in Bindable(k) : ~Ungenerable(input.endpoints[e], Meant(k).output)
    <3>1. PICK e : Meant(k).method \in Methods /\ Bindable(k) = {e}
                     /\ ~Ungenerable(input.endpoints[e], Meant(k).output)
      BY <2>5 DEF Placed
    <3>2. Cardinality(Bindable(k)) = 1
      BY <3>1, FS_Singleton
    <3> QED BY <3>1, <3>2
  <2>9. Sound
    BY <2>4, <2>5, <2>7, <2>8 DEF Sound, Meant, Bindable
  <2>10. ASSUME NEW k \in 1..n
         PROVE  LET ep == input.endpoints[methods[k].endpoint] IN
                /\ Bindable(k) = {methods[k].endpoint} /\ methods[k].fn = Meant(k).fn
                /\ methods[k].decode = "stream" <=> ep.stream
                /\ Cardinality(RustNames(methods[k].fields)) = Len(methods[k].fields)
                /\ Cardinality(RustNames(methods[k].body)) = Len(methods[k].body)
    <3>1. PICK e \in DOMAIN input.endpoints :
            /\ Bindable(k) = {e} /\ ~Ungenerable(input.endpoints[e], Meant(k).output)
            /\ methods[k] = Generated(Meant(k), e)
      BY <2>5 DEF Placed
    <3>2. /\ methods[k].fn = Meant(k).fn /\ methods[k].endpoint = e
          /\ methods[k].decode = OutputKind(Meant(k).output)
          /\ methods[k].fields = RequestFields(input.endpoints[e])
          /\ methods[k].body = BodyFields(input.endpoints[e])
      BY <3>1 DEF Generated
    <3>3. /\ input.endpoints[e].stream = (OutputKind(Meant(k).output) = "stream")
          /\ ~Collide(RequestFields(input.endpoints[e])) /\ ~Collide(BodyFields(input.endpoints[e]))
      BY <3>1 DEF Ungenerable
    <3>4. PICK S : /\ RequestFields(input.endpoints[e]) \in Seq(S)
                   /\ BodyFields(input.endpoints[e]) \in Seq(S)
      BY <1>3, FieldsAre DEF MacroInv
    <3>5. /\ Cardinality(RustNames(RequestFields(input.endpoints[e]))) = Len(RequestFields(input.endpoints[e]))
          /\ Cardinality(RustNames(BodyFields(input.endpoints[e]))) = Len(BodyFields(input.endpoints[e]))
      BY <3>3, <3>4, NamesAtMost
    <3> QED BY <3>1, <3>2, <3>3, <3>5
  <2>11. \A j, k \in 1..n : j # k => methods[j].endpoint # methods[k].endpoint /\ methods[j].fn # methods[k].fn
    <3>1. \A k \in 1..n : Bindable(k) = {methods[k].endpoint} /\ methods[k].fn = Meant(k).fn
      BY <2>10
    <3>2. \A j, k \in 1..n : j # k => Meant(j).fn # Meant(k).fn /\ Bindable(j) \cap Bindable(k) = {}
      BY <2>7
    <3> QED BY <3>1, <3>2
  <2>12. \A k \in DOMAIN methods : LET ep == input.endpoints[methods[k].endpoint] IN
              /\ Matching(Mapping(input.lines[k])) = {methods[k].endpoint}
              /\ methods[k].decode = "stream" <=> ep.stream
              /\ Cardinality(RustNames(methods[k].fields)) = Len(methods[k].fields)
              /\ Cardinality(RustNames(methods[k].body)) = Len(methods[k].body)
    BY <2>6, <2>10 DEF Meant, Bindable
  <2> QED BY <2>2, <2>3, <2>5, <2>6, <2>9, <2>11, <2>12 DEF ClientIffSound
<1> QED BY <1>1, <1>2, <1>3, PTL DEF CallSpec
----------------------------------------------------------------------------
(* A call reaches its endpoint.  What a route is, and what is written for its
   segments. *)

\* Of one character and others behind it, only the first is trimmed.
LEMMA TrimsOne ==
  ASSUME NEW U, NEW s \in Seq(U), NEW a, Len(s) >= 2, s[1] = a, s[2] # a
  PROVE  TrimStart(s, a) = SubSeq(s, 2, Len(s))
<1> DEFINE L == Len(s)
           K == Kept(s, a)
           n == CHOOSE n \in K \cup {L + 1} : \A k \in K : n =< k
<1>1. L \in Nat /\ DOMAIN s = 1..L
  OBVIOUS
<1> HIDE DEF L
<1>2. K \subseteq 2..L /\ 2 \in K
  <2>1. \A k \in K : k \in 1..L /\ k # 1
    BY <1>1 DEF Kept
  <2>2. 2 \in 1..L
    BY <1>1 DEF L
  <2>3. 2 \in K
    BY <1>1, <2>2 DEF Kept
  <2> HIDE DEF K
  <2> QED BY <1>1, <2>1, <2>3
<1> HIDE DEF K
<1>3. n \in K \cup {L + 1} /\ \A k \in K : n =< k
  <2>1. \E m \in K \cup {L + 1} : \A k \in K : m =< k
    <3>1. \A k \in K : 2 =< k
      BY <1>1, <1>2
    <3> QED BY <1>2, <3>1
  <2> QED BY <2>1
<1> HIDE DEF n
<1>4. n = 2
  BY <1>1, <1>2, <1>3
<1>5. TrimStart(s, a) = SubSeq(s, n, L)
  BY DEF TrimStart, n, K, L
<1> QED BY <1>4, <1>5 DEF L

\* One character is trimmed away.
LEMMA TrimsAll ==
  ASSUME NEW a
  PROVE  TrimStart(<<a>>, a) = <<>>
<1> DEFINE s == <<a>>
           K == Kept(s, a)
           n == CHOOSE n \in K \cup {Len(s) + 1} : \A k \in K : n =< k
<1>1. K = {} /\ Len(s) = 1
  BY DEF Kept
<1>2. n = 2
  BY <1>1
<1>3. TrimStart(s, a) = SubSeq(s, n, Len(s))
  BY DEF TrimStart
<1> HIDE DEF n, K
<1>4. SubSeq(s, 2, 1) = <<>>
  OBVIOUS
<1> QED BY <1>1, <1>2, <1>3, <1>4

\* The route of an endpoint: its prefix, then its segments.
LEMMA PatternIs ==
  ASSUME NEW c \in Configs
  PROVE  /\ Len(c.prefix) \in Nat /\ Len(c.segs) \in Nat /\ DOMAIN c.prefix = 1..Len(c.prefix) /\ DOMAIN c.segs = 1..Len(c.segs)
         /\ DOMAIN Pattern(c) = 1..Len(Pattern(c))
         /\ Len(Pattern(c)) = Len(c.prefix) + (IF c.segs = <<>> THEN 1 ELSE Len(c.segs))
         /\ \A k \in 1..Len(c.prefix) : Pattern(c)[k] = Literal(c.prefix[k])
         /\ c.segs = <<>> => Pattern(c)[Len(c.prefix) + 1] = Literal(<<>>)
         /\ c.segs # <<>> => \A k \in 1..Len(c.segs) : Pattern(c)[Len(c.prefix) + k] = c.segs[k]
<1> DEFINE n == Len(c.prefix)
           m == Len(c.segs)
           a == [k \in DOMAIN c.prefix |-> Literal(c.prefix[k])]
           b == IF c.segs = <<>> THEN <<Literal(<<>>)>> ELSE c.segs
           U == {Literal(c.prefix[k]) : k \in DOMAIN c.prefix} \cup ToSet(c.segs) \cup {Literal(<<>>)}
<1>1. c.prefix \in Seq(ToSet(c.prefix)) /\ c.segs \in Seq(ToSet(c.segs))
  BY RouteAssumption
<1>2. n \in Nat /\ m \in Nat /\ DOMAIN c.prefix = 1..n /\ DOMAIN c.segs = 1..m
  BY <1>1, LenProperties
<1>3. a \in Seq(U) /\ Len(a) = n /\ \A k \in 1..n : a[k] = Literal(c.prefix[k])
  <2>1. a = [k \in 1..n |-> a[k]] /\ (\A k \in 1..n : a[k] \in U) /\ \A k \in 1..n : a[k] = Literal(c.prefix[k])
    BY <1>2
  <2> HIDE DEF U, n
  <2>2. a \in Seq(U)
    <3> HIDE DEF a
    <3> QED BY <1>2, <2>1, SequenceOf
  <2>3. DOMAIN a = 1..n
    BY <1>2
  <2> HIDE DEF a
  <2>4. Len(a) = n
    BY <1>2, <2>2, <2>3
  <2> QED BY <2>1, <2>2, <2>4
<1>4. b \in Seq(U) /\ Len(b) = (IF c.segs = <<>> THEN 1 ELSE m)
  <2>1. CASE c.segs = <<>>
    <3>1. Literal(<<>>) \in U
      OBVIOUS
    <3> HIDE DEF U
    <3>2. <<Literal(<<>>)>> \in Seq(U) /\ Len(<<Literal(<<>>)>>) = 1
      BY <3>1
    <3> QED BY <2>1, <3>2
  <2>2. CASE c.segs # <<>>
    <3>1. c.segs \in Seq(U)
      BY <1>1, SeqMonotonic
    <3> QED BY <2>2, <3>1
  <2> QED BY <2>1, <2>2
<1>5. Pattern(c) = a \o b
  BY DEF Pattern
<1>6. c.segs = <<>> => b[1] = Literal(<<>>)
  OBVIOUS
<1>7. c.segs # <<>> => b = c.segs
  OBVIOUS
<1> HIDE DEF a, b, U
<1>8. Pattern(c) \in Seq(U) /\ Joins(a, b, Pattern(c))
  BY <1>3, <1>4, <1>5, ConcatIs
<1>9. DOMAIN Pattern(c) = 1..Len(Pattern(c))
  BY <1>8, LenProperties
<1>10. Len(Pattern(c)) = n + (IF c.segs = <<>> THEN 1 ELSE m)
  BY <1>3, <1>4, <1>8, Zenon DEF Joins
<1>11. \A k \in 1..n : Pattern(c)[k] = Literal(c.prefix[k])
  BY <1>3, <1>8, Zenon DEF Joins
<1>12. c.segs = <<>> => Pattern(c)[n + 1] = Literal(<<>>)
  <2> SUFFICES ASSUME c.segs = <<>> PROVE Pattern(c)[n + 1] = Literal(<<>>)
    OBVIOUS
  <2>1. 1 \in 1..Len(b)
    BY <1>4
  <2> QED BY <1>3, <1>6, <1>8, <2>1, Zenon DEF Joins
<1>13. c.segs # <<>> => \A k \in 1..m : Pattern(c)[n + k] = c.segs[k]
  <2> SUFFICES ASSUME c.segs # <<>>, NEW k \in 1..m PROVE Pattern(c)[n + k] = c.segs[k]
    OBVIOUS
  <2>1. k \in 1..Len(b)
    BY <1>4
  <2> QED BY <1>3, <1>7, <1>8, <2>1, Zenon DEF Joins
<1> QED BY <1>2, <1>9, <1>10, <1>11, <1>12, <1>13, Zenon DEF n, m

\* What a segment of a route may be.
LEMMA RouteIs ==
  ASSUME NEW c \in Configs, NEW k \in 1..Len(Pattern(c))
  PROVE  /\ Pattern(c)[k].param \in BOOLEAN
         /\ Pattern(c)[k].param => \E j \in DOMAIN c.path : c.path[j].name = Pattern(c)[k].name
         /\ ~Pattern(c)[k].param => PlainLiteral(Pattern(c)[k].name)
                                    \/ (Pattern(c)[k].name = <<>> /\ c.segs = <<>> /\ k = Len(Pattern(c)))
<1> DEFINE n == Len(c.prefix)
           m == Len(c.segs)
           s == Pattern(c)[k]
<1>1. n \in Nat /\ m \in Nat /\ DOMAIN c.prefix = 1..n /\ DOMAIN c.segs = 1..m
      /\ Len(Pattern(c)) = n + (IF c.segs = <<>> THEN 1 ELSE m)
  BY PatternIs
<1>2. CASE k \in 1..n
  <2>1. s = Literal(c.prefix[k])
    BY <1>2, PatternIs
  <2>2. PlainLiteral(c.prefix[k])
    BY <1>1, <1>2, RouteAssumption
  <2>3. s.param = FALSE /\ s.name = c.prefix[k]
    BY <2>1 DEF Literal
  <2> HIDE DEF s
  <2>4. s.param \in BOOLEAN /\ ~s.param /\ PlainLiteral(s.name)
    BY <2>2, <2>3
  <2> QED BY <2>4 DEF s
<1>3. CASE c.segs = <<>> /\ k = n + 1
  <2>1. s = Literal(<<>>)
    BY <1>3, PatternIs
  <2>2. s.param = FALSE /\ s.name = <<>>
    BY <2>1 DEF Literal
  <2>3. k = Len(Pattern(c))
    BY <1>1, <1>3
  <2> HIDE DEF s
  <2>4. s.param \in BOOLEAN /\ ~s.param /\ s.name = <<>>
    BY <2>2
  <2> QED BY <1>3, <2>3, <2>4 DEF s
<1>4. CASE c.segs # <<>> /\ k \in (n + 1)..(n + m)
  <2> DEFINE j == k - n
  <2>1. j \in 1..m /\ n + j = k
    <3> HIDE DEF n, m
    <3> QED BY <1>1, <1>4
  <2> HIDE DEF j
  <2>2. s = c.segs[j]
    BY <1>4, <2>1, PatternIs
  <2>3. s.param \in BOOLEAN /\ (s.param \/ PlainLiteral(s.name))
    BY <1>1, <2>1, <2>2, RouteAssumption
  <2>4. s.param => s.name \in {c.segs[i].name : i \in {h \in DOMAIN c.segs : c.segs[h].param}}
    BY <1>1, <2>1, <2>2
  <2>5. s.param => s.name \in {c.path[i].name : i \in DOMAIN c.path}
    BY <2>4, RouteAssumption
  <2> HIDE DEF s
  <2>6. s.param => \E i \in DOMAIN c.path : c.path[i].name = s.name
    BY <2>5
  <2> QED BY <2>3, <2>6 DEF s
<1>5. k \in 1..n \/ (c.segs = <<>> /\ k = n + 1) \/ (c.segs # <<>> /\ k \in (n + 1)..(n + m))
  <2>1. PICK L : L = Len(Pattern(c)) /\ L = n + (IF c.segs = <<>> THEN 1 ELSE m) /\ k \in 1..L
    BY <1>1
  <2> HIDE DEF n, m
  <2> QED BY <1>1, <2>1
<1> QED BY <1>2, <1>3, <1>4, <1>5

\* The characters of a text, each as it is or encoded.
Spells(v, e, w) == w = [k \in DOMAIN v |-> [ch |-> v[k], esc |-> e[k]]]

LEMMA SpellingIs ==
  ASSUME NEW v, Text(v), NEW e, NEW w, Spells(v, e, w)
  PROVE  /\ Text(w) /\ Len(w) = Len(v) /\ Len(v) \in Nat /\ DOMAIN v = 1..Len(v) /\ Decoded(w) = v
         /\ \A k \in 1..Len(v) : w[k] = [ch |-> v[k], esc |-> e[k]]
<1> DEFINE L == Len(v)
<1>1. v \in Seq(ToSet(v))
  BY DEF Text
<1>2. L \in Nat /\ DOMAIN v = 1..L /\ v = [k \in 1..L |-> v[k]]
  BY <1>1
<1>3. w = [k \in 1..L |-> [ch |-> v[k], esc |-> e[k]]]
  BY <1>2 DEF Spells
<1> HIDE DEF L
<1>4. DOMAIN w = 1..L /\ w = [k \in 1..L |-> w[k]] /\ \A k \in 1..L : w[k] = [ch |-> v[k], esc |-> e[k]]
  BY <1>3
<1>5. \A k \in 1..L : w[k] \in ToSet(w)
  BY <1>4 DEF ToSet
<1>6. w \in Seq(ToSet(w))
  BY <1>2, <1>4, <1>5, SequenceOf
<1>7. Len(w) = L
  BY <1>2, <1>4, <1>6
<1>8. Decoded(w) = v
  <2>1. Decoded(w) = [k \in 1..L |-> w[k].ch]
    BY <1>4 DEF Decoded
  <2>2. \A k \in 1..L : w[k].ch = v[k]
    BY <1>4
  <2> QED BY <1>2, <2>1, <2>2
<1> QED BY <1>2, <1>4, <1>6, <1>7, <1>8 DEF Text, L

\* Names the provers need not look into, and what the client writes for a segment.
Slash == "/"
Back == "\\"
Dot == "."
UrlPiece(s) == IF s.param THEN EncodePathSegment(CHOOSE v \in Arg(s) : TRUE) ELSE RawText(s.name)

\* What a call is given for its path: a text for each parameter.
Addressed ==
  /\ config \in Configs
  /\ \A k \in DOMAIN config.path : \E v : Text(v) /\ Plain(v) /\ Arg(config.path[k]) = {v}

\* A text that spells no dot segment is none.
LEMMA NoDots ==
  ASSUME NEW v, Text(v), Plain(v) \/ v = <<>>, NEW e, NEW w, Spells(v, e, w)
  PROVE  ~Dots(w)
<1>1. Decoded(w) = v
  BY SpellingIs
<1>2. ASSUME w = <<Raw(Dot)>> PROVE FALSE
  <2>1. Decoded(w) = <<Dot>>
    BY <1>2 DEF Decoded, Raw
  <2>2. v = <<Dot>> /\ <<Dot>> # <<>>
    BY <1>1, <2>1
  <2> QED BY <2>2, Zenon DEF Plain, Dot
<1>3. ASSUME w = <<Raw(Dot), Raw(Dot)>> PROVE FALSE
  <2>1. Decoded(w) = <<Dot, Dot>>
    BY <1>3 DEF Decoded, Raw
  <2>2. v = <<Dot, Dot>> /\ <<Dot, Dot>> # <<>>
    BY <1>1, <2>1
  <2> QED BY <2>2, Zenon DEF Plain, Dot
<1> QED BY <1>2, <1>3, Zenon DEF Dots, Dot

\* Nor does a plain text, its slashes encoded, hold a separator.
LEMMA NoCuts ==
  ASSUME NEW v, Text(v), NEW e, NEW w, Spells(v, e, w), Back \notin ToSet(v),
         \A k \in DOMAIN v : v[k] = Slash => e[k] = TRUE
  PROVE  \A k \in 1..Len(w) : w[k] # Raw(Slash) /\ w[k] # Raw(Back)
<1>1. Len(w) = Len(v) /\ DOMAIN v = 1..Len(v) /\ \A k \in 1..Len(v) : w[k] = [ch |-> v[k], esc |-> e[k]]
  BY SpellingIs
<1> SUFFICES ASSUME NEW k \in 1..Len(v) PROVE w[k] # Raw(Slash) /\ w[k] # Raw(Back)
  BY <1>1
<1>2. w[k].ch = v[k] /\ w[k].esc = e[k]
  <2>1. w[k] = [ch |-> v[k], esc |-> e[k]]
    BY <1>1
  <2> QED BY <2>1
<1>3. v[k] \in ToSet(v) /\ k \in DOMAIN v
  BY <1>1 DEF ToSet
<1>4. \A c : Raw(c).ch = c /\ Raw(c).esc = FALSE
  BY DEF Raw
<1>5. w[k] # Raw(Back)
  BY <1>2, <1>3, <1>4, Zenon
<1>6. w[k] # Raw(Slash)
  <2> SUFFICES ASSUME w[k] = Raw(Slash) PROVE FALSE
    OBVIOUS
  <2>1. v[k] = Slash /\ e[k] = FALSE
    BY <1>2, <1>4, Zenon
  <2>2. e[k] = TRUE
    BY <1>3, <2>1
  <2> QED BY <2>1, <2>2
<1> QED BY <1>5, <1>6

\* What is written for a segment of the route.
LEMMA UrlPieceIs ==
  ASSUME Addressed, NEW k \in 1..Len(Pattern(config))
  PROVE  LET s == Pattern(config)[k]
             w == UrlPiece(s)
         IN /\ s.param \in BOOLEAN /\ Text(w) /\ ~Dots(w)
            /\ \A i \in 1..Len(w) : w[i] # Raw(Slash) /\ w[i] # Raw(Back)
            /\ s.param => w # <<>> /\ Arg(s) = {Decoded(w)}
            /\ ~s.param => w = RawText(s.name) /\ Decoded(w) = s.name
            /\ w = <<>> => ~s.param /\ config.segs = <<>> /\ k = Len(Pattern(config))
<1> DEFINE s == Pattern(config)[k]
           w == UrlPiece(s)
<1>1. /\ s.param \in BOOLEAN
      /\ s.param => \E j \in DOMAIN config.path : config.path[j].name = s.name
      /\ ~s.param => PlainLiteral(s.name) \/ (s.name = <<>> /\ config.segs = <<>> /\ k = Len(Pattern(config)))
  BY RouteIs DEF Addressed
<1> HIDE DEF s
<1>2. CASE s.param
  <2>1. PICK j \in DOMAIN config.path : config.path[j].name = s.name
    BY <1>1, <1>2
  <2>2. PICK v : Text(v) /\ Plain(v) /\ Arg(config.path[j]) = {v}
    BY DEF Addressed
  <2>3. Arg(s) = {v}
    BY <2>1, <2>2 DEF Arg
  <2>4. w = EncodePathSegment(v)
    BY <1>2, <2>3 DEF UrlPiece
  <2> HIDE DEF w
  <2> DEFINE e == [i \in DOMAIN v |-> v[i] \in PathEscaped]
  <2>5. Spells(v, e, w)
    BY <2>4 DEF EncodePathSegment, Spells
  <2>6. \A i \in DOMAIN v : v[i] = Slash => e[i] = TRUE
    BY RouteAssumption DEF Slash
  <2> HIDE DEF e
  <2>7. Back \notin ToSet(v) /\ v # <<>>
    BY <2>2, Zenon DEF Plain, Back
  <2>8. Text(w) /\ Len(w) = Len(v) /\ Decoded(w) = v
    BY <2>2, <2>5, SpellingIs
  <2>9. ~Dots(w) /\ \A i \in 1..Len(w) : w[i] # Raw(Slash) /\ w[i] # Raw(Back)
    BY <2>2, <2>5, <2>6, <2>7, NoDots, NoCuts
  <2>10. w # <<>>
    <3>1. v \in Seq(ToSet(v)) /\ w \in Seq(ToSet(w))
      BY <2>2, <2>8 DEF Text
    <3>2. Len(v) # 0
      BY <2>7, <3>1
    <3> QED BY <2>8, <3>2
  <2> QED BY <1>1, <1>2, <2>3, <2>8, <2>9, <2>10 DEF s, w
<1>3. CASE ~s.param
  <2> DEFINE v == s.name
             e == [i \in DOMAIN v |-> FALSE]
  <2>1. w = RawText(v)
    BY <1>3 DEF UrlPiece
  <2> HIDE DEF w
  <2>2. Spells(v, e, w)
    BY <2>1 DEF RawText, Raw, Spells
  <2>3. Text(v) /\ (Plain(v) \/ v = <<>>) /\ Slash \notin ToSet(v) /\ Back \notin ToSet(v)
    <3>1. CASE PlainLiteral(v)
      BY <3>1, Zenon DEF PlainLiteral, Plain, Slash, Back
    <3>2. CASE v = <<>>
      <4>1. ToSet(v) = {} /\ v \in Seq(ToSet(v))
        BY <3>2 DEF ToSet
      <4> QED BY <3>2, <4>1 DEF Text
    <3> QED BY <1>1, <1>3, <3>1, <3>2
  <2>4. \A i \in DOMAIN v : v[i] = Slash => e[i] = TRUE
    BY <2>3 DEF ToSet
  <2>5. v = <<>> \/ PlainLiteral(v)
    BY <1>1, <1>3
  <2>6. (config.segs = <<>> /\ k = Len(Pattern(config))) \/ PlainLiteral(v)
    BY <1>1, <1>3
  <2> HIDE DEF e, v
  <2>7. Text(w) /\ Len(w) = Len(v) /\ Decoded(w) = v
    BY <2>2, <2>3, SpellingIs
  <2>8. ~Dots(w) /\ \A i \in 1..Len(w) : w[i] # Raw(Slash) /\ w[i] # Raw(Back)
    BY <2>2, <2>3, <2>4, NoDots, NoCuts
  <2>9. w = <<>> => ~PlainLiteral(v)
    <3>1. v \in Seq(ToSet(v)) /\ w \in Seq(ToSet(w))
      BY <2>3, <2>7 DEF Text
    <3>2. w = <<>> => Len(v) = 0
      BY <2>7
    <3>3. w = <<>> => v = <<>>
      BY <3>1, <3>2
    <3> QED BY <3>3, Zenon DEF PlainLiteral, Plain
  <2> QED BY <1>1, <1>3, <2>1, <2>6, <2>7, <2>8, <2>9 DEF s, w, v
<1> QED BY <1>1, <1>2, <1>3
----------------------------------------------------------------------------
(* The URL: build_path and endpoint_url write the segments one behind the other. *)

\* The URL's segments, what is written for them, and the characters that are.
UrlPieces == [k \in 1..Len(Pattern(config)) |-> UrlPiece(Pattern(config)[k])]
UrlParts == [k \in 1..Len(Pattern(config)) |-> <<Raw(Slash)>> \o UrlPiece(Pattern(config)[k])]
Host == "http://host"
UrlChars ==
  (UNION {ToSet(UrlPiece(Pattern(config)[k])) : k \in 1..Len(Pattern(config))}) \cup {Raw(Slash), Raw(Host)}

\* A slash as it is written.
LEMMA SlashIs ==
  RawText(<<Slash>>) = <<Raw(Slash)>> /\ RawText(<<>>) = <<>>
<1>1. RawText(<<Slash>>) = <<Raw(Slash)>>
  BY DEF RawText
<1>2. RawText(<<>>) = <<>>
  BY DEF RawText
<1> QED BY <1>1, <1>2

\* Each segment is a slash and its text.
LEMMA PartsTyped ==
  ASSUME Addressed
  PROVE  LET n == Len(Pattern(config)) IN
         /\ n \in Nat /\ n >= 1
         /\ \A k \in 1..n : UrlPieces[k] \in Seq(UrlChars) /\ UrlPieces[k] = UrlPiece(Pattern(config)[k])
         /\ \A k \in 1..n : UrlParts[k] \in Seq(UrlChars) /\ UrlParts[k] = <<Raw(Slash)>> \o UrlPieces[k]
         /\ \A k \in 1..n : Joins(<<Raw(Slash)>>, UrlPieces[k], UrlParts[k])
         /\ UrlParts \in Seq(Seq(UrlChars)) /\ Len(UrlParts) = n
         /\ UrlPieces \in Seq(Seq(UrlChars)) /\ Len(UrlPieces) = n
<1> DEFINE n == Len(Pattern(config))
           V == Seq(UrlChars)
<1>1. n \in Nat /\ n >= 1
  <2>1. /\ Len(config.prefix) \in Nat /\ Len(config.segs) \in Nat
        /\ n = Len(config.prefix) + (IF config.segs = <<>> THEN 1 ELSE Len(config.segs))
    BY PatternIs DEF Addressed
  <2>2. config.segs # <<>> => Len(config.segs) # 0
    <3>1. config.segs \in Seq(ToSet(config.segs))
      BY RouteAssumption DEF Addressed
    <3> QED BY <3>1
  <2> DEFINE a == Len(config.prefix)
             b == Len(config.segs)
  <2> HIDE DEF n, a, b
  <2>3. a \in Nat /\ b \in Nat /\ n = a + (IF config.segs = <<>> THEN 1 ELSE b) /\ (config.segs # <<>> => b # 0)
    BY <2>1, <2>2 DEF a, b
  <2> QED BY <2>3
<1>2. ASSUME NEW k \in 1..n PROVE UrlPiece(Pattern(config)[k]) \in V
  <2> DEFINE w == UrlPiece(Pattern(config)[k])
  <2>1. w \in Seq(ToSet(w))
    BY <1>2, UrlPieceIs DEF Text
  <2>2. ToSet(w) \subseteq UrlChars
    <3> DEFINE F == {ToSet(UrlPiece(Pattern(config)[i])) : i \in 1..n}
    <3>1. ToSet(w) \in F
      BY <1>2, Zenon
    <3>2. UrlChars = (UNION F) \cup {Raw(Slash), Raw(Host)}
      BY Zenon DEF UrlChars
    <3> HIDE DEF F, w
    <3> QED BY <3>1, <3>2
  <2> HIDE DEF w
  <2>3. w \in V
    BY <2>1, <2>2, SeqMonotonic
  <2> QED BY <2>3 DEF w
<1>3. <<Raw(Slash)>> \in V
  <2>1. Raw(Slash) \in UrlChars
    BY DEF UrlChars
  <2> QED BY <2>1
<1>4. \A k \in 1..n : UrlPieces[k] = UrlPiece(Pattern(config)[k])
  BY DEF UrlPieces
<1>5. \A k \in 1..n : UrlParts[k] = <<Raw(Slash)>> \o UrlPieces[k]
  BY <1>4 DEF UrlParts
<1>6. \A k \in 1..n : UrlParts[k] \in V /\ Joins(<<Raw(Slash)>>, UrlPieces[k], UrlParts[k])
  BY <1>2, <1>3, <1>4, <1>5, ConcatIs
<1>7. UrlParts = [k \in 1..n |-> UrlParts[k]] /\ UrlPieces = [k \in 1..n |-> UrlPieces[k]]
  BY DEF UrlParts, UrlPieces
<1> HIDE DEF V, n
<1>8. UrlParts \in Seq(V) /\ UrlPieces \in Seq(V)
  BY <1>1, <1>2, <1>4, <1>6, <1>7, SequenceOf
<1>9. Len(UrlParts) = n /\ Len(UrlPieces) = n
  BY <1>1, <1>7, <1>8
<1> QED BY <1>1, <1>2, <1>4, <1>5, <1>6, <1>8, <1>9 DEF V, n

\* build_path puts them one behind the other.
LEMMA BuildPathIs ==
  ASSUME Addressed
  PROVE  BuildPath = FlattenSeq(UrlParts)
<1> DEFINE p == Len(config.prefix)
           m == Len(config.segs)
           n == Len(Pattern(config))
           V == Seq(UrlChars)
           A == [k \in DOMAIN config.prefix |-> <<Raw("/")>> \o RawText(config.prefix[k])]
           B == IF config.segs = <<>> THEN <<<<Raw("/")>>>>
                ELSE [k \in DOMAIN config.segs |-> SentSegment(config.segs[k])]
           q == IF config.segs = <<>> THEN 1 ELSE m
<1>1. /\ p \in Nat /\ m \in Nat /\ DOMAIN config.prefix = 1..p /\ DOMAIN config.segs = 1..m /\ n = p + q
      /\ \A k \in 1..p : Pattern(config)[k] = Literal(config.prefix[k])
      /\ config.segs = <<>> => Pattern(config)[p + 1] = Literal(<<>>)
      /\ config.segs # <<>> => \A k \in 1..m : Pattern(config)[p + k] = config.segs[k]
  BY PatternIs DEF Addressed
<1>2. BuildPath = FlattenSeq(A \o B)
  BY DEF BuildPath
<1>3. /\ n \in Nat /\ UrlParts \in Seq(V) /\ Len(UrlParts) = n
      /\ \A k \in 1..n : UrlParts[k] \in V /\ UrlParts[k] = <<Raw(Slash)>> \o UrlPiece(Pattern(config)[k])
  BY PartsTyped
<1>4. q \in Nat /\ (config.segs # <<>> => q = m) /\ (config.segs = <<>> => q = 1)
  BY <1>1
<1>5. (1..p) \subseteq 1..n /\ \A k \in 1..q : p + k \in 1..n
  <2> HIDE DEF p, q, n
  <2> QED BY <1>1, <1>4
<1>6. ASSUME NEW k \in 1..p PROVE A[k] = UrlParts[k]
  <2>1. UrlPiece(Pattern(config)[k]) = RawText(config.prefix[k])
    <3>1. Pattern(config)[k] = Literal(config.prefix[k])
      BY <1>1
    <3>2. UrlPiece(Literal(config.prefix[k])) = RawText(config.prefix[k])
      BY DEF UrlPiece, Literal
    <3> QED BY <3>1, <3>2, Zenon
  <2>2. A[k] = <<Raw(Slash)>> \o RawText(config.prefix[k])
    BY <1>1, <1>6 DEF Slash
  <2> QED BY <1>3, <1>5, <2>1, <2>2
<1>7. ASSUME NEW k \in 1..q PROVE B[k] = UrlParts[p + k]
  <2>1. CASE config.segs = <<>>
    <3>1. k = 1
      BY <1>4, <2>1
    <3>2. B[k] = <<Raw(Slash)>>
      BY <2>1, <3>1 DEF Slash
    <3>3. UrlPiece(Literal(<<>>)) = <<>>
      BY SlashIs DEF UrlPiece, Literal
    <3>4. UrlParts[p + k] = <<Raw(Slash)>> \o <<>>
      <4>1. Pattern(config)[p + k] = Literal(<<>>)
        BY <1>1, <2>1, <3>1, Zenon
      <4>2. UrlParts[p + k] = <<Raw(Slash)>> \o UrlPiece(Pattern(config)[p + k])
        BY <1>3, <1>5, Zenon
      <4> QED BY <3>3, <4>1, <4>2, Zenon
    <3>5. <<Raw(Slash)>> \o <<>> = <<Raw(Slash)>>
      OBVIOUS
    <3> QED BY <3>2, <3>4, <3>5
  <2>2. CASE config.segs # <<>>
    <3>1. k \in 1..m
      BY <1>4, <2>2
    <3>2. B[k] = SentSegment(config.segs[k])
      BY <1>1, <2>2, <3>1
    <3>3. SentSegment(config.segs[k]) = <<Raw(Slash)>> \o UrlPiece(config.segs[k])
      <4>1. SentSegment(config.segs[k]) = RawText(<<"/">>) \o UrlPiece(config.segs[k])
        BY DEF SentSegment, UrlPiece
      <4>2. RawText(<<"/">>) = <<Raw(Slash)>>
        BY SlashIs DEF Slash
      <4> QED BY <4>1, <4>2, Zenon
    <3>4. UrlParts[p + k] = <<Raw(Slash)>> \o UrlPiece(config.segs[k])
      BY <1>1, <1>3, <1>5, <2>2, <3>1
    <3> QED BY <3>2, <3>3, <3>4
  <2> QED BY <2>1, <2>2
<1>8. A = [k \in 1..p |-> A[k]] /\ B = [k \in 1..q |-> B[k]]
  <2>1. A = [k \in 1..p |-> A[k]]
    BY <1>1
  <2>2. CASE config.segs = <<>>
    <3>1. B = <<<<Raw("/")>>>> /\ q = 1
      BY <2>2
    <3> HIDE DEF B, q
    <3>2. B = [k \in 1..q |-> B[k]]
      BY <3>1
    <3> QED BY <2>1, <3>2
  <2>3. CASE config.segs # <<>>
    <3>1. B = [k \in 1..q |-> SentSegment(config.segs[k])]
      BY <1>1, <2>3
    <3> HIDE DEF B
    <3>2. B = [k \in 1..q |-> B[k]]
      BY <3>1
    <3> QED BY <2>1, <3>2
  <2> QED BY <2>2, <2>3
<1> HIDE DEF A, B, q, p, m, n, V
<1>9. A \in Seq(V) /\ B \in Seq(V)
  <2>1. \A k \in 1..p : A[k] \in V
    BY <1>3, <1>5, <1>6
  <2>2. \A k \in 1..q : B[k] \in V
    BY <1>3, <1>5, <1>7
  <2> QED BY <1>1, <1>4, <1>8, <2>1, <2>2, SequenceOf
<1>10. Len(A) = p /\ Len(B) = q
  BY <1>1, <1>4, <1>8, <1>9
<1>11. A \o B \in Seq(V) /\ Joins(A, B, A \o B)
  BY <1>9, ConcatIs
<1>12. Len(A \o B) = n
  BY <1>1, <1>10, <1>11 DEF Joins
<1>13. ASSUME NEW k \in 1..n PROVE (A \o B)[k] = UrlParts[k]
  <2>1. CASE k \in 1..p
    BY <1>6, <1>10, <1>11, <2>1 DEF Joins
  <2>2. CASE k \notin 1..p
    <3> DEFINE j == k - p
    <3>1. j \in 1..q /\ p + j = k
      BY <1>1, <1>4, <2>2
    <3> HIDE DEF j
    <3>2. (A \o B)[p + j] = B[j]
      BY <1>10, <1>11, <3>1, Zenon DEF Joins
    <3> QED BY <1>7, <3>1, <3>2, Zenon
  <2> QED BY <2>1, <2>2
<1>14. A \o B = UrlParts
  BY <1>3, <1>11, <1>12, <1>13, SeqEqual
<1> QED BY <1>2, <1>14

\* Where each part ends.
LEMMA PathLaid ==
  ASSUME Addressed
  PROVE  /\ BuildPath \in Seq(UrlChars)
         /\ \E off : Laid(UrlParts, Len(Pattern(config)), off, BuildPath)
  BY PartsTyped, BuildPathIs, FlattenLays

\* A sequence is its first element and the others.
LEMMA HeadAndRest ==
  ASSUME NEW U, NEW x \in Seq(U), Len(x) >= 2
  PROVE  SubSeq(x, 2, Len(x)) # <<>> /\ <<x[1]>> \o SubSeq(x, 2, Len(x)) = x
<1> DEFINE L == Len(x)
           y == SubSeq(x, 2, L)
           h == <<x[1]>>
<1>1. L \in Nat /\ \A i \in 1..L : x[i] \in U
  OBVIOUS
<1>a. L >= 2
  OBVIOUS
<1> HIDE DEF L
<1>2. y \in Seq(U) /\ Len(y) = L - 1 /\ \A i \in 1..(L - 1) : y[i] = x[2 + i - 1]
  <2>1. 2 \in Int /\ L \in Int /\ \A i \in 2..L : x[i] \in U
    BY <1>1
  <2>2. /\ y \in Seq(U)
        /\ Len(y) = (IF 2 <= L THEN L - 2 + 1 ELSE 0)
        /\ \A i \in 1..(L - 2 + 1) : y[i] = x[2 + i - 1]
    BY <2>1, SubSeqProperties
  <2> HIDE DEF y
  <2>3. L - 2 + 1 = L - 1 /\ 2 =< L
    BY <1>1, <1>a
  <2> QED BY <2>2, <2>3
<1> HIDE DEF y
<1>3. h \in Seq(U) /\ Len(h) = 1 /\ h[1] = x[1]
  <2>1. 1 \in 1..L
    BY <1>1, <1>a
  <2>2. x[1] \in U
    BY <1>1, <2>1
  <2> QED BY <2>2
<1> HIDE DEF h
<1>4. h \o y \in Seq(U) /\ Joins(h, y, h \o y)
  BY <1>2, <1>3, ConcatIs
<1>5. Len(h \o y) = L
  <2>1. Len(h \o y) = Len(h) + Len(y)
    BY <1>4 DEF Joins
  <2> QED BY <1>1, <1>2, <1>3, <2>1
<1>6. ASSUME NEW i \in 1..L PROVE (h \o y)[i] = x[i]
  <2>1. CASE i = 1
    BY <1>3, <1>4, <2>1 DEF Joins
  <2>2. CASE i # 1
    <3> DEFINE j == i - 1
    <3>1. j \in 1..(L - 1) /\ 1 + j = i /\ 2 + j - 1 = i
      BY <1>1, <2>2
    <3> HIDE DEF j
    <3>2. (h \o y)[1 + j] = y[j]
      BY <1>2, <1>3, <1>4, <3>1, Zenon DEF Joins
    <3>3. y[j] = x[i]
      BY <1>2, <3>1
    <3> QED BY <3>1, <3>2, <3>3
  <2> QED BY <2>1, <2>2
<1>7. h \o y = x
  BY <1>4, <1>5, <1>6, SeqEqual DEF L
<1>8. y # <<>>
  <2> SUFFICES ASSUME y = <<>> PROVE FALSE
    OBVIOUS
  <2>1. Len(y) = 0
    OBVIOUS
  <2> QED BY <1>1, <1>a, <1>2, <2>1
<1> QED BY <1>7, <1>8 DEF h, y, L

\* The URL of a call: the server and the path, whose slash is not doubled.
LEMMA EndpointUrlIs ==
  ASSUME Addressed, base = <<Host>>
  PROVE  \/ UrlPieces[1] # <<>> /\ EndpointUrl = <<Raw(Host)>> \o BuildPath
         \/ UrlPieces[1] = <<>> /\ Len(Pattern(config)) = 1 /\ EndpointUrl = <<Raw(Host)>>
<1> DEFINE n == Len(Pattern(config))
           x == BuildPath
           L == Len(x)
           path == TrimStart(x, Raw(Slash))
           w == UrlPieces[1]
           part == UrlParts[1]
<1>1. RawText(base) = <<Raw(Host)>>
  BY DEF RawText
<1>2. EndpointUrl = <<Raw(Host)>> \o (IF path = <<>> THEN <<>> ELSE <<Raw(Slash)>> \o path)
  BY <1>1, Zenon DEF EndpointUrl, Slash
<1>3. n \in Nat /\ n >= 1 /\ 1 \in 1..n
  BY PartsTyped
<1>4. w \in Seq(UrlChars) /\ part \in Seq(UrlChars) /\ Joins(<<Raw(Slash)>>, w, part)
  BY <1>3, PartsTyped
<1>5. part[1] = Raw(Slash) /\ Len(part) = 1 + Len(w) /\ Len(w) \in Nat /\ (w # <<>> => part[2] = w[1] /\ Len(w) # 0)
  <2> HIDE DEF w, part
  <2>1. Len(<<Raw(Slash)>>) = 1 /\ <<Raw(Slash)>>[1] = Raw(Slash) /\ Len(w) \in Nat /\ (w # <<>> => Len(w) # 0)
    BY <1>4
  <2> DEFINE s == <<Raw(Slash)>>
             l == Len(w)
  <2>2. Len(s) = 1 /\ s[1] = Raw(Slash) /\ l \in Nat /\ (w # <<>> => l # 0)
    BY <2>1
  <2>3. Len(part) = Len(s) + l /\ (\A i \in 1..Len(s) : part[i] = s[i]) /\ \A i \in 1..l : part[Len(s) + i] = w[i]
    BY <1>4 DEF Joins
  <2> HIDE DEF s, l
  <2>4. part[1] = Raw(Slash) /\ Len(part) = 1 + l
    BY <2>2, <2>3
  <2>5. l # 0 => part[1 + 1] = w[1]
    BY <2>2, <2>3
  <2> QED BY <2>2, <2>4, <2>5 DEF l
<1>6. x \in Seq(UrlChars) /\ \E off : Laid(UrlParts, n, off, x)
  BY PathLaid
<1> HIDE DEF x
<1>7. PICK off : Laid(UrlParts, n, off, x)
  BY <1>6
<1>8. /\ L \in Nat /\ L = off[n] /\ off[1] =< L /\ off[1] = Len(part) /\ off[0] = 0
      /\ \A i \in 1..Len(part) : x[i] = part[i]
  <2> HIDE DEF n
  <2>1. 0 \in 0..n /\ 1 \in 0..n /\ n \in 0..n /\ 1 - 1 = 0
    BY <1>3
  <2>2. L = off[n] /\ off[1] =< off[n] /\ off[0] = 0 /\ L \in Nat
    BY <1>3, <2>1, <1>7 DEF Laid
  <2>3. off[1] = off[1 - 1] + Len(part) /\ \A i \in 1..Len(part) : x[off[1 - 1] + i] = part[i]
    BY <1>3, <1>7, Zenon DEF Laid
  <2>4. Len(part) \in Nat
    BY <1>4, LenProperties
  <2>5. off[1] = Len(part)
    BY <2>1, <2>2, <2>3, <2>4
  <2>6. \A i \in 1..Len(part) : 0 + i = i
    BY <2>4
  <2>7. \A i \in 1..Len(part) : x[i] = part[i]
    BY <2>1, <2>2, <2>3, <2>6
  <2> QED BY <2>2, <2>5, <2>7
<1>9. CASE w # <<>>
  <2>1. w[1] # Raw(Slash)
    <3>1. 1 \in 1..Len(w)
      BY <1>5, <1>9
    <3>2. w = UrlPiece(Pattern(config)[1])
      BY <1>3, PartsTyped
    <3>3. \A i \in 1..Len(w) : w[i] # Raw(Slash)
      BY <1>3, <3>2, UrlPieceIs
    <3> QED BY <3>1, <3>3
  <2>2. L >= 2 /\ x[1] = Raw(Slash) /\ x[2] # Raw(Slash)
    <3> DEFINE l == Len(part)
               k == Len(w)
    <3>1. l = 1 + k /\ k \in Nat /\ k # 0 /\ l =< L /\ L \in Nat
      BY <1>5, <1>8, <1>9
    <3> HIDE DEF l, k, L
    <3>2. L >= 2 /\ 1 \in 1..l /\ 2 \in 1..l
      BY <3>1
    <3>3. x[1] = part[1] /\ x[2] = part[2]
      BY <1>8, <3>2 DEF l
    <3> QED BY <1>5, <1>9, <2>1, <3>2, <3>3
  <2>3. path = SubSeq(x, 2, L)
    BY <1>6, <2>2, TrimsOne
  <2>4. path # <<>> /\ <<Raw(Slash)>> \o path = x
    BY <1>6, <2>2, <2>3, HeadAndRest
  <2> HIDE DEF path
  <2>5. EndpointUrl = <<Raw(Host)>> \o x
    BY <1>2, <2>4
  <2> QED BY <1>9, <2>5 DEF x
<1>10. CASE w = <<>>
  <2>1. n = 1
    <3>1. w = UrlPiece(Pattern(config)[1])
      BY <1>3, PartsTyped
    <3>2. w = <<>> => 1 = Len(Pattern(config))
      BY <1>3, <3>1, UrlPieceIs
    <3> QED BY <1>10, <3>2
  <2>2. Len(w) = 0
    BY <1>10
  <2>3. L = 1 /\ x[1] = Raw(Slash)
    <3> DEFINE l == Len(part)
    <3>1. l = 1 /\ L = l
      BY <1>5, <1>8, <2>1, <2>2
    <3> HIDE DEF l, L
    <3>2. 1 \in 1..l /\ L = 1
      BY <3>1
    <3> QED BY <1>5, <1>8, <3>2 DEF l
  <2>4. x = <<Raw(Slash)>>
    <3> DEFINE y == <<Raw(Slash)>>
    <3>1. y \in Seq(UrlChars) /\ Len(y) = 1 /\ y[1] = Raw(Slash)
      <4>1. Raw(Slash) \in UrlChars
        BY DEF UrlChars
      <4> QED BY <4>1
    <3> HIDE DEF y
    <3>2. \A i \in 1..Len(x) : x[i] = y[i]
      BY <2>3, <3>1
    <3>3. x = y
      BY <1>6, <2>3, <3>1, <3>2, SeqEqual
    <3> QED BY <3>3 DEF y
  <2>5. path = <<>>
    BY <2>4, TrimsAll
  <2> HIDE DEF path
  <2>6. <<Raw(Host)>> \o <<>> = <<Raw(Host)>>
    OBVIOUS
  <2>7. EndpointUrl = <<Raw(Host)>>
    BY <1>2, <2>5, <2>6
  <2> QED BY <1>10, <2>1, <2>7
<1> QED BY <1>9, <1>10
----------------------------------------------------------------------------
(* The URL parser: it cuts where the segments begin, and nowhere else. *)

\* A place in what is laid out is in one of the parts.
LEMMA PlaceOf ==
  ASSUME NEW seqs, NEW n \in Nat, NEW off, NEW x, Laid(seqs, n, off, x), NEW i \in 1..off[n]
  PROVE  \E k \in 1..n : off[k - 1] < i /\ i =< off[k]
<1>1. off[0] = 0 /\ \A k \in 0..n : off[k] \in Nat
  BY DEF Laid
<1> DEFINE T == {k \in 0..n : i =< off[k]}
<1>2. n \in T /\ T \subseteq Nat
  <2>1. n \in 0..n
    OBVIOUS
  <2>2. i =< off[n]
    BY <1>1, <2>1
  <2> QED BY <2>1, <2>2
<1>3. PICK m \in T : \A k \in T : m =< k
  BY <1>2, LeastOf
<1>4. m # 0
  <2>1. ~(i =< 0)
    BY <1>1
  <2> QED BY <1>1, <1>3, <2>1
<1>5. m \in 1..n /\ m - 1 \in 0..n /\ ~(m =< m - 1)
  BY <1>3, <1>4
<1>6. ~(i =< off[m - 1])
  BY <1>3, <1>5
<1>7. off[m - 1] \in Nat /\ off[m] \in Nat /\ i \in Int /\ i =< off[m]
  BY <1>1, <1>3, <1>5
<1>8. off[m - 1] < i
  <2> DEFINE o == off[m - 1]
  <2>1. o \in Nat /\ i \in Int /\ ~(i =< o)
    BY <1>6, <1>7
  <2> HIDE DEF o
  <2>2. o < i
    BY <2>1
  <2> QED BY <2>2 DEF o
<1> QED BY <1>5, <1>7, <1>8

\* What the URL parser cuts at.
UrlSeps == {Raw(Slash), Raw(Back)}

\* A part has its slash and no other separator.
LEMMA PartCuts ==
  ASSUME Addressed, NEW k \in 1..Len(Pattern(config))
  PROVE  /\ UrlParts[k][1] \in UrlSeps /\ Len(UrlParts[k]) \in Nat /\ Len(UrlParts[k]) = 1 + Len(UrlPieces[k])
         /\ Len(UrlPieces[k]) \in Nat
         /\ \A i \in 1..Len(UrlPieces[k]) : UrlParts[k][1 + i] = UrlPieces[k][i]
         /\ \A i \in 1..Len(UrlParts[k]) : UrlParts[k][i] \in UrlSeps => i = 1
<1> DEFINE w == UrlPieces[k]
           part == UrlParts[k]
           s == <<Raw(Slash)>>
           l == Len(w)
           p == Len(part)
<1>1. w \in Seq(UrlChars) /\ part \in Seq(UrlChars) /\ Joins(s, w, part) /\ w = UrlPiece(Pattern(config)[k])
  BY PartsTyped
<1>2. \A i \in 1..l : w[i] # Raw(Slash) /\ w[i] # Raw(Back)
  BY <1>1, UrlPieceIs
<1>3. \A i \in 1..l : w[i] \notin UrlSeps
  BY <1>2, Zenon DEF UrlSeps
<1>4. Len(s) = 1 /\ s[1] = Raw(Slash) /\ l \in Nat /\ p \in Nat
  BY <1>1
<1>5. p = Len(s) + l /\ (\A i \in 1..Len(s) : part[i] = s[i]) /\ \A i \in 1..l : part[Len(s) + i] = w[i]
  BY <1>1 DEF Joins
<1> HIDE DEF w, part, s, l, p
<1>6. p = 1 + l /\ part[1] = Raw(Slash) /\ \A i \in 1..l : part[1 + i] = w[i]
  BY <1>4, <1>5
<1>7. ASSUME NEW i \in 1..p, part[i] \in UrlSeps, i # 1 PROVE FALSE
  <2> DEFINE j == i - 1
  <2>1. j \in 1..l /\ 1 + j = i
    BY <1>4, <1>6, <1>7
  <2> HIDE DEF j
  <2>2. part[1 + j] = w[j]
    BY <1>6, <2>1
  <2> QED BY <1>3, <1>7, <2>1, <2>2
<1>8. part[1] \in UrlSeps
  BY <1>6 DEF UrlSeps
<1> QED BY <1>4, <1>6, <1>7, <1>8 DEF w, part, l, p

\* The separators of the URL are the slashes before the segments.
LEMMA UrlCuts ==
  ASSUME Addressed, NEW off, Laid(UrlParts, Len(Pattern(config)), off, BuildPath)
  PROVE  LET url == <<Raw(Host)>> \o BuildPath
             n == Len(Pattern(config))
         IN Spaced({j \in DOMAIN url : url[j] \in UrlSeps}, 1, Len(url)) = [k \in 1..n |-> 2 + off[k - 1]]
<1> DEFINE n == Len(Pattern(config))
           x == BuildPath
           h == <<Raw(Host)>>
           url == h \o x
           L == Len(url)
           a == [k \in 1..n |-> 2 + off[k - 1]]
           set == {j \in DOMAIN url : url[j] \in UrlSeps}
<1>1. n \in Nat /\ n >= 1
  BY PartsTyped
<1>2. /\ (\A k \in 0..n : off[k] \in Nat) /\ off[0] = 0 /\ Len(x) = off[n]
      /\ (\A k \in 1..n : off[k] = off[k - 1] + Len(UrlParts[k]))
      /\ (\A i, k \in 0..n : i =< k => off[i] =< off[k])
      /\ \A k \in 1..n : \A i \in 1..Len(UrlParts[k]) : x[off[k - 1] + i] = UrlParts[k][i]
  BY DEF Laid
<1>3. \A k \in 1..n : Len(UrlParts[k]) \in Nat /\ Len(UrlParts[k]) >= 1
  <2> SUFFICES ASSUME NEW k \in 1..n PROVE Len(UrlParts[k]) \in Nat /\ Len(UrlParts[k]) >= 1
    OBVIOUS
  <2> DEFINE p == Len(UrlParts[k])
             l == Len(UrlPieces[k])
  <2>1. p \in Nat /\ l \in Nat /\ p = 1 + l
    BY PartCuts
  <2> HIDE DEF p, l
  <2>2. p \in Nat /\ p >= 1
    BY <2>1
  <2> QED BY <2>2 DEF p
<1>4. x \in Seq(UrlChars)
  BY PathLaid
<1>5. Len(h) = 1 /\ h[1] = Raw(Host) /\ h \in Seq(UrlChars)
  <2>1. Raw(Host) \in UrlChars
    BY DEF UrlChars
  <2> QED BY <2>1
<1> HIDE DEF x, h
<1>6. url \in Seq(UrlChars) /\ Joins(h, x, url)
  BY <1>4, <1>5, ConcatIs
<1> HIDE DEF url, n
<1>7. L = 1 + off[n] /\ off[n] \in Nat /\ L \in Nat /\ DOMAIN url = 1..L /\ url[1] = Raw(Host)
  <2>1. off[n] \in Nat
    BY <1>1, <1>2
  <2>2. Len(url) = Len(h) + Len(x) /\ \A i \in 1..Len(h) : url[i] = h[i]
    BY <1>6 DEF Joins
  <2>3. L = 1 + off[n]
    BY <1>2, <1>5, <2>2
  <2>4. DOMAIN url = 1..L
    BY <1>6
  <2>5. url[1] = Raw(Host)
    BY <1>5, <2>2
  <2> QED BY <2>1, <2>3, <2>4, <2>5
<1>8. \A i \in 1..off[n] : url[1 + i] = x[i]
  BY <1>2, <1>5, <1>6 DEF Joins
<1> HIDE DEF L
<1>9. ASSUME NEW k \in 1..n, NEW i \in 1..Len(UrlParts[k])
      PROVE  /\ off[k - 1] \in Nat /\ off[k] \in Nat /\ off[k - 1] + i \in 1..off[n]
             /\ url[1 + (off[k - 1] + i)] = UrlParts[k][i]
  <2> DEFINE o == off[k - 1]
             p == off[k]
             l == Len(UrlParts[k])
             m == off[n]
  <2>1. k - 1 \in 0..n /\ k \in 0..n /\ n \in 0..n /\ k =< n
    BY <1>1
  <2>2. o \in Nat /\ p \in Nat /\ m \in Nat /\ p = o + l /\ p =< m
    BY <1>2, <2>1
  <2>3. l \in Nat /\ i \in 1..l
    BY <1>3
  <2> HIDE DEF o, p, l, m
  <2>4. o + i \in 1..m
    BY <2>2, <2>3
  <2>5. url[1 + (o + i)] = x[o + i]
    BY <1>8, <2>4 DEF m
  <2>6. x[o + i] = UrlParts[k][i]
    BY <1>2 DEF o
  <2> QED BY <2>2, <2>4, <2>5, <2>6 DEF o, p, m
<1>10. ASSUME NEW k \in 1..n PROVE a[k] = 2 + off[k - 1] /\ off[k - 1] \in Nat /\ a[k] \in 1..L /\ a[k] \in set
  <2>1. 1 \in 1..Len(UrlParts[k])
    BY <1>3
  <2>2. off[k - 1] \in Nat /\ off[k - 1] + 1 \in 1..off[n] /\ url[1 + (off[k - 1] + 1)] = UrlParts[k][1]
    BY <1>9, <2>1
  <2> DEFINE o == off[k - 1]
             m == off[n]
  <2>3. o \in Nat /\ m \in Nat /\ o + 1 \in 1..m /\ L = 1 + m
    BY <1>7, <2>2
  <2>4. a[k] = 2 + o
    OBVIOUS
  <2> HIDE DEF o, m, a
  <2>5. 1 + (o + 1) = 2 + o /\ 2 + o \in 1..L
    BY <2>3
  <2>6. UrlParts[k][1] \in UrlSeps
    BY PartCuts DEF n
  <2>7. url[2 + o] \in UrlSeps
    BY <2>2, <2>5, <2>6 DEF o
  <2>8. a[k] \in set
    BY <1>7, <2>4, <2>5, <2>7
  <2> QED BY <2>3, <2>4, <2>5, <2>8 DEF o
<1>11. a \in Seq(1..L) /\ Len(a) = n
  <2>1. a = [k \in 1..n |-> a[k]]
    OBVIOUS
  <2> HIDE DEF a
  <2>2. a \in Seq(1..L)
    BY <1>1, <1>10, <2>1, SequenceOf
  <2>3. DOMAIN a = 1..n
    BY <2>1
  <2> QED BY <1>1, <2>2, <2>3
<1>12. ASSUME NEW i \in 1..n, NEW k \in 1..n, i < k PROVE a[i] + 1 =< a[k]
  <2> DEFINE oi == off[i - 1]
             pi == off[i]
             ok == off[k - 1]
             l == Len(UrlParts[i])
  <2>1. i \in 0..n /\ k - 1 \in 0..n /\ i =< k - 1
    BY <1>1, <1>12
  <2>2. oi \in Nat /\ ok \in Nat /\ pi \in Nat /\ pi =< ok /\ pi = oi + l /\ l \in Nat /\ l >= 1
    BY <1>2, <1>3, <1>10, <2>1
  <2>3. a[i] = 2 + oi /\ a[k] = 2 + ok
    BY <1>10
  <2> HIDE DEF oi, pi, ok, l, a
  <2> QED BY <2>2, <2>3
<1>13. ASSUME NEW j \in 1..L, j \in set PROVE \E k \in 1..n : a[k] =< j /\ j < a[k] + 1
  <2>1. url[j] \in UrlSeps
    BY <1>13
  <2>2. Raw(Host) \notin UrlSeps
    <3>1. \A c : Raw(c).ch = c
      BY DEF Raw
    <3>2. Host # Slash /\ Host # Back
      BY DEF Host, Slash, Back
    <3>3. Raw(Host) # Raw(Slash) /\ Raw(Host) # Raw(Back)
      <4>1. Raw(Host).ch = Host /\ Raw(Slash).ch = Slash /\ Raw(Back).ch = Back
        BY <3>1, Zenon
      <4> QED BY <3>2, <4>1
    <3> QED BY <3>3, Zenon DEF UrlSeps
  <2>3. j # 1
    BY <1>7, <2>1, <2>2
  <2> DEFINE i == j - 1
  <2>4. i \in 1..off[n] /\ 1 + i = j
    BY <1>7, <2>3
  <2> HIDE DEF i
  <2>5. PICK k \in 1..n : off[k - 1] < i /\ i =< off[k]
    BY <1>1, <2>4, PlaceOf DEF n, x
  <2> DEFINE o == off[k - 1]
             p == off[k]
             l == Len(UrlParts[k])
             q == i - o
  <2>6. o \in Nat /\ p = o + l /\ l \in Nat /\ o < i /\ i =< p /\ i \in Nat
    <3>1. off[k - 1] \in Nat
      BY <1>10
    <3> QED BY <1>2, <1>3, <1>7, <2>4, <2>5, <3>1
  <2> HIDE DEF o, p, l
  <2>7. q \in 1..l /\ o + q = i
    BY <2>6
  <2> HIDE DEF q
  <2>8. url[1 + (o + q)] = UrlParts[k][q]
    BY <1>9, <2>7 DEF o, l
  <2>9. UrlParts[k][q] \in UrlSeps
    BY <2>1, <2>4, <2>7, <2>8
  <2>10. q = 1
    BY <2>7, <2>9, PartCuts DEF l, n
  <2>11. a[k] = 2 + o
    BY <1>10 DEF o
  <2> HIDE DEF a
  <2>12. a[k] = j
    BY <2>4, <2>6, <2>7, <2>10, <2>11
  <2>13. a[k] =< j /\ j < a[k] + 1
    BY <1>7, <2>12
  <2> QED BY <2>13
<1> HIDE DEF a, set
<1>14. Scan(set, 1, L, a)
  <2>1. \A k \in 1..Len(a) : a[k] \in set
    BY <1>10, <1>11
  <2>2. \A i, k \in 1..Len(a) : i < k => a[i] + 1 =< a[k]
    BY <1>11, <1>12
  <2>3. \A j \in 1..L : j \in set => \E k \in 1..Len(a) : a[k] =< j /\ j < a[k] + 1
    BY <1>11, <1>13
  <2> QED BY <1>11, <2>1, <2>2, <2>3 DEF Scan
<1>15. Spaced(set, 1, L) = a
  BY <1>7, <1>14, ScanUnique
<1> QED BY <1>15 DEF set, L, a, url, h, x, n

\* The pieces that are left when the dot segments are resolved.
Keeps(pieces, n, f) ==
  f = [k \in 0..n |-> IF k = 0 THEN <<>> ELSE Step(f[k - 1], pieces[k])]

\* Of pieces that are no dot segments all are kept.
LEMMA AllKept ==
  ASSUME NEW S, NEW pieces \in Seq(S), \A k \in 1..Len(pieces) : ~Dots(pieces[k])
  PROVE  (CHOOSE f : Keeps(pieces, Len(pieces), f))[Len(pieces)] = pieces
<1> DEFINE n == Len(pieces)
           g == [k \in 0..n |-> SubSeq(pieces, 1, k)]
           f == CHOOSE f : Keeps(pieces, n, f)
<1>1. n \in Nat /\ \A k \in 1..n : pieces[k] \in S
  OBVIOUS
<1> HIDE DEF n
<1>2. ASSUME NEW k \in 0..n
      PROVE  g[k] \in Seq(S) /\ Len(g[k]) = k /\ \A i \in 1..k : g[k][i] = pieces[i]
  <2>1. 1 \in Int /\ k \in Int /\ \A i \in 1..k : pieces[i] \in S
    BY <1>1
  <2>2. /\ SubSeq(pieces, 1, k) \in Seq(S)
        /\ Len(SubSeq(pieces, 1, k)) = (IF 1 <= k THEN k - 1 + 1 ELSE 0)
        /\ \A i \in 1..(k - 1 + 1) : SubSeq(pieces, 1, k)[i] = pieces[1 + i - 1]
    BY <2>1, SubSeqProperties
  <2>3. g[k] = SubSeq(pieces, 1, k)
    OBVIOUS
  <2> HIDE DEF g
  <2>4. k - 1 + 1 = k /\ (1 <= k \/ k = 0) /\ \A i \in 1..k : 1 + i - 1 = i
    BY <1>1
  <2> QED BY <2>2, <2>3, <2>4
<1>3. g = [k \in 0..n |-> g[k]]
  OBVIOUS
<1> HIDE DEF g
<1>4. g[0] = <<>>
  <2>1. 0 \in 0..n
    BY <1>1
  <2> QED BY <1>2, <2>1
<1>5. ASSUME NEW k \in 1..n PROVE Step(g[k - 1], pieces[k]) = g[k]
  <2>1. k \in 0..n /\ k - 1 \in 0..n /\ (k - 1) + 1 = k
    BY <1>1
  <2>2. Step(g[k - 1], pieces[k]) = Append(g[k - 1], pieces[k])
    <3>1. ~Dots(pieces[k])
      BY DEF n
    <3>2. pieces[k] # <<Raw(".")>>
      BY <3>1, Zenon DEF Dots
    <3> QED BY <3>1, <3>2, Zenon DEF Step
  <2> DEFINE h == g[k - 1]
             y == Append(h, pieces[k])
  <2>3. h \in Seq(S) /\ Len(h) = k - 1 /\ (\A i \in 1..(k - 1) : h[i] = pieces[i]) /\ pieces[k] \in S
    BY <1>1, <1>2, <2>1
  <2> HIDE DEF h
  <2>4. y \in Seq(S) /\ Len(y) = k /\ y[k] = pieces[k] /\ \A i \in 1..(k - 1) : y[i] = pieces[i]
    <3>1. y \in Seq(S) /\ Len(y) = Len(h) + 1 /\ y[Len(h) + 1] = pieces[k] /\ \A i \in 1..Len(h) : y[i] = h[i]
      BY <2>3, AppendProperties
    <3> HIDE DEF y
    <3> QED BY <2>1, <2>3, <3>1
  <2> HIDE DEF y
  <2>5. \A i \in 1..k : y[i] = pieces[i]
    <3>1. \A i \in 1..k : i = k \/ i \in 1..(k - 1)
      OBVIOUS
    <3> QED BY <2>4, <3>1
  <2>6. y = g[k]
    <3>1. g[k] \in Seq(S) /\ Len(g[k]) = k /\ \A i \in 1..k : g[k][i] = pieces[i]
      BY <1>2, <2>1
    <3> QED BY <2>4, <2>5, <3>1, SeqEqual
  <2> QED BY <2>2, <2>6 DEF y, h
<1>6. Keeps(pieces, n, g)
  <2>1. ASSUME NEW k \in 0..n PROVE g[k] = IF k = 0 THEN <<>> ELSE Step(g[k - 1], pieces[k])
    <3>1. k = 0 \/ k \in 1..n
      BY <1>1
    <3> QED BY <1>4, <1>5, <3>1
  <2> QED BY <1>3, <2>1 DEF Keeps
<1>7. Keeps(pieces, n, f)
  BY <1>6
<1> HIDE DEF f
<1>8. \A k \in 0..n : f[k] = IF k = 0 THEN <<>> ELSE Step(f[k - 1], pieces[k])
  BY <1>7 DEF Keeps
<1>9. ASSUME f[n] # g[n] PROVE FALSE
  <2> DEFINE T == {k \in 0..n : f[k] # g[k]}
  <2>1. n \in T /\ T \subseteq Nat
    BY <1>1, <1>9
  <2>2. PICK m \in T : \A k \in T : m =< k
    BY <2>1, LeastOf
  <2>3. m \in 0..n /\ f[m] # g[m]
    BY <2>2
  <2>4. m # 0
    BY <1>4, <1>8, <2>3
  <2>5. m \in 1..n /\ m - 1 \in 0..n /\ ~(m =< m - 1)
    BY <1>1, <2>3, <2>4
  <2>6. f[m - 1] = g[m - 1]
    BY <2>2, <2>5
  <2>7. f[m] = g[m]
    BY <1>5, <1>8, <2>3, <2>4, <2>5, <2>6
  <2> QED BY <2>3, <2>7
<1>10. g[n] = pieces
  <2>1. n \in 0..n
    BY <1>1
  <2>2. g[n] \in Seq(S) /\ Len(g[n]) = n /\ \A i \in 1..n : g[n][i] = pieces[i]
    BY <1>2, <2>1
  <2> QED BY <2>2, SeqEqual DEF n
<1> QED BY <1>9, <1>10 DEF f, n

\* The pieces behind the first one.
CutPlaces(s, separators) == {j \in DOMAIN s : s[j] \in separators}
Behind(s, a) == [k \in 1..Len(a) |-> SubSeq(s, a[k] + 1, (IF k = Len(a) THEN Len(s) + 1 ELSE a[k + 1]) - 1)]

LEMMA RestOfSplit ==
  ASSUME NEW U, NEW s \in Seq(U), NEW separators, NEW n \in Nat \ {0}, NEW a \in Seq(Nat), Len(a) = n,
         Spaced(CutPlaces(s, separators), 1, Len(s)) = a
  PROVE  Tail(SplitAtAny(s, separators)) = Behind(s, a)
<1> DEFINE L == Len(s)
           z == <<0>>
           e == <<L + 1>>
           za == z \o a
           c == za \o e
           p == [k \in 1..(Len(c) - 1) |-> SubSeq(s, c[k] + 1, c[k + 1] - 1)]
           q == [k \in 1..n |-> SubSeq(s, a[k] + 1, (IF k = n THEN L + 1 ELSE a[k + 1]) - 1)]
<1>0. Behind(s, a) = q
  BY DEF Behind
<1>1. SplitAtAny(s, separators) = p
  BY DEF SplitAtAny, CutPlaces
<1>2. L \in Nat
  OBVIOUS
<1> HIDE DEF L
<1>3. z \in Seq(Nat) /\ Len(z) = 1 /\ e \in Seq(Nat) /\ Len(e) = 1 /\ e[1] = L + 1
  BY <1>2
<1> HIDE DEF z, e
<1>4. za \in Seq(Nat) /\ Joins(z, a, za)
  BY <1>3, ConcatIs
<1> HIDE DEF za
<1>5. c \in Seq(Nat) /\ Joins(za, e, c)
  BY <1>3, <1>4, ConcatIs
<1> HIDE DEF c
<1>6. Len(za) = 1 + n /\ \A k \in 1..n : za[1 + k] = a[k]
  BY <1>3, <1>4 DEF Joins
<1>7. Len(c) = n + 2 /\ (\A k \in 1..n : c[1 + k] = a[k]) /\ c[n + 2] = L + 1
  <2>1. Len(c) = Len(za) + Len(e) /\ (\A i \in 1..Len(za) : c[i] = za[i]) /\ \A i \in 1..Len(e) : c[Len(za) + i] = e[i]
    BY <1>5 DEF Joins
  <2>2. Len(c) = n + 2
    BY <1>3, <1>6, <2>1
  <2>3. c[Len(za) + 1] = e[1]
    BY <1>3, <2>1
  <2>4. c[n + 2] = L + 1
    BY <1>3, <1>6, <2>3
  <2>5. \A k \in 1..n : 1 + k \in 1..Len(za)
    BY <1>6
  <2>6. \A k \in 1..n : c[1 + k] = a[k]
    BY <1>6, <2>1, <2>5
  <2> QED BY <2>2, <2>4, <2>6
<1> DEFINE V == {p[k] : k \in 1..(n + 1)}
<1>8. p = [k \in 1..(n + 1) |-> p[k]] /\ \A k \in 1..(n + 1) : p[k] \in V
  <2>1. Len(c) - 1 = n + 1
    BY <1>7
  <2>2. p = [k \in 1..(n + 1) |-> p[k]]
    BY <2>1
  <2> HIDE DEF p
  <2> QED BY <2>2
<1>9. ASSUME NEW k \in 1..n PROVE p[k + 1] = q[k]
  <2>1. k + 1 \in 1..(Len(c) - 1) /\ 1 + k = k + 1 /\ (k = n \/ k + 1 \in 1..n) /\ 1 + (k + 1) = (k + 1) + 1 /\ (n + 1) + 1 = n + 2
    BY <1>7
  <2>2. p[k + 1] = SubSeq(s, c[k + 1] + 1, c[(k + 1) + 1] - 1)
    BY <2>1, Zenon
  <2>3. c[k + 1] = a[k]
    BY <1>7, <2>1
  <2>4. c[(k + 1) + 1] = IF k = n THEN L + 1 ELSE a[k + 1]
    <3>1. CASE k = n
      BY <1>7, <2>1, <3>1
    <3>2. CASE k # n
      <4>1. c[1 + (k + 1)] = a[k + 1]
        BY <1>7, <2>1, <3>2
      <4> QED BY <2>1, <3>2, <4>1
    <3> QED BY <3>1, <3>2
  <2>5. q[k] = SubSeq(s, a[k] + 1, (IF k = n THEN L + 1 ELSE a[k + 1]) - 1)
    BY Zenon
  <2> QED BY <2>2, <2>3, <2>4, <2>5
<1>10. q = [k \in 1..n |-> q[k]]
  OBVIOUS
<1> HIDE DEF p, q, V
<1>11. p \in Seq(V) /\ Len(p) = n + 1
  <2>1. n + 1 \in Nat
    OBVIOUS
  <2>2. p \in Seq(V)
    BY <1>8, <2>1, SequenceOf
  <2> QED BY <1>8, <2>1, <2>2
<1>12. Tail(p) \in Seq(V) /\ Len(Tail(p)) = n /\ \A k \in 1..n : Tail(p)[k] = p[k + 1]
  BY <1>11
<1>13. q \in Seq(V) /\ Len(q) = n
  <2>1. \A k \in 1..n : q[k] \in V
    <3>1. \A k \in 1..n : k + 1 \in 1..(n + 1)
      OBVIOUS
    <3> QED BY <1>8, <1>9, <3>1
  <2>2. q \in Seq(V)
    BY <1>10, <2>1, SequenceOf
  <2> QED BY <1>10, <2>2
<1>14. Tail(p) = q
  BY <1>9, <1>12, <1>13, SeqEqual
<1> QED BY <1>0, <1>1, <1>14

\* Between the slash of a segment and the next one is the segment.
LEMMA UrlPieceAt ==
  ASSUME Addressed, NEW off, Laid(UrlParts, Len(Pattern(config)), off, BuildPath),
         NEW k \in 1..Len(Pattern(config))
  PROVE  LET url == <<Raw(Host)>> \o BuildPath
             n == Len(Pattern(config))
         IN /\ off[k - 1] \in Nat /\ off[k] \in Nat /\ url \in Seq(UrlChars) /\ Len(url) = 1 + off[n]
            /\ SubSeq(url, (2 + off[k - 1]) + 1, (2 + off[k]) - 1) = UrlPieces[k]
<1> DEFINE n == Len(Pattern(config))
           x == BuildPath
           h == <<Raw(Host)>>
           url == h \o x
           w == UrlPieces[k]
           part == UrlParts[k]
           o == off[k - 1]
           p == off[k]
           m == off[n]
           l == Len(w)
           y == SubSeq(url, (2 + o) + 1, (2 + p) - 1)
<1>1. n \in Nat /\ k - 1 \in 0..n /\ k \in 0..n /\ n \in 0..n /\ k =< n
  BY PartsTyped
<1>2. l \in Nat /\ Len(part) = 1 + l /\ \A i \in 1..l : part[1 + i] = w[i]
  BY PartCuts
<1>3. /\ o \in Nat /\ p \in Nat /\ m \in Nat /\ Len(x) = m /\ p = o + Len(part) /\ p =< m
      /\ \A i \in 1..Len(part) : x[o + i] = part[i]
  BY <1>1 DEF Laid
<1>4. x \in Seq(UrlChars) /\ w \in Seq(UrlChars)
  BY PathLaid, PartsTyped
<1>5. Len(h) = 1 /\ h \in Seq(UrlChars)
  <2>1. Raw(Host) \in UrlChars
    BY DEF UrlChars
  <2> QED BY <2>1
<1> HIDE DEF x, h, w, part
<1>6. url \in Seq(UrlChars) /\ Joins(h, x, url)
  BY <1>4, <1>5, ConcatIs
<1> HIDE DEF url
<1>7. Len(url) = 1 + m /\ \A i \in 1..m : url[1 + i] = x[i]
  <2>1. Len(url) = Len(h) + Len(x) /\ \A i \in 1..Len(x) : url[Len(h) + i] = x[i]
    BY <1>6 DEF Joins
  <2> HIDE DEF m
  <2> QED BY <1>3, <1>5, <2>1
<1> HIDE DEF o, p, m, l, n
<1>8. p = o + (1 + l)
  BY <1>2, <1>3
<1>9. ASSUME NEW i \in 1..l PROVE url[((2 + o) + 1) + i - 1] = w[i]
  <2>1. ((2 + o) + 1) + i - 1 = 1 + (o + (1 + i)) /\ o + (1 + i) \in 1..m /\ 1 + i \in 1..(1 + l)
    BY <1>2, <1>3, <1>8
  <2>2. url[1 + (o + (1 + i))] = x[o + (1 + i)]
    BY <1>7, <2>1
  <2>3. x[o + (1 + i)] = part[1 + i]
    BY <1>2, <1>3, <2>1
  <2>4. part[1 + i] = w[i]
    BY <1>2
  <2> QED BY <2>1, <2>2, <2>3, <2>4
<1>10. y \in Seq(UrlChars) /\ Len(y) = l /\ \A i \in 1..l : y[i] = w[i]
  <2> DEFINE u == (2 + o) + 1
             v == (2 + p) - 1
  <2>1. u \in Int /\ v \in Int /\ v - u + 1 = l /\ (u <= v \/ l = 0) /\ u >= 1 /\ v =< 1 + m
    BY <1>2, <1>3, <1>8
  <2>2. y = SubSeq(url, u, v)
    OBVIOUS
  <2> HIDE DEF u, v, y
  <2>3. \A i \in u..v : url[i] \in UrlChars
    <3>1. \A i \in 1..Len(url) : url[i] \in UrlChars
      BY <1>6, ElementOfSeq
    <3>2. \A i \in u..v : i \in 1..(1 + m)
      BY <1>3, <2>1
    <3> QED BY <1>7, <3>1, <3>2
  <2>4. /\ SubSeq(url, u, v) \in Seq(UrlChars)
        /\ Len(SubSeq(url, u, v)) = (IF u <= v THEN v - u + 1 ELSE 0)
        /\ \A i \in 1..(v - u + 1) : SubSeq(url, u, v)[i] = url[u + i - 1]
    BY <2>1, <2>3, SubSeqProperties
  <2>5. Len(y) = l
    <3>1. Len(y) = IF u <= v THEN v - u + 1 ELSE 0
      BY <2>2, <2>4
    <3> QED BY <2>1, <3>1
  <2>6. \A i \in 1..l : y[i] = url[u + i - 1]
    BY <2>1, <2>2, <2>4
  <2>7. \A i \in 1..l : url[u + i - 1] = w[i]
    BY <1>9 DEF u
  <2>8. \A i \in 1..l : y[i] = w[i]
    BY <2>6, <2>7
  <2> QED BY <2>2, <2>4, <2>5, <2>8
<1> HIDE DEF y
<1>11. y = w
  BY <1>4, <1>10, SeqEqual DEF l
<1> QED BY <1>3, <1>6, <1>7, <1>11 DEF y, w, url, h, x, o, p, m, n

\* The segments the server gets are those the client wrote.
LEMMA SegmentsAre ==
  ASSUME Addressed, base = <<Host>>
  PROVE  Segments = UrlPieces
<1> DEFINE n == Len(Pattern(config))
           url == EndpointUrl
           pieces == Tail(SplitAtAny(url, UrlSeps))
           kept == CHOOSE f : Keeps(pieces, Len(pieces), f)
<1>1. n \in Nat /\ n >= 1 /\ UrlPieces \in Seq(Seq(UrlChars)) /\ Len(UrlPieces) = n
  BY PartsTyped
<1>2. UrlSeps = {Raw("/"), Raw("\\")}
  BY Zenon DEF UrlSeps, Slash, Back
<1>3. Segments = IF pieces = <<>> \/ Dots(Last(pieces)) THEN Append(kept[Len(pieces)], <<>>) ELSE kept[Len(pieces)]
  BY DEF Segments, UrlSegments, Keeps, UrlSeps, Slash, Back
<1>4. CASE UrlPieces[1] # <<>>
  <2>1. url = <<Raw(Host)>> \o BuildPath
    BY <1>4, EndpointUrlIs
  <2>2. PICK off : Laid(UrlParts, n, off, BuildPath)
    BY PathLaid
  <2> DEFINE a == [k \in 1..n |-> 2 + off[k - 1]]
  <2>3. Spaced(CutPlaces(url, UrlSeps), 1, Len(url)) = a
    BY <2>1, <2>2, UrlCuts DEF CutPlaces
  <2>4. \A k \in 1..n : off[k - 1] \in Nat /\ off[k] \in Nat
    BY <2>2, UrlPieceAt
  <2>5. url \in Seq(UrlChars) /\ Len(url) = 1 + off[n]
    <3>1. 1 \in 1..n
      BY <1>1
    <3> QED BY <2>1, <2>2, <3>1, UrlPieceAt
  <2> HIDE DEF url
  <2>6. a \in Seq(Nat) /\ Len(a) = n
    <3>1. \A k \in 1..n : a[k] \in Nat
      BY <2>4
    <3>2. a = [k \in 1..n |-> a[k]]
      OBVIOUS
    <3> HIDE DEF a, n
    <3>3. a \in Seq(Nat)
      BY <1>1, <3>1, <3>2, SequenceOf
    <3> QED BY <1>1, <3>2, <3>3
  <2>7. n \in Nat \ {0}
    BY <1>1
  <2>8. pieces = [k \in 1..n |-> SubSeq(url, a[k] + 1, (IF k = n THEN Len(url) + 1 ELSE a[k + 1]) - 1)]
    <3> HIDE DEF a, n
    <3>1. url \in Seq(UrlChars) /\ n \in Nat \ {0} /\ a \in Seq(Nat) /\ Len(a) = n
      BY <2>5, <2>6, <2>7
    <3>2. pieces = Behind(url, a)
      BY <2>3, <3>1, RestOfSplit
    <3> HIDE DEF pieces
    <3> QED BY <2>6, <3>2 DEF Behind
  <2>9. ASSUME NEW k \in 1..n
        PROVE  SubSeq(url, a[k] + 1, (IF k = n THEN Len(url) + 1 ELSE a[k + 1]) - 1) = UrlPieces[k]
    <3>1. a[k] = 2 + off[k - 1]
      OBVIOUS
    <3>2. (IF k = n THEN Len(url) + 1 ELSE a[k + 1]) = 2 + off[k]
      <4>1. CASE k = n
        BY <2>4, <2>5, <4>1
      <4>2. CASE k # n
        <5>1. k + 1 \in 1..n /\ (k + 1) - 1 = k
          BY <1>1, <4>2
        <5> QED BY <4>2, <5>1
      <4> QED BY <4>1, <4>2
    <3>3. SubSeq(url, (2 + off[k - 1]) + 1, (2 + off[k]) - 1) = UrlPieces[k]
      BY <2>1, <2>2, UrlPieceAt
    <3> HIDE DEF a
    <3> QED BY <3>1, <3>2, <3>3
  <2> HIDE DEF pieces
  <2>10. pieces = [k \in 1..n |-> UrlPieces[k]]
    <3> HIDE DEF a, n
    <3> QED BY <2>8, <2>9
  <2>11. pieces = UrlPieces
    BY <2>10 DEF UrlPieces
  <2>12. \A k \in 1..Len(pieces) : ~Dots(pieces[k])
    <3>1. \A k \in 1..n : UrlPieces[k] = UrlPiece(Pattern(config)[k])
      BY PartsTyped
    <3> QED BY <1>1, <2>11, <3>1, UrlPieceIs
  <2>13. kept[Len(pieces)] = pieces
    BY <1>1, <2>11, <2>12, AllKept
  <2> HIDE DEF kept
  <2>14. pieces # <<>> /\ ~Dots(Last(pieces))
    <3>1. Len(pieces) = n /\ n \in 1..n
      BY <1>1, <2>11
    <3>2. Last(pieces) = pieces[n]
      BY <3>1 DEF Last
    <3>3. ASSUME pieces = <<>> PROVE FALSE
      <4>1. Len(pieces) = 0
        BY <3>3
      <4> QED BY <1>1, <3>1, <4>1
    <3> QED BY <2>12, <3>1, <3>2, <3>3
  <2> QED BY <1>3, <2>11, <2>13, <2>14
<1>5. CASE UrlPieces[1] = <<>>
  <2>1. n = 1 /\ url = <<Raw(Host)>>
    BY <1>5, EndpointUrlIs
  <2>2. Raw(Host) \notin UrlSeps /\ Raw(Host) \in UrlChars
    <3>1. Raw(Host).ch = Host /\ Raw(Slash).ch = Slash /\ Raw(Back).ch = Back
      BY DEF Raw
    <3>2. Host # Slash /\ Host # Back
      BY DEF Host, Slash, Back
    <3>3. Raw(Host) # Raw(Slash) /\ Raw(Host) # Raw(Back)
      BY <3>1, <3>2
    <3>4. Raw(Host) \in UrlChars
      BY DEF UrlChars
    <3> QED BY <3>3, <3>4, Zenon DEF UrlSeps
  <2> DEFINE u == <<Raw(Host)>>
  <2>3. u \in Seq(UrlChars) /\ \A j \in 1..Len(u) : u[j] \notin UrlSeps
    <3>1. u \in Seq(UrlChars) /\ Len(u) = 1 /\ u[1] = Raw(Host)
      BY <2>2
    <3> HIDE DEF u
    <3> QED BY <2>2, <3>1
  <2>4. SplitAtAny(u, UrlSeps) = <<u>>
    <3> HIDE DEF u
    <3> QED BY <2>3, OnePiece
  <2>5. pieces = <<>>
    <3>1. Tail(<<u>>) = <<>>
      OBVIOUS
    <3> QED BY <2>1, <2>4, <3>1
  <2> HIDE DEF pieces
  <2>6. kept[Len(pieces)] = <<>>
    <3>1. <<>> \in Seq(UrlChars) /\ Len(<<>>) = 0 /\ \A k \in 1..Len(<<>>) : ~Dots(<<>>[k])
      OBVIOUS
    <3>2. (CHOOSE f : Keeps(<<>>, Len(<<>>), f))[Len(<<>>)] = <<>>
      BY <3>1, AllKept
    <3> QED BY <2>5, <3>2
  <2> HIDE DEF kept
  <2>7. Segments = <<<<>>>>
    <3>1. Segments = Append(<<>>, <<>>)
      BY <1>3, <2>5, <2>6
    <3> QED BY <3>1
  <2>8. UrlPieces = <<<<>>>>
    <3> DEFINE z == <<<<>>>>
    <3>1. z \in Seq(Seq(UrlChars)) /\ Len(z) = 1 /\ z[1] = <<>>
      <4>1. <<>> \in Seq(UrlChars)
        OBVIOUS
      <4> QED BY <4>1
    <3> HIDE DEF z
    <3>2. \A i \in 1..Len(UrlPieces) : UrlPieces[i] = z[i]
      BY <1>1, <1>5, <2>1, <3>1
    <3>3. UrlPieces = z
      BY <1>1, <2>1, <3>1, <3>2, SeqEqual
    <3> QED BY <3>3 DEF z
  <2> QED BY <2>7, <2>8
<1> QED BY <1>4, <1>5
----------------------------------------------------------------------------
(* The router: the URL matches the call's own route, and no other comes first. *)

\* What a call has for a parameter is what it has for its segment.
LEMMA ParamTextIs ==
  ASSUME NEW s, \E j \in DOMAIN config.path : config.path[j].name = s.name
  PROVE  ParamText(s.name) = Arg(s)
<1> DEFINE F == {Arg(config.path[k]) : k \in {j \in DOMAIN config.path : config.path[j].name = s.name}}
<1>1. \A k \in DOMAIN config.path : config.path[k].name = s.name => Arg(config.path[k]) = Arg(s)
  BY DEF Arg
<1>2. F = {Arg(s)}
  BY <1>1
<1>3. ParamText(s.name) = UNION F
  BY DEF ParamText
<1> HIDE DEF F
<1> QED BY <1>2, <1>3

\* What a segment of the URL says, read by a route's pattern or by the call's own.
LEMMA ReadsSegment ==
  ASSUME Addressed, NEW k \in 1..Len(Pattern(config))
  PROVE  /\ UrlPieces[k] = UrlPiece(Pattern(config)[k]) /\ Pattern(config)[k].param \in BOOLEAN
         /\ Pattern(config)[k].param => /\ UrlPieces[k] # <<>>
                                        /\ ParamText(Pattern(config)[k].name) = {Decoded(UrlPieces[k])}
         /\ ~Pattern(config)[k].param => /\ UrlPieces[k] = RawText(Pattern(config)[k].name)
                                         /\ Pattern(config)[k].name = Decoded(UrlPieces[k])
<1> DEFINE s == Pattern(config)[k]
<1>1. UrlPieces[k] = UrlPiece(s)
  BY DEF UrlPieces
<1>2. s.param => \E j \in DOMAIN config.path : config.path[j].name = s.name
  BY RouteIs DEF Addressed
<1>3. /\ s.param \in BOOLEAN
      /\ s.param => UrlPiece(s) # <<>> /\ Arg(s) = {Decoded(UrlPiece(s))}
      /\ ~s.param => UrlPiece(s) = RawText(s.name) /\ Decoded(UrlPiece(s)) = s.name
  BY UrlPieceIs
<1>4. s.param => ParamText(s.name) = Arg(s)
  BY <1>2, ParamTextIs
<1> HIDE DEF s
<1> QED BY <1>1, <1>3, <1>4 DEF s

\* A literal that matches a segment says what the segment says.
LEMMA LiteralReads ==
  ASSUME NEW e \in Configs, NEW k \in 1..Len(Pattern(e)), ~Pattern(e)[k].param,
         NEW w, w = RawText(Pattern(e)[k].name)
  PROVE  Decoded(w) = Pattern(e)[k].name
<1> DEFINE v == Pattern(e)[k].name
           f == [i \in DOMAIN v |-> FALSE]
<1>1. PlainLiteral(v) \/ v = <<>>
  BY RouteIs
<1>2. w = RawText(v)
  OBVIOUS
<1> HIDE DEF v
<1>3. Text(v)
  <2>1. CASE v = <<>>
    <3>1. ToSet(v) = {} /\ v \in Seq(ToSet(v))
      BY <2>1 DEF ToSet
    <3> QED BY <3>1 DEF Text
  <2> QED BY <1>1, <2>1 DEF PlainLiteral
<1>4. Spells(v, f, w)
  BY <1>2 DEF RawText, Raw, Spells
<1> HIDE DEF f
<1>5. Decoded(w) = v
  BY <1>3, <1>4, SpellingIs
<1> QED BY <1>5 DEF v

\* The call's own route matches.
LEMMA MatchesOwn ==
  ASSUME Addressed
  PROVE  MatchesRoute(config, UrlPieces)
<1>1. DOMAIN Pattern(config) = 1..Len(Pattern(config)) /\ Len(UrlPieces) = Len(Pattern(config))
  BY PatternIs, PartsTyped DEF Addressed
<1>2. \A k \in 1..Len(Pattern(config)) :
        IF Pattern(config)[k].param THEN UrlPieces[k] # <<>> ELSE UrlPieces[k] = RawText(Pattern(config)[k].name)
  BY ReadsSegment
<1> QED BY <1>1, <1>2 DEF MatchesRoute

\* A route that would win against it is one that its values spell.
LEMMA NotBeaten ==
  ASSUME Addressed, NEW e \in Configs, MatchesRoute(e, UrlPieces), ~Spelled(e)
  PROVE  ~Beats(e, config)
<1> DEFINE n == Len(Pattern(config))
<1>1. /\ DOMAIN Pattern(e) = 1..n /\ Len(Pattern(e)) = n /\ DOMAIN Pattern(config) = 1..n
      /\ n \in Nat /\ n >= 1
      /\ \A k \in 1..n : IF Pattern(e)[k].param THEN UrlPieces[k] # <<>> ELSE UrlPieces[k] = RawText(Pattern(e)[k].name)
  <2>1. DOMAIN Pattern(e) = 1..Len(Pattern(e)) /\ DOMAIN Pattern(config) = 1..n
    BY PatternIs DEF Addressed
  <2>2. Len(UrlPieces) = n /\ n \in Nat /\ n >= 1
    BY PartsTyped
  <2>3. Len(Pattern(e)) = n
    BY <2>2 DEF MatchesRoute
  <2> QED BY <2>1, <2>2, <2>3 DEF MatchesRoute
<1>2. Pattern(e) # <<>>
  <2>1. 1 \in DOMAIN Pattern(e)
    BY <1>1
  <2> QED BY <2>1
<1>3. ASSUME NEW k \in 1..n, ~Pattern(e)[k].param
      PROVE  {Pattern(e)[k].name} = IF Pattern(config)[k].param THEN ParamText(Pattern(config)[k].name)
                                    ELSE {Pattern(config)[k].name}
  <2>1. Decoded(UrlPieces[k]) = Pattern(e)[k].name
    <3>1. k \in 1..Len(Pattern(e)) /\ UrlPieces[k] = RawText(Pattern(e)[k].name)
      BY <1>1, <1>3
    <3> QED BY <1>3, <3>1, LiteralReads
  <2>2. CASE Pattern(config)[k].param
    BY <2>1, <2>2, ReadsSegment
  <2>3. CASE ~Pattern(config)[k].param
    BY <2>1, <2>3, ReadsSegment
  <2> QED BY <2>2, <2>3
<1> QED BY <1>1, <1>2, <1>3 DEF Spelled

\* Two routes that match one URL, neither before the other, clash.
LEMMA OtherClashes ==
  ASSUME Addressed, NEW e \in Configs, MatchesRoute(e, UrlPieces), e.method = config.method,
         ~Beats(e, config), ~Beats(config, e)
  PROVE  Clash(config, e)
<1> DEFINE n == Len(Pattern(config))
           P(k) == Pattern(config)[k]
           Q(k) == Pattern(e)[k]
<1>1. n \in Nat /\ DOMAIN Pattern(config) = 1..n /\ DOMAIN Pattern(e) = 1..n /\ Len(Pattern(e)) = n
  <2>1. DOMAIN Pattern(e) = 1..Len(Pattern(e)) /\ DOMAIN Pattern(config) = 1..n
    BY PatternIs DEF Addressed
  <2>2. Len(UrlPieces) = n /\ n \in Nat
    BY PartsTyped
  <2>3. Len(Pattern(e)) = n
    BY <2>2 DEF MatchesRoute
  <2> QED BY <2>1, <2>2, <2>3
<1>2. \A k \in 1..n : P(k).param \in BOOLEAN /\ Q(k).param \in BOOLEAN
  BY <1>1, RouteIs DEF Addressed
<1>3. Beats(config, e) <=> \E k \in 1..n : ~P(k).param /\ Q(k).param /\ \A j \in 1..(k - 1) : P(j).param = Q(j).param
  BY <1>1 DEF Beats
<1>4. Beats(e, config) <=> \E k \in 1..n : ~Q(k).param /\ P(k).param /\ \A j \in 1..(k - 1) : Q(j).param = P(j).param
  BY <1>1 DEF Beats
<1>5. ASSUME NEW k \in 1..n, ~P(k).param, ~Q(k).param PROVE P(k).name = Q(k).name
  <2>1. UrlPieces[k] = RawText(Q(k).name)
    BY <1>1, <1>5 DEF MatchesRoute
  <2>2. Decoded(UrlPieces[k]) = Q(k).name
    <3>1. k \in 1..Len(Pattern(e))
      BY <1>1
    <3> QED BY <1>5, <2>1, <3>1, LiteralReads
  <2>3. P(k).name = Decoded(UrlPieces[k])
    BY <1>5, ReadsSegment
  <2> QED BY <2>2, <2>3
<1>6. (\A k \in 1..n : Alike(P(k), Q(k))) => Clash(config, e)
  BY <1>1 DEF Clash
<1> HIDE DEF P, Q, n
<1>8. \A k \in 1..n : P(k).param = Q(k).param
  <2> DEFINE T == {k \in 1..n : P(k).param # Q(k).param}
  <2> SUFFICES ASSUME T # {} PROVE FALSE
    OBVIOUS
  <2>1. PICK m \in T : \A k \in T : m =< k
    <3>1. T \subseteq Nat
      BY <1>1
    <3> HIDE DEF T
    <3> QED BY <3>1, LeastOf
  <2>2. \A j \in 1..(m - 1) : P(j).param = Q(j).param
    <3> SUFFICES ASSUME NEW j \in 1..(m - 1), P(j).param # Q(j).param PROVE FALSE
      OBVIOUS
    <3>1. j \in 1..n /\ ~(m =< j)
      BY <1>1
    <3> QED BY <2>1, <3>1
  <2>3. m \in 1..n /\ P(m).param # Q(m).param
    OBVIOUS
  <2>4. \A j \in 1..(m - 1) : Q(j).param = P(j).param
    BY <2>2
  <2> QED BY <1>2, <1>3, <1>4, <2>2, <2>3, <2>4, Zenon
<1>9. \A k \in 1..n : Alike(P(k), Q(k))
  BY <1>2, <1>5, <1>8 DEF Alike
<1> QED BY <1>6, <1>9

\* So the router finds the endpoint the method was generated for.
LEMMA LandsOwn ==
  ASSUME Addressed, input \in Inputs, config = input.endpoints[input.followed], ~RoutesOverlap,
         \A k \in DOMAIN input.endpoints : ~Spelled(input.endpoints[k])
  PROVE  Lands(UrlPieces) = Own
<1> DEFINE f == input.followed
           E == input.endpoints
           F == {k \in DOMAIN E : MatchesRoute(E[k], UrlPieces)}
<1>1. f \in DOMAIN E /\ \A k \in DOMAIN E : E[k] \in Configs
  BY CallAssumption
<1>2. E[f] = config
  OBVIOUS
<1>3. \A j, k \in DOMAIN E : j # k => ~Clash(E[j], E[k])
  BY DEF RoutesOverlap
<1>4. \A k \in DOMAIN E : ~Spelled(E[k])
  OBVIOUS
<1>5. Lands(UrlPieces) = {k \in F : E[k].method = config.method /\ \A j \in F : ~Beats(E[j], E[k])}
  BY DEF Lands
<1>6. Own = {k \in DOMAIN E : E[k] = config}
  BY DEF Own
<1>7. f \in F /\ MatchesRoute(config, UrlPieces)
  BY <1>1, <1>2, MatchesOwn
<1>8. \A k \in F : k \in DOMAIN E /\ MatchesRoute(E[k], UrlPieces)
  OBVIOUS
<1> HIDE DEF E, F, f
<1>9. ASSUME NEW k \in F PROVE ~Beats(E[k], config)
  <2>1. E[k] \in Configs /\ MatchesRoute(E[k], UrlPieces) /\ ~Spelled(E[k])
    BY <1>1, <1>4, <1>8
  <2> QED BY <2>1, NotBeaten
<1>10. f \in Lands(UrlPieces)
  BY <1>2, <1>5, <1>7, <1>9
<1>11. ASSUME NEW k \in Lands(UrlPieces) PROVE k = f
  <2>1. k \in F /\ E[k].method = config.method /\ ~Beats(config, E[k])
    BY <1>2, <1>5, <1>7
  <2>2. E[k] \in Configs /\ MatchesRoute(E[k], UrlPieces) /\ k \in DOMAIN E
    BY <1>1, <1>8, <2>1
  <2>3. ~Beats(E[k], config)
    BY <1>9, <2>1
  <2>4. Clash(config, E[k])
    BY <2>1, <2>2, <2>3, OtherClashes
  <2> QED BY <1>1, <1>2, <1>3, <2>2, <2>4
<1>12. Clash(config, config)
  BY DEF Clash, Alike
<1>13. ASSUME NEW k \in Own PROVE k = f
  BY <1>1, <1>2, <1>3, <1>6, <1>12
<1>14. f \in Own
  BY <1>1, <1>2, <1>6
<1> QED BY <1>10, <1>11, <1>13, <1>14

\* And the handler gets each parameter as it was given.
LEMMA PathTold ==
  ASSUME Addressed, NEW i \in DOMAIN config.path
  PROVE  {Decoded(UrlPieces[Len(config.prefix) + ParamAt(config.path[i].name)])} = ParamText(config.path[i].name)
<1> DEFINE n == config.path[i].name
           k == ParamAt(n)
           p == Len(config.prefix)
           m == Len(config.segs)
<1>1. \E j \in DOMAIN config.segs : config.segs[j].param /\ config.segs[j].name = n
  <2>1. n \in {config.path[j].name : j \in DOMAIN config.path}
    OBVIOUS
  <2>2. n \in {config.segs[j].name : j \in {h \in DOMAIN config.segs : config.segs[h].param}}
    BY <2>1, RouteAssumption DEF Addressed
  <2> HIDE DEF n
  <2> QED BY <2>2
<1>2. k \in DOMAIN config.segs /\ config.segs[k].param /\ config.segs[k].name = n
  BY <1>1 DEF ParamAt
<1> HIDE DEF k, n
<1>3. /\ p \in Nat /\ m \in Nat /\ DOMAIN config.segs = 1..m
      /\ Len(Pattern(config)) = p + (IF config.segs = <<>> THEN 1 ELSE m)
      /\ config.segs # <<>> => \A j \in 1..m : Pattern(config)[p + j] = config.segs[j]
  BY PatternIs DEF Addressed
<1>4. config.segs # <<>>
  BY <1>2
<1>5. Pattern(config)[p + k] = config.segs[k] /\ k \in 1..m
  BY <1>2, <1>3, <1>4
<1>6. p + k \in 1..Len(Pattern(config))
  <2>1. PICK L : L = Len(Pattern(config)) /\ L = p + m
    BY <1>3, <1>4
  <2> HIDE DEF p, m
  <2> QED BY <1>3, <1>5, <2>1
<1>7. ParamText(n) = {Decoded(UrlPieces[p + k])}
  BY <1>2, <1>5, <1>6, ReadsSegment
<1> QED BY <1>7 DEF k, n, p
----------------------------------------------------------------------------
(* The call: its arguments, and what its steps leave. *)

\* A text for each parameter of the path.
PathGiven ==
  \A k \in DOMAIN config.path : \E v \in Displays[RustType(config.path[k].ty)] : Arg(config.path[k]) = {v}

\* The arguments of a method have one value of its type for each of them.
LEMMA ArgsAre ==
  ASSUME config \in Configs, NEW c \in Calls, NEW k \in DOMAIN config.path
  PROVE  \E v \in Displays[RustType(config.path[k].ty)] : c.args[SanitizeIdent(config.path[k].name)] = {v}
<1> DEFINE n == Len(config.path)
           p == Params
           q == config.query
           h == config.headers
           d == Declared
           options == [j \in DOMAIN d |-> Options(Texts(d[j]), d[j].optional)]
           U == ToSet(p) \cup ToSet(q) \cup ToSet(h)
<1>1. n \in Nat /\ DOMAIN config.path = 1..n
  BY ConfigAssumption DEF Listed
<1>2. p \in Seq(U) /\ Len(p) = n
  <2>1. p = [j \in 1..n |-> p[j]] /\ DOMAIN p = 1..n
    BY <1>1 DEF Params
  <2>2. \A j \in 1..n : p[j] \in U
    BY <2>1 DEF ToSet
  <2> HIDE DEF p, U, n
  <2>3. p \in Seq(U)
    BY <1>1, <2>1, <2>2, SequenceOf
  <2> QED BY <1>1, <2>1, <2>3
<1>3. p[k] = [name |-> config.path[k].name, ty |-> config.path[k].ty, optional |-> FALSE]
  BY DEF Params
<1>4. q \in Seq(U) /\ h \in Seq(U)
  <2>1. q \in Seq(ToSet(q)) /\ h \in Seq(ToSet(h))
    BY RouteAssumption
  <2> QED BY <2>1, SeqMonotonic
<1>5. d = p \o q \o h
  BY DEF Declared
<1>6. c.args \in Structs(d, options)
  BY DEF Calls, Args
<1> HIDE DEF p, q, h, d, U, options, n
<1>7. k \in DOMAIN d /\ d[k] = p[k]
  <2>1. p \o q \in Seq(U) /\ Joins(p, q, p \o q)
    BY <1>2, <1>4, ConcatIs
  <2>2. d \in Seq(U) /\ Joins(p \o q, h, d)
    BY <1>4, <1>5, <2>1, ConcatIs
  <2>3. PICK x : x = p \o q
    OBVIOUS
  <2>4. /\ Len(x) = n + Len(q) /\ Len(d) = Len(x) + Len(h) /\ Len(q) \in Nat /\ Len(h) \in Nat
        /\ k \in 1..n /\ DOMAIN d = 1..Len(d)
    BY <1>1, <1>2, <1>4, <2>1, <2>2, <2>3, LenProperties DEF Joins
  <2>5. k \in 1..Len(x) /\ k \in 1..Len(d)
    BY <1>1, <2>4
  <2>6. x[k] = p[k]
    BY <1>2, <2>1, <2>3, <2>4 DEF Joins
  <2>7. d[k] = x[k]
    BY <2>2, <2>3, <2>5 DEF Joins
  <2> QED BY <2>4, <2>5, <2>6, <2>7
<1>8. c.args[SanitizeIdent(d[k].name)] \in options[k]
  BY <1>6, <1>7, Zenon DEF Structs
<1>9. options[k] = {{v} : v \in Displays[RustType(config.path[k].ty)]}
  <2>1. d[k].optional = FALSE /\ d[k].ty = config.path[k].ty
    BY <1>3, <1>7
  <2>2. options[k] = Options(Texts(d[k]), d[k].optional)
    BY <1>7 DEF options
  <2> QED BY <2>1, <2>2 DEF Options, Texts
<1>10. d[k].name = config.path[k].name
  BY <1>3, <1>7
<1> QED BY <1>8, <1>9, <1>10

\* The call is for the endpoint that is followed; a server whose routes clash is down.
CallInv ==
  /\ input \in Inputs /\ config = input.endpoints[input.followed]
  /\ base \in {<<>>, <<Host>>}
  /\ outcome \in {"called"} \cup Answered => base # <<>> /\ PathGiven
  /\ RoutesOverlap => stage = "down"
  /\ CallArrives

\* What a call is addressed to does not change after it is made.
LEMMA CallStays ==
  ASSUME UNCHANGED <<input, config, call>>
  PROVE  /\ PathGiven' <=> PathGiven
         /\ RoutesOverlap' <=> RoutesOverlap
         /\ Addressable' <=> Addressable
         /\ Own' = Own /\ \A n : ParamText(n)' = ParamText(n)
<1>1. \A f : Arg(f)' = Arg(f)
  BY DEF Arg
<1>2. \A n : ParamText(n)' = ParamText(n)
  BY <1>1 DEF ParamText
<1>3. \A e : Spelled(e)' <=> Spelled(e)
  BY <1>2 DEF Spelled
<1>4. Addressable' <=> Addressable
  BY <1>1, <1>3 DEF Addressable
<1>5. PathGiven' <=> PathGiven
  BY <1>1 DEF PathGiven
<1> QED BY <1>2, <1>4, <1>5 DEF RoutesOverlap, Own

\* A call that is sent finds its endpoint, which gets its path values.
LEMMA SendArrives ==
  ASSUME CallInv, Send, UNCHANGED macroVars
  PROVE  CallInv'
<1>1. UNCHANGED <<input, config, call, base>> /\ outcome = "called"
  BY DEF Send, macroVars
<1>2. /\ PathGiven' <=> PathGiven
      /\ RoutesOverlap' <=> RoutesOverlap
      /\ Addressable' <=> Addressable
      /\ Own' = Own /\ \A n : ParamText(n)' = ParamText(n)
  BY <1>1, CallStays
<1>3. base # <<>> /\ PathGiven
  BY <1>1 DEF CallInv
<1>4. CASE outcome' = "error" /\ UNCHANGED <<stage, req, turn, landed>>
  <2>1. outcome' \notin {"called"} \cup Answered /\ outcome' \notin Answered
    BY <1>4 DEF Answered
  <2> QED BY <1>1, <1>2, <1>4, <2>1 DEF CallInv, CallArrives
<1>5. CASE /\ ~Unsendable /\ outcome' = "sent" /\ landed' = Lands(Segments)
           /\ IF landed' = Own THEN stage' = "extract" /\ req' = Received /\ turn' = 1
              ELSE UNCHANGED <<stage, req, turn>>
  <2>1. ~RoutesOverlap
    BY <1>5 DEF Unsendable, CallInv
  <2>2. ASSUME Addressable PROVE landed' = Own /\ \A n \in DOMAIN req'.path : {req'.path[n]} = ParamText(n)
    <3>1. config \in Configs /\ input \in Inputs /\ config = input.endpoints[input.followed]
      BY CallAssumption DEF CallInv
    <3>2. Addressed
      <4> SUFFICES ASSUME NEW k \in DOMAIN config.path
                   PROVE  \E v : Text(v) /\ Plain(v) /\ Arg(config.path[k]) = {v}
        BY <3>1 DEF Addressed
      <4>1. PICK v \in Displays[RustType(config.path[k].ty)] : Arg(config.path[k]) = {v}
        BY <1>3 DEF PathGiven
      <4>2. Text(v)
        BY <3>1, <4>1, RouteAssumption
      <4>3. Plain(v)
        BY <2>2, <4>1 DEF Addressable
      <4> QED BY <4>1, <4>2, <4>3
    <3>3. Segments = UrlPieces
      BY <1>3, <3>2, SegmentsAre DEF CallInv
    <3>4. Lands(UrlPieces) = Own
      BY <2>1, <2>2, <3>1, <3>2, LandsOwn DEF Addressable
    <3>5. landed' = Own /\ req' = Received
      BY <1>5, <3>3, <3>4
    <3>6. Received.path = [n \in {config.path[k].name : k \in DOMAIN config.path} |->
                             Decoded(UrlPieces[Len(config.prefix) + ParamAt(n)])]
      BY <3>3 DEF Received
    <3>7. ASSUME NEW n \in DOMAIN Received.path PROVE {Received.path[n]} = ParamText(n)
      <4>1. PICK k \in DOMAIN config.path : n = config.path[k].name
        BY <3>6
      <4>2. Received.path[n] = Decoded(UrlPieces[Len(config.prefix) + ParamAt(n)])
        BY <3>6
      <4> QED BY <3>2, <4>1, <4>2, PathTold
    <3> QED BY <3>5, <3>7
  <2>3. CallArrives'
    BY <1>2, <2>2, Zenon DEF CallArrives
  <2> QED BY <1>1, <1>2, <1>3, <2>1, <2>3 DEF CallInv
<1> QED BY <1>4, <1>5 DEF Send

\* Another step leaves what has arrived.
LEMMA OtherStepKeeps ==
  ASSUME CallInv, UNCHANGED <<input, config, req>>, stage = "down" => stage' = "down",
         UNCHANGED <<base, call, landed>>,
         outcome' \in {"called"} \cup Answered => outcome \in {"called"} \cup Answered,
         outcome' \in Answered => outcome \in Answered
  PROVE  CallInv'
<1>1. /\ PathGiven' <=> PathGiven
      /\ RoutesOverlap' <=> RoutesOverlap
      /\ Addressable' <=> Addressable
      /\ Own' = Own /\ \A n : ParamText(n)' = ParamText(n)
  BY CallStays
<1>2. CallArrives'
  BY <1>1, Zenon DEF CallInv, CallArrives
<1> QED BY <1>1, <1>2, Zenon DEF CallInv

----------------------------------------------------------------------------
(* The body: the fields that are given are those that arrive. *)

\* The fields of a body that are given, in their order.
LEMMA GivenIs ==
  ASSUME NEW fields, NamedOnce(fields)
  PROVE  \E n \in Nat :
           /\ DOMAIN GivenBody(fields) = 1..n
           /\ \A i \in 1..n : \E k \in BodyGiven(fields) : GivenBody(fields)[i] = fields[k]
           /\ \A k \in BodyGiven(fields) : \E i \in 1..n : GivenBody(fields)[i] = fields[k]
           /\ \A i, j \in 1..n : GivenBody(fields)[i].name = GivenBody(fields)[j].name => i = j
<1> DEFINE S == BodyGiven(fields)
           m == Len(fields)
           at == Spaced(S, 1, m)
           g == [k \in DOMAIN at |-> fields[at[k]]]
<1>1. m \in Nat /\ DOMAIN fields = 1..m /\ S \subseteq 1..m
  BY DEF NamedOnce, Listed, BodyGiven
<1>2. \A j, k \in 1..m : fields[j].name = fields[k].name => j = k
  BY <1>1 DEF NamedOnce
<1>3. GivenBody(fields) = g
  BY DEF GivenBody
<1>4. Scan(S, 1, m, at)
  BY <1>1, SpacedIs
<1> HIDE DEF S, m, at
<1>5. at \in Seq(1..m) /\ Len(at) \in Nat /\ \A k \in 1..Len(at) : at[k] \in 1..m
  BY <1>1, <1>4, ScanIs
<1>6. DOMAIN at = 1..Len(at)
  BY <1>5
<1>7. DOMAIN g = 1..Len(at) /\ \A i \in 1..Len(at) : g[i] = fields[at[i]]
  BY <1>6
<1> HIDE DEF g
<1>8. \A i \in 1..Len(at) : at[i] \in S
  BY <1>4 DEF Scan
<1>9. ASSUME NEW k \in S PROVE \E i \in 1..Len(at) : at[i] = k
  <2>1. k \in 1..m
    BY <1>1
  <2>2. PICK i \in 1..Len(at) : at[i] =< k /\ k < at[i] + 1
    BY <1>4, <2>1 DEF Scan
  <2>3. at[i] \in 1..m
    BY <1>5
  <2>4. at[i] = k
    BY <1>1, <2>1, <2>2, <2>3
  <2> QED BY <2>4
<1>10. ASSUME NEW i \in 1..Len(at), NEW j \in 1..Len(at), at[i] = at[j] PROVE i = j
  <2>1. \A a, b \in 1..Len(at) : a < b => at[a] + 1 =< at[b]
    BY <1>4 DEF Scan
  <2>2. at[i] \in Nat
    BY <1>5
  <2>3. ~(i < j) /\ ~(j < i)
    BY <1>10, <2>1, <2>2
  <2> QED BY <1>5, <2>3
<1>11. ASSUME NEW i \in 1..Len(at), NEW j \in 1..Len(at), g[i].name = g[j].name PROVE i = j
  <2>1. fields[at[i]].name = fields[at[j]].name
    BY <1>7, <1>11
  <2>2. at[i] = at[j]
    BY <1>2, <1>5, <2>1
  <2> QED BY <1>10, <2>2
<1>12. \A i \in 1..Len(at) : \E k \in S : g[i] = fields[k]
  BY <1>7, <1>8
<1>13. \A k \in S : \E i \in 1..Len(at) : g[i] = fields[k]
  BY <1>7, <1>9
<1> DEFINE n == Len(at)
<1>14. n \in Nat /\ DOMAIN GivenBody(fields) = 1..n
  BY <1>3, <1>5, <1>7
<1>15. /\ \A i \in 1..n : \E k \in S : GivenBody(fields)[i] = fields[k]
       /\ \A k \in S : \E i \in 1..n : GivenBody(fields)[i] = fields[k]
       /\ \A i, j \in 1..n : GivenBody(fields)[i].name = GivenBody(fields)[j].name => i = j
  BY <1>3, <1>11, <1>12, <1>13
<1> HIDE DEF n
<1> QED BY <1>14, <1>15 DEF S

\* A form or a query gives back what it was made of.
LEMMA FormReads ==
  ASSUME NEW v, Text(v)
  PROVE  FormDecode(FormEncode(v)) = v
<1> DEFINE w == FormEncode(v)
           r == FormDecode(w)
           C(k) == [ch |-> v[k], esc |-> v[k] \notin FormSafe]
<1>1. v \in Seq(ToSet(v))
  BY DEF Text
<1>2. v = [k \in DOMAIN v |-> v[k]]
  BY <1>1
<1>3. DOMAIN w = DOMAIN v /\ \A k \in DOMAIN v : w[k] = IF v[k] = " " THEN Raw("+") ELSE C(k)
  BY DEF FormEncode
<1>4. r = [k \in DOMAIN w |-> IF w[k] = Raw("+") THEN " " ELSE w[k].ch]
  BY DEF FormDecode
<1> HIDE DEF w, r
<1>5. ASSUME NEW k \in DOMAIN v, v[k] # " " PROVE C(k) # Raw("+") /\ C(k).ch = v[k]
  <2>1. "+" \notin FormSafe
    BY ValueAssumption
  <2> QED BY <2>1 DEF Raw
<1>6. ASSUME NEW k \in DOMAIN v PROVE r[k] = v[k]
  <2>1. r[k] = IF w[k] = Raw("+") THEN " " ELSE w[k].ch
    BY <1>3, <1>4
  <2>2. CASE v[k] = " "
    BY <1>3, <2>1, <2>2
  <2>3. CASE v[k] # " "
    <3>1. w[k] = C(k)
      BY <1>3, <2>3
    <3> HIDE DEF C
    <3> QED BY <1>5, <2>1, <2>3, <3>1
  <2> QED BY <2>2, <2>3
<1>7. DOMAIN r = DOMAIN v /\ r = [k \in DOMAIN r |-> r[k]]
  BY <1>3, <1>4
<1>8. r = v
  BY <1>2, <1>6, <1>7
<1> QED BY <1>8 DEF r, w

\* One and two elements of a sequence.
LEMMA CutOne ==
  ASSUME NEW U, NEW s \in Seq(U), NEW i \in 1..Len(s)
  PROVE  SubSeq(s, i, i) = <<s[i]>>
<1>1. s[i] \in U /\ i \in Int
  OBVIOUS
<1>2. \A j \in i..i : s[j] \in U
  BY <1>1
<1>3. /\ SubSeq(s, i, i) \in Seq(U)
      /\ Len(SubSeq(s, i, i)) = (IF i <= i THEN i - i + 1 ELSE 0)
      /\ \A j \in 1..(i - i + 1) : SubSeq(s, i, i)[j] = s[i + j - 1]
  BY <1>1, <1>2, SubSeqProperties
<1>4. PICK x : x = SubSeq(s, i, i)
  OBVIOUS
<1>5. x \in Seq(U) /\ Len(x) = 1 /\ x[1] = s[i]
  <2>1. i - i + 1 = 1 /\ i <= i /\ i + 1 - 1 = i /\ 1 \in 1..1
    BY <1>1
  <2> QED BY <1>3, <1>4, <2>1
<1>6. \A a : a \in U => <<a>> \in Seq(U) /\ Len(<<a>>) = 1 /\ <<a>>[1] = a
  OBVIOUS
<1>7. x = <<s[i]>>
  BY <1>1, <1>5, <1>6, SeqEqual
<1> QED BY <1>4, <1>7

LEMMA CutTwo ==
  ASSUME NEW U, NEW s \in Seq(U), NEW i \in Nat \ {0}, i + 1 =< Len(s)
  PROVE  SubSeq(s, i, i + 1) = <<s[i], s[i + 1]>>
<1>1. s[i] \in U /\ s[i + 1] \in U /\ i \in Int /\ i + 1 \in Int
  OBVIOUS
<1>2. \A j \in i..(i + 1) : s[j] \in U
  OBVIOUS
<1>3. /\ SubSeq(s, i, i + 1) \in Seq(U)
      /\ Len(SubSeq(s, i, i + 1)) = (IF i <= i + 1 THEN i + 1 - i + 1 ELSE 0)
      /\ \A j \in 1..(i + 1 - i + 1) : SubSeq(s, i, i + 1)[j] = s[i + j - 1]
  BY <1>1, <1>2, SubSeqProperties
<1>4. PICK x : x = SubSeq(s, i, i + 1)
  OBVIOUS
<1>5. x \in Seq(U) /\ Len(x) = 2 /\ x[1] = s[i] /\ x[2] = s[i + 1]
  <2>1. i + 1 - i + 1 = 2 /\ i <= i + 1 /\ i + 1 - 1 = i /\ i + 2 - 1 = i + 1 /\ 1 \in 1..2 /\ 2 \in 1..2
    OBVIOUS
  <2> QED BY <1>3, <1>4, <2>1
<1>6. PICK y : y = <<s[i], s[i + 1]>>
  OBVIOUS
<1>7. y \in Seq(U) /\ Len(y) = 2 /\ y[1] = s[i] /\ y[2] = s[i + 1]
  BY <1>1, <1>6, TwoIs
<1>8. \A j \in 1..2 : j = 1 \/ j = 2
  OBVIOUS
<1>9. x = y
  BY <1>5, <1>7, <1>8, SeqEqual
<1> QED BY <1>4, <1>6, <1>9

\* A media type and its one attribute.
LEMMA OneAttribute ==
  ASSUME NEW U, NEW a \in U, NEW b \in U, NEW c \in U, NEW d \in U, a # b, c # b, d # b
  PROVE  SplitAtAny(<<a, b, c, d>>, {b}) = <<<<a>>, <<c, d>>>>
<1>1. PICK s : s = <<a, b, c, d>>
  OBVIOUS
<1>2. s \in Seq(U) /\ Len(s) = 4 /\ s[1] = a /\ s[2] = b /\ s[3] = c /\ s[4] = d
  BY <1>1, FourIs
<1>3. \A i \in 1..Len(s) : i # 2 => s[i] \notin {b}
  BY <1>2
<1>4. 2 \in 1..Len(s) /\ s[2] \in {b} /\ 1 \in 1..Len(s)
  BY <1>2
<1>5. SplitAtAny(s, {b}) = <<SubSeq(s, 1, 2 - 1), SubSeq(s, 2 + 1, Len(s))>>
  <2>1. PICK S : S = {b}
    OBVIOUS
  <2> QED BY <1>2, <1>3, <1>4, <2>1, TwoPieces
<1>6. 2 - 1 = 1 /\ 2 + 1 = 3 /\ Len(s) = 4 /\ 3 + 1 = 4 /\ 3 \in Nat \ {0} /\ 4 =< Len(s)
  BY <1>2
<1>7. SubSeq(s, 1, 1) = <<a>>
  BY <1>2, <1>4, CutOne
<1>8. SubSeq(s, 3, 4) = <<c, d>>
  BY <1>2, <1>6, CutTwo
<1> QED BY <1>1, <1>5, <1>6, <1>7, <1>8

MediaType == "multipart/form-data"
BoundaryKey == "boundary="
Fresh == "fresh"

\* The boundary of a form's content type.
LEMMA BoundaryIs == Boundary(Boundaried) = {<<"--", "fresh">>}
<1> DEFINE U == {MediaType, Semi, BoundaryKey, Fresh}
           attrs == SplitAtAny(Boundaried, {";"})
<1>1. MediaType # Semi /\ BoundaryKey # Semi /\ Fresh # Semi /\ MediaType # BoundaryKey
  BY DEF MediaType, Semi, BoundaryKey, Fresh
<1>2. Boundaried = <<MediaType, Semi, BoundaryKey, Fresh>>
  BY DEF Boundaried, MediaType, Semi, BoundaryKey, Fresh
<1>3. {";"} = {Semi}
  BY DEF Semi
<1>4. attrs = <<<<MediaType>>, <<BoundaryKey, Fresh>>>>
  <2>1. MediaType \in U /\ Semi \in U /\ BoundaryKey \in U /\ Fresh \in U
    OBVIOUS
  <2> HIDE DEF U
  <2>2. SplitAtAny(<<MediaType, Semi, BoundaryKey, Fresh>>, {Semi}) = <<<<MediaType>>, <<BoundaryKey, Fresh>>>>
    BY <1>1, <2>1, OneAttribute
  <2> QED BY <1>2, <1>3, <2>2, Zenon
<1>5. Head(Boundaried) = MediaType
  <2>1. \A a, b, c, d : Head(<<a, b, c, d>>) = a
    OBVIOUS
  <2> QED BY <1>2, <2>1
<1>6. DOMAIN attrs = {1, 2} /\ attrs[1] = <<MediaType>> /\ attrs[2] = <<BoundaryKey, Fresh>>
  <2>1. \A a, b : DOMAIN <<a, b>> = {1, 2} /\ <<a, b>>[1] = a /\ <<a, b>>[2] = b
    OBVIOUS
  <2> HIDE DEF attrs
  <2> QED BY <1>4, <2>1
<1> HIDE DEF attrs
<1>7. /\ attrs[1] # <<>> /\ Head(attrs[1]) = MediaType
      /\ attrs[2] # <<>> /\ Head(attrs[2]) = BoundaryKey /\ Len(attrs[2]) = 2 /\ Tail(attrs[2]) = <<Fresh>>
  <2>1. \A a : <<a>> # <<>> /\ Head(<<a>>) = a
    OBVIOUS
  <2>2. \A a, b : <<a, b>> # <<>> /\ Head(<<a, b>>) = a /\ Len(<<a, b>>) = 2 /\ Tail(<<a, b>>) = <<b>>
    OBVIOUS
  <2> QED BY <1>6, <2>1, <2>2
<1>8. Of(attrs, BoundaryKey) = {2}
  BY <1>1, <1>6, <1>7 DEF Of
<1>9. {k \in Of(attrs, BoundaryKey) \ {1} : Len(attrs[k]) > 1} = {2}
  BY <1>7, <1>8
<1>10. {j \in {2} : Head(Boundaried) = MediaType /\ \A i \in {2} : j =< i} = {2}
  BY <1>5
<1>11. Boundary(Boundaried) = {<<"--">> \o Tail(attrs[k]) : k \in
          {j \in {k \in Of(attrs, BoundaryKey) \ {1} : Len(attrs[k]) > 1} : Head(Boundaried) = MediaType
             /\ \A i \in {k \in Of(attrs, BoundaryKey) \ {1} : Len(attrs[k]) > 1} : j =< i}}
  BY Zenon DEF Boundary, attrs, BoundaryKey, MediaType
<1>12. Boundary(Boundaried) = {<<"--">> \o <<Fresh>>}
  <2>1. Boundary(Boundaried) = {<<"--">> \o Tail(attrs[k]) : k \in
          {j \in {2} : Head(Boundaried) = MediaType /\ \A i \in {2} : j =< i}}
    BY <1>9, <1>11
  <2>2. Boundary(Boundaried) = {<<"--">> \o Tail(attrs[k]) : k \in {2}}
    BY <1>10, <2>1
  <2>3. {<<"--">> \o Tail(attrs[k]) : k \in {2}} = {<<"--">> \o Tail(attrs[2])}
    OBVIOUS
  <2> QED BY <1>7, <2>2, <2>3
<1>13. ASSUME NEW a, NEW b PROVE <<a>> \o <<b>> = <<a, b>>
  <2> DEFINE V == {a, b}
  <2>1. a \in V /\ b \in V
    OBVIOUS
  <2> HIDE DEF V
  <2>2. <<a>> \in Seq(V) /\ <<b>> \in Seq(V) /\ Len(<<a>>) = 1 /\ Len(<<b>>) = 1 /\ <<a>>[1] = a /\ <<b>>[1] = b
    BY <2>1
  <2>3. PICK x : x = <<a>> \o <<b>>
    OBVIOUS
  <2>4. x \in Seq(V) /\ Len(x) = 2 /\ x[1] = a /\ x[2] = b
    <3>1. PICK s : s = <<a>>
      OBVIOUS
    <3>2. PICK t : t = <<b>>
      OBVIOUS
    <3>3. s \in Seq(V) /\ t \in Seq(V) /\ Len(s) = 1 /\ Len(t) = 1 /\ s[1] = a /\ t[1] = b /\ x = s \o t
      BY <2>2, <2>3, <3>1, <3>2
    <3>4. x \in Seq(V) /\ Joins(s, t, x)
      BY <3>3, ConcatIs
    <3> QED BY <3>3, <3>4 DEF Joins
  <2>5. PICK y : y = <<a, b>>
    OBVIOUS
  <2>6. y \in Seq(V) /\ Len(y) = 2 /\ y[1] = a /\ y[2] = b
    BY <2>1, <2>5, TwoIs
  <2>7. x = y
    <3>1. \A i \in 1..2 : i = 1 \/ i = 2
      OBVIOUS
    <3> QED BY <2>4, <2>6, <3>1, SeqEqual
  <2> QED BY <2>3, <2>5, <2>7
<1> QED BY <1>12, <1>13 DEF Fresh

\* Each body field has no value, if it is optional, or a list of its own.
LEMMA BodyArgsAre ==
  ASSUME HasFields(config), call \in Calls, NEW k \in DOMAIN config.body.fields
  PROVE  LET f == config.body.fields[k] IN
         \/ f.optional /\ BodyArg(f) = {}
         \/ \E l \in Lists(f) : BodyArg(f) = {l}
<1> DEFINE fields == config.body.fields
           options == [j \in DOMAIN fields |-> Options(Lists(fields[j]), fields[j].optional)]
<1>1. call.body \in Structs(fields, options)
  <2>1. call.body \in Bodies
    BY DEF Calls
  <2>2. /\ config.body.kind \notin {"none", "string", "binary"}
        /\ ~(config.body.kind = "json" /\ ~config.body.typed)
    BY DEF HasFields
  <2>3. Bodies = Structs(fields, options)
    BY <2>2 DEF Bodies
  <2> QED BY <2>1, <2>3
<1>2. call.body[SanitizeIdent(fields[k].name)] \in options[k]
  <2> HIDE DEF options
  <2> QED BY <1>1, Zenon DEF Structs
<1>3. options[k] = Options(Lists(fields[k]), fields[k].optional)
  OBVIOUS
<1>4. BodyArg(fields[k]) \in Options(Lists(fields[k]), fields[k].optional)
  BY <1>2, <1>3 DEF BodyArg
<1> HIDE DEF options, fields
<1>5. \/ \E l \in Lists(fields[k]) : BodyArg(fields[k]) = {l}
      \/ fields[k].optional /\ BodyArg(fields[k]) = {}
  BY <1>4 DEF Options
<1> QED BY <1>5 DEF fields

\* So a field that is given has one list,
LEMMA ListIs ==
  ASSUME HasFields(config), call \in Calls, NEW k \in BodyGiven(config.body.fields)
  PROVE  /\ k \in DOMAIN config.body.fields
         /\ ListOf(config.body.fields[k]) \in Lists(config.body.fields[k])
         /\ BodyArg(config.body.fields[k]) = {ListOf(config.body.fields[k])}
<1> DEFINE f == config.body.fields[k]
<1>1. k \in DOMAIN config.body.fields /\ BodyArg(f) # {}
  BY DEF BodyGiven
<1>2. PICK l \in Lists(f) : BodyArg(f) = {l}
  BY <1>1, BodyArgsAre
<1>3. ListOf(f) = l
  <2>1. \A x : (CHOOSE v \in {x} : TRUE) = x
    OBVIOUS
  <2> QED BY <1>2, <2>1 DEF ListOf
<1> QED BY <1>1, <1>2, <1>3

\* and a field of a form one value of its type.
LEMMA HeadIs ==
  ASSUME config.body.kind = "form", call \in Calls, NEW k \in BodyGiven(config.body.fields)
  PROVE  LET f == config.body.fields[k] IN
         \E v \in Texts(f) : ListOf(f) = <<v>> /\ Head(ListOf(f)) = v
<1> DEFINE f == config.body.fields[k]
<1>1. ListOf(f) \in Lists(f)
  BY ListIs DEF HasFields
<1>2. Lists(f) = {<<v>> : v \in Texts(f)}
  BY DEF Lists
<1>3. PICK v \in Texts(f) : ListOf(f) = <<v>>
  BY <1>1, <1>2
<1>4. \A x : Head(<<x>>) = x
  OBVIOUS
<1> QED BY <1>3, <1>4

\* What is found stands there.
LEMMA StandsThere ==
  ASSUME NEW V, NEW s \in Seq(V), NEW d \in Seq(V), Len(d) # 0, NEW j \in Found(s, d)
  PROVE  j \in 1..(Len(s) + 1 - Len(d)) /\ \A i \in 1..Len(d) : s[j + i - 1] = d[i]
<1>1. j \in 1..(Len(s) + 1 - Len(d))
  BY DEF Found
<1>2. \A i \in 1..Len(d) : s[j + i - 1] = d[i]
  BY <1>1, FoundIs
<1> QED BY <1>1, <1>2

\* What ends with something that a text does not have is not found there.
LEMMA NotFoundIn ==
  ASSUME NEW V, NEW s \in Seq(V), NEW d \in Seq(V), Len(d) # 0,
         \A i \in 1..Len(s) : s[i] # d[Len(d)]
  PROVE  Found(s, d) = {}
<1>1. ASSUME NEW j \in Found(s, d) PROVE FALSE
  <2>1. j \in 1..(Len(s) + 1 - Len(d)) /\ \A i \in 1..Len(d) : s[j + i - 1] = d[i]
    BY StandsThere
  <2>2. Len(d) \in 1..Len(d) /\ j + Len(d) - 1 \in 1..Len(s)
    BY <2>1
  <2> QED BY <2>1, <2>2
<1> QED BY <1>1

LEMMA NotFound ==
  ASSUME NEW U, NEW s \in Seq(U), NEW a, NEW b, b \notin U
  PROVE  Found(s, <<a, b>>) = {}
<1> DEFINE V == U \cup {a, b}
<1>1. s \in Seq(V) /\ \A i \in 1..Len(s) : s[i] # b
  <2>1. U \subseteq V
    OBVIOUS
  <2> HIDE DEF V
  <2> QED BY <2>1, SeqMonotonic, ElementOfSeq
<1>2. a \in V /\ b \in V
  OBVIOUS
<1> HIDE DEF V
<1>3. <<a, b>> \in Seq(V) /\ Len(<<a, b>>) = 2 /\ <<a, b>>[2] = b
  BY <1>2, TwoIs
<1>4. Len(<<a, b>>) # 0 /\ \A i \in 1..Len(s) : s[i] # <<a, b>>[Len(<<a, b>>)]
  BY <1>1, <1>3
<1>5. <<a, b>> \in Seq(V)
  BY <1>3
<1> QED BY <1>1, <1>4, <1>5, NotFoundIn

Delimiter == <<"--", "fresh">>
Parts == [k \in DOMAIN GivenBody(config.body.fields) |-> MultipartPiece(GivenBody(config.body.fields)[k])]

\* What a call needs of its form for the server to read it.
Asked == config \in Configs /\ call \in Calls

\* A part of a multipart form is one that its body can carry.
LEMMA PartCarried ==
  ASSUME Asked, IsMultipart(config), Legible, NEW k \in BodyGiven(config.body.fields)
  PROVE  LET p == MultipartPiece(config.body.fields[k]) IN
         /\ Text(p.name) /\ Text(p.file) /\ Text(p.data)
         /\ {CRLF, ";"} \cap ToSet(p.name) = {} /\ CRLF \notin ToSet(p.file)
         /\ Found(Disposition(p), Delimiter) = {} /\ Found(p.data, Delimiter) = {}
         /\ ~Misread(p)
<1> DEFINE f == config.body.fields[k]
           p == MultipartPiece(f)
           U == Marks \cup ToSet(p.name) \cup ToSet(p.file) \cup ToSet(p.data)
<1>1. config.body.kind = "form" /\ k \in DOMAIN config.body.fields
  BY DEF IsMultipart, BodyGiven
<1>2. PICK v \in Texts(f) : Head(ListOf(f)) = v
  BY <1>1, HeadIs DEF Asked
<1>3. p.name = f.name /\ p.data = v /\ p.file = IF f.ty = "binary" THEN call.file ELSE <<>>
  BY <1>2 DEF MultipartPiece
<1>4. NewTo(f.name) /\ CRLF \notin ToSet(f.name) /\ NewTo(v)
  BY <1>1, ValueAssumption DEF Asked, Texts
<1>5. call.file \in FileNames
  BY DEF Asked, Calls
<1>6. NewTo(p.file) /\ CRLF \notin ToSet(p.file) /\ ~Misread(p)
  <2>1. CASE f.ty = "binary"
    <3>1. p.file = call.file
      BY <1>3, <2>1
    <3>2. ~Misread(p)
      BY <3>1 DEF Legible, Misread
    <3> QED BY <1>5, <3>1, <3>2, ValueAssumption
  <2>2. CASE f.ty # "binary"
    <3>1. p.file = <<>>
      BY <1>3, <2>2
    <3>2. ToSet(<<>>) = {} /\ <<>> \in Seq({})
      BY DEF ToSet
    <3>3. NewTo(<<>>)
      BY <3>2 DEF NewTo, Text
    <3>4. ~Misread(p)
      BY <3>1, <3>2, NotFound DEF Misread
    <3> QED BY <3>1, <3>2, <3>3, <3>4
  <2> QED BY <2>1, <2>2
<1>7. ";" \notin ToSet(f.name)
  BY <1>1 DEF Legible
<1>8. /\ Text(p.name) /\ Text(p.file) /\ Text(p.data)
      /\ {CRLF, ";"} \cap ToSet(p.name) = {} /\ CRLF \notin ToSet(p.file)
      /\ "fresh" \notin ToSet(p.name) /\ "fresh" \notin ToSet(p.file) /\ "fresh" \notin ToSet(p.data)
  BY <1>3, <1>4, <1>6, <1>7 DEF NewTo
<1> HIDE DEF p
<1>9. "fresh" \notin U
  <2>1. "fresh" \notin Marks
    BY DEF Marks, CRLF
  <2> QED BY <1>8, <2>1
<1>10. Marks \subseteq U /\ ToSet(p.name) \subseteq U /\ ToSet(p.file) \subseteq U /\ ToSet(p.data) \subseteq U
  OBVIOUS
<1> HIDE DEF U
<1>11. Sendable(p, U) /\ p.data \in Seq(U)
  <2>1. p.name \in Seq(U) /\ \A i \in 1..Len(p.name) : p.name[i] \in ToSet(p.name)
    BY <1>8, <1>10, TextIn
  <2>2. p.file \in Seq(U) /\ \A i \in 1..Len(p.file) : p.file[i] \in ToSet(p.file)
    BY <1>8, <1>10, TextIn
  <2>3. p.data \in Seq(U)
    BY <1>8, <1>10, TextIn
  <2>4. \A i \in 1..Len(p.name) : p.name[i] \notin {CRLF, ";"}
    BY <1>8, <2>1
  <2>5. \A i \in 1..Len(p.file) : p.file[i] # CRLF
    BY <1>8, <2>2
  <2> QED BY <1>10, <2>1, <2>2, <2>3, <2>4, <2>5, Zenon DEF Sendable
<1>12. Found(Disposition(p), Delimiter) = {} /\ Found(p.data, Delimiter) = {}
  <2>1. Disposition(p) \in Seq(U)
    BY <1>11, DispositionIs
  <2>2. Found(Disposition(p), <<"--", "fresh">>) = {}
    BY <1>9, <2>1, NotFound
  <2>3. Found(p.data, <<"--", "fresh">>) = {}
    BY <1>9, <1>11, NotFound
  <2> QED BY <2>2, <2>3 DEF Delimiter
<1> QED BY <1>6, <1>8, <1>12 DEF p

\* So the body of the call is such a form.
LEMMA FormIsSent ==
  ASSUME Asked, IsMultipart(config), Legible, req.body = SentBody
  PROVE  LET s == [form |-> Parts, delim |-> Delimiter] IN
         SentForm(s) /\ \A k \in DOMAIN s.form : ~Misread(s.form[k])
<1> DEFINE fields == config.body.fields
           s == [form |-> Parts, delim |-> Delimiter]
<1>1. config.body.kind = "form" /\ NamedOnce(fields)
  BY ConfigAssumption DEF Asked, IsMultipart
<1>2. PICK n \in Nat :
           /\ DOMAIN GivenBody(fields) = 1..n
           /\ \A i \in 1..n : \E k \in BodyGiven(fields) : GivenBody(fields)[i] = fields[k]
  BY <1>1, GivenIs
<1>3. s.form = Parts /\ s.delim = Delimiter
  OBVIOUS
<1>4. DOMAIN Parts = 1..n /\ \A i \in 1..n : \E k \in BodyGiven(fields) : Parts[i] = MultipartPiece(fields[k])
  BY <1>2 DEF Parts
<1>5. Len(Parts) = n /\ Listed(Parts)
  <2>1. Parts = [i \in 1..n |-> Parts[i]]
    BY <1>2 DEF Parts
  <2>2. Len(Parts) = n
    BY <1>2, <2>1
  <2> QED BY <1>4, <2>2 DEF Listed
<1>6. Text(Delimiter) /\ Len(Delimiter) >= 2 /\ CRLF \notin ToSet(Delimiter)
  <2>1. ASSUME NEW a, NEW b PROVE ToSet(<<a, b>>) = {a, b} /\ <<a, b>> \in Seq({a, b}) /\ Len(<<a, b>>) = 2
    BY <2>1 DEF ToSet
  <2> QED BY <2>1 DEF Text, Delimiter, CRLF
<1>7. Carries(s) /\ \A k \in DOMAIN Parts : ~Misread(Parts[k])
  <2> HIDE DEF s, fields
  <2>1. ASSUME NEW i \in DOMAIN Parts
        PROVE  LET p == Parts[i] IN
               /\ Text(p.name) /\ Text(p.file) /\ Text(p.data)
               /\ {CRLF, ";"} \cap ToSet(p.name) = {} /\ CRLF \notin ToSet(p.file)
               /\ Found(Disposition(p), Delimiter) = {} /\ Found(p.data, Delimiter) = {}
               /\ ~Misread(p)
    <3>1. PICK k \in BodyGiven(fields) : Parts[i] = MultipartPiece(fields[k])
      BY <1>4
    <3> QED BY <3>1, PartCarried DEF fields
  <2> QED BY <1>3, <1>5, <1>6, <2>1 DEF Carries
<1>8. req.body = FormBody(Boundaried, Encode(Parts, Delimiter), {s})
  BY <1>1 DEF SentBody, MultipartBody, Parts, Delimiter
<1>9. Boundary(Boundaried) = {Delimiter}
  BY BoundaryIs DEF Delimiter
<1>10. \A x : (CHOOSE b \in {x} : TRUE) = x /\ {x} # {}
  OBVIOUS
<1> HIDE DEF s, fields
<1>11. req.body.multipart /\ req.body.parts = Split(Encode(Parts, Delimiter), Delimiter)
  <2> DEFINE B == Boundary(Boundaried)
  <2>1. /\ req.body.multipart = (B # {})
        /\ req.body.parts = IF B = {} THEN <<>> ELSE Split(Encode(Parts, Delimiter), CHOOSE b \in B : TRUE)
    BY <1>8 DEF FormBody
  <2>2. B # {} /\ (CHOOSE b \in B : TRUE) = Delimiter
    BY <1>9, <1>10
  <2> HIDE DEF B
  <2> QED BY <2>1, <2>2
<1> QED BY <1>3, <1>7, <1>11 DEF SentForm, s

\* The form that the server reads is the form of the call.
FormTold(fields) ==
  /\ req.body.multipart <=> IsMultipart(config)
  /\ DOMAIN ParsedForm(fields) = {fields[k].name : k \in BodyGiven(fields)}
  /\ \A k \in BodyGiven(fields) : ParsedForm(fields)[fields[k].name].value = Head(ListOf(fields[k]))
  /\ \A n \in DOMAIN ParsedForm(fields) : ParsedForm(fields)[n].binary <=> n \in FormNames(fields, {"binary"})
  /\ \A j \in DOMAIN req.body.parts : ~PartBad(req.body.parts[j], fields)

LEMMA MultipartTold ==
  ASSUME Asked, IsMultipart(config), Legible, req.body = SentBody
  PROVE  FormTold(config.body.fields)
<1> DEFINE fields == config.body.fields
           s == [form |-> Parts, delim |-> Delimiter]
           G == BodyGiven(fields)
           given == GivenBody(fields)
<1>1. config.body.kind = "form" /\ NamedOnce(fields)
  BY ConfigAssumption DEF Asked, IsMultipart
<1>2. PICK n \in Nat :
           /\ DOMAIN given = 1..n
           /\ \A i \in 1..n : \E k \in G : given[i] = fields[k]
           /\ \A k \in G : \E i \in 1..n : given[i] = fields[k]
           /\ \A i, j \in 1..n : given[i].name = given[j].name => i = j
  BY <1>1, GivenIs
<1>3. SentForm(s) /\ \A k \in DOMAIN s.form : ~Misread(s.form[k])
  BY FormIsSent
<1>4. s.form = Parts
  OBVIOUS
<1> HIDE DEF s
<1>5. /\ req.body.multipart
      /\ DOMAIN req.body.parts = DOMAIN Parts
      /\ \A k \in DOMAIN Parts : req.body.parts[k] = Told(Parts[k])
      /\ DOMAIN ParsedForm(fields) = SentNames(Parts)
      /\ \A m \in SentNames(Parts) :
           /\ ParsedForm(fields)[m].value = LastSent(Parts, m)
           /\ ParsedForm(fields)[m].binary <=> m \in FormNames(fields, {"binary"})
  <2> HIDE DEF fields
  <2>1. /\ req.body.multipart
        /\ DOMAIN req.body.parts = DOMAIN s.form
        /\ \A k \in DOMAIN s.form : req.body.parts[k] = Told(s.form[k])
        /\ DOMAIN ParsedForm(fields) = SentNames(s.form)
        /\ \A m \in SentNames(s.form) :
             /\ ParsedForm(fields)[m].value = LastSent(s.form, m)
             /\ ParsedForm(fields)[m].binary <=> m \in FormNames(fields, {"binary"})
    BY <1>3, FormAsSent
  <2> QED BY <1>4, <2>1
<1>6. DOMAIN Parts = 1..n /\ \A i \in 1..n : Parts[i] = MultipartPiece(given[i])
  BY <1>2 DEF Parts
<1>7. \A i \in 1..n : Parts[i].name = given[i].name /\ Parts[i].data = Head(ListOf(given[i]))
  <2>1. \A f : MultipartPiece(f).name = f.name /\ MultipartPiece(f).data = Head(ListOf(f))
    BY DEF MultipartPiece
  <2> QED BY <1>6, <2>1
<1>8. G \subseteq DOMAIN fields
  BY DEF BodyGiven
<1> HIDE DEF given, G, fields
<1>9. SentNames(Parts) = {fields[k].name : k \in G}
  <2>1. SentNames(Parts) = {given[i].name : i \in 1..n}
    BY <1>6, <1>7 DEF SentNames
  <2>2. ASSUME NEW x \in {given[i].name : i \in 1..n} PROVE x \in {fields[k].name : k \in G}
    BY <1>2
  <2>3. ASSUME NEW x \in {fields[k].name : k \in G} PROVE x \in {given[i].name : i \in 1..n}
    <3>1. PICK k \in G : x = fields[k].name
      OBVIOUS
    <3>2. PICK i \in 1..n : given[i] = fields[k]
      BY <1>2
    <3>3. x = given[i].name
      BY <3>1, <3>2
    <3> QED BY <3>3
  <2> QED BY <2>1, <2>2, <2>3
<1>10. ASSUME NEW k \in G PROVE ParsedForm(fields)[fields[k].name].value = Head(ListOf(fields[k]))
  <2> DEFINE m == fields[k].name
             S == SentAs(Parts, m)
  <2>1. PICK i \in 1..n : given[i] = fields[k]
    BY <1>2
  <2>2. S = {j \in 1..n : given[j].name = m}
    BY <1>6, <1>7 DEF SentAs
  <2>3. S = {i}
    BY <1>2, <2>1, <2>2
  <2>4. LastSent(Parts, m) = Parts[CHOOSE j \in S : \A h \in S : h =< j].data
    BY DEF LastSent
  <2>5. (CHOOSE j \in {i} : \A h \in {i} : h =< j) = i
    OBVIOUS
  <2> HIDE DEF S
  <2>6. LastSent(Parts, m) = Parts[i].data
    BY <2>3, <2>4, <2>5
  <2>7. m \in SentNames(Parts)
    BY <1>9
  <2>8. ParsedForm(fields)[m].value = Parts[i].data
    BY <1>5, <2>6, <2>7
  <2> HIDE DEF m
  <2>9. Parts[i].data = Head(ListOf(fields[k]))
    BY <1>7, <2>1
  <2> QED BY <2>8, <2>9 DEF m
<1>11. ASSUME NEW j \in DOMAIN req.body.parts PROVE ~PartBad(req.body.parts[j], fields)
  <2>1. j \in 1..n /\ req.body.parts[j] = Told(Parts[j])
    BY <1>5, <1>6
  <2>2. PICK k \in G : given[j] = fields[k]
    BY <1>2, <2>1
  <2>3. Parts[j].name = fields[k].name /\ Parts[j].data = Head(ListOf(fields[k]))
    BY <1>7, <2>1, <2>2
  <2>4. /\ Told(Parts[j]).ok /\ Told(Parts[j]).name = {Parts[j].name}
        /\ Told(Parts[j]).utf8 <=> NotText \notin ToSet(Parts[j].data)
    BY DEF Told
  <2>5. k \in DOMAIN fields
    BY <1>8
  <2>6. CASE fields[k].ty = "binary"
    <3>1. fields[k].name \in FormNames(fields, {"binary"})
      BY <2>5, <2>6 DEF FormNames
    <3> QED BY <2>1, <2>3, <2>4, <3>1 DEF PartBad
  <2>7. CASE fields[k].ty # "binary"
    <3>1. PICK v \in Texts(fields[k]) : Head(ListOf(fields[k])) = v
      BY <1>1, HeadIs DEF Asked, G, fields
    <3>2. NotText \notin ToSet(v)
      BY <1>1, <2>5, <2>7, <3>1, ValueAssumption DEF Asked, Texts, fields
    <3> QED BY <2>1, <2>3, <2>4, <3>1, <3>2 DEF PartBad
  <2> QED BY <2>6, <2>7
<1> QED BY <1>5, <1>9, <1>10, <1>11 DEF FormTold, fields, G

LEMMA UrlEncodedTold ==
  ASSUME Asked, config.body.kind = "form", ~IsMultipart(config), req.body = SentBody
  PROVE  FormTold(config.body.fields)
<1> DEFINE fields == config.body.fields
           G == BodyGiven(fields)
           given == GivenBody(fields)
           parts == req.body.parts
<1>1. NamedOnce(fields)
  BY ConfigAssumption DEF Asked
<1>2. PICK n \in Nat :
           /\ DOMAIN given = 1..n
           /\ \A i \in 1..n : \E k \in G : given[i] = fields[k]
           /\ \A k \in G : \E i \in 1..n : given[i] = fields[k]
           /\ \A i, j \in 1..n : given[i].name = given[j].name => i = j
  BY <1>1, GivenIs
<1>3. req.body = [NoContent EXCEPT !.parts = [k \in DOMAIN given |-> UrlEncodedPart(given[k])]]
  BY DEF SentBody
<1>4. parts = [k \in DOMAIN given |-> UrlEncodedPart(given[k])] /\ req.body.multipart = FALSE
  BY <1>3 DEF NoContent
<1>5. G \subseteq DOMAIN fields
  BY DEF BodyGiven
<1>6. \A k \in G : FormDecode(FormEncode(Head(ListOf(fields[k])))) = Head(ListOf(fields[k]))
  <2> SUFFICES ASSUME NEW k \in G PROVE FormDecode(FormEncode(Head(ListOf(fields[k])))) = Head(ListOf(fields[k]))
    OBVIOUS
  <2>1. PICK v \in Texts(fields[k]) : Head(ListOf(fields[k])) = v
    BY HeadIs DEF Asked
  <2>2. Text(v)
    BY <1>5, <2>1, ValueAssumption DEF Asked, Texts, NewTo
  <2> QED BY <2>1, <2>2, FormReads
<1> HIDE DEF given, G, fields
<1>7. DOMAIN parts = 1..n
      /\ \A i \in 1..n : /\ parts[i].name = {given[i].name} /\ parts[i].value = Head(ListOf(given[i]))
                         /\ parts[i].utf8 /\ parts[i].ok
  <2>1. \A f : /\ UrlEncodedPart(f).name = {f.name} /\ UrlEncodedPart(f).utf8 /\ UrlEncodedPart(f).ok
               /\ UrlEncodedPart(f).value = FormDecode(FormEncode(Head(ListOf(f))))
    BY DEF UrlEncodedPart
  <2>2. DOMAIN parts = 1..n /\ \A i \in 1..n : parts[i] = UrlEncodedPart(given[i])
    BY <1>2, <1>4
  <2> HIDE DEF parts
  <2>3. \A i \in 1..n : FormDecode(FormEncode(Head(ListOf(given[i])))) = Head(ListOf(given[i]))
    <3> SUFFICES ASSUME NEW i \in 1..n
                 PROVE  FormDecode(FormEncode(Head(ListOf(given[i])))) = Head(ListOf(given[i]))
      OBVIOUS
    <3>1. PICK k \in G : given[i] = fields[k]
      BY <1>2
    <3> QED BY <1>6, <3>1
  <2> QED BY <2>1, <2>2, <2>3
<1>8. \A j \in DOMAIN parts : ~PartBad(parts[j], fields)
  BY <1>7 DEF PartBad
<1> DEFINE names == UNION {parts[j].name : j \in DOMAIN parts}
           last(m) == CHOOSE j \in DOMAIN parts :
                        /\ m \in parts[j].name
                        /\ \A k \in DOMAIN parts : m \in parts[k].name => k =< j
<1>9. ParsedForm(fields) = [m \in names |-> [binary |-> m \in FormNames(fields, {"binary"}),
                                            value |-> parts[last(m)].value]]
  BY DEF ParsedForm
<1> HIDE DEF parts
<1>10. names = {fields[k].name : k \in G}
  <2>1. names = {given[i].name : i \in 1..n}
    BY <1>7
  <2>2. ASSUME NEW x \in {given[i].name : i \in 1..n} PROVE x \in {fields[k].name : k \in G}
    BY <1>2
  <2>3. ASSUME NEW x \in {fields[k].name : k \in G} PROVE x \in {given[i].name : i \in 1..n}
    <3>1. PICK k \in G : x = fields[k].name
      OBVIOUS
    <3>2. PICK i \in 1..n : given[i] = fields[k]
      BY <1>2
    <3>3. x = given[i].name
      BY <3>1, <3>2
    <3> QED BY <3>3
  <2> QED BY <2>1, <2>2, <2>3
<1>11. ASSUME NEW k \in G PROVE parts[last(fields[k].name)].value = Head(ListOf(fields[k]))
  <2> DEFINE m == fields[k].name
  <2>1. PICK i \in 1..n : given[i] = fields[k]
    BY <1>2
  <2>2. i \in DOMAIN parts /\ \A j \in DOMAIN parts : m \in parts[j].name <=> j = i
    <3>1. \A j \in DOMAIN parts : m \in parts[j].name <=> given[j].name = m
      BY <1>7
    <3>2. given[i].name = m /\ DOMAIN parts = 1..n
      BY <1>7, <2>1
    <3> HIDE DEF m
    <3> QED BY <1>2, <3>1, <3>2
  <2> HIDE DEF m
  <2>3. last(m) = i
    <3>1. \A j \in DOMAIN parts :
            (m \in parts[j].name /\ \A h \in DOMAIN parts : m \in parts[h].name => h =< j) <=> j = i
      BY <1>7, <2>2
    <3> QED BY <2>2, <3>1
  <2> HIDE DEF last
  <2> QED BY <1>7, <2>1, <2>3 DEF m
<1> HIDE DEF names, last
<1>12. DOMAIN ParsedForm(fields) = names
       /\ \A m \in names : /\ ParsedForm(fields)[m].value = parts[last(m)].value
                           /\ ParsedForm(fields)[m].binary <=> m \in FormNames(fields, {"binary"})
  <2>1. DOMAIN ParsedForm(fields) = names
    BY <1>9
  <2> SUFFICES ASSUME NEW m \in names
               PROVE  /\ ParsedForm(fields)[m].value = parts[last(m)].value
                      /\ ParsedForm(fields)[m].binary <=> m \in FormNames(fields, {"binary"})
    BY <2>1
  <2> DEFINE v == [binary |-> m \in FormNames(fields, {"binary"}), value |-> parts[last(m)].value]
  <2>2. ParsedForm(fields)[m] = v
    BY <1>9
  <2>3. v.value = parts[last(m)].value /\ (v.binary <=> m \in FormNames(fields, {"binary"}))
    OBVIOUS
  <2> HIDE DEF v
  <2> QED BY <2>2, <2>3
<1>13. \A k \in G : ParsedForm(fields)[fields[k].name].value = Head(ListOf(fields[k]))
  <2> SUFFICES ASSUME NEW k \in G PROVE ParsedForm(fields)[fields[k].name].value = Head(ListOf(fields[k]))
    OBVIOUS
  <2>1. fields[k].name \in names
    BY <1>10
  <2> QED BY <1>11, <1>12, <2>1
<1>14. req.body.multipart <=> IsMultipart(config)
  BY <1>4
<1> QED BY <1>8, <1>10, <1>12, <1>13, <1>14 DEF FormTold, fields, G, parts

LEMMA FormIsTold ==
  ASSUME Asked, config.body.kind = "form", Legible, req.body = SentBody
  PROVE  FormTold(config.body.fields)
  BY MultipartTold, UrlEncodedTold

\* A JSON body holds the fields that are given.
LEMMA JsonTold ==
  ASSUME NEW fields, NamedOnce(fields)
  PROVE  LET v == JsonBody(GivenBody(fields)) IN
         /\ v.object
         /\ DOMAIN v.fields = {fields[k].name : k \in BodyGiven(fields)}
         /\ \A k \in BodyGiven(fields) :
              v.fields[fields[k].name] = [array |-> fields[k].array, items |-> JsonItems(fields[k])]
<1> DEFINE G == BodyGiven(fields)
           given == GivenBody(fields)
           Named1(m) == given[CHOOSE j \in DOMAIN given : given[j].name = m]
           Written(f) == [array |-> f.array, items |-> JsonItems(f)]
           all == [m \in {given[j].name : j \in DOMAIN given} |-> Written(Named1(m))]
           v == JsonBody(GivenBody(fields))
<1>1. v = [object |-> TRUE, fields |-> all]
  BY DEF JsonBody
<1>2. PICK n \in Nat :
           /\ DOMAIN given = 1..n
           /\ \A i \in 1..n : \E k \in G : given[i] = fields[k]
           /\ \A k \in G : \E i \in 1..n : given[i] = fields[k]
           /\ \A i, j \in 1..n : given[i].name = given[j].name => i = j
  BY GivenIs
<1>3. v.object /\ v.fields = all
  <2> HIDE DEF all, v
  <2> QED BY <1>1
<1> HIDE DEF given, G, v, Written
<1>4. {given[j].name : j \in DOMAIN given} = {fields[k].name : k \in G}
  <2>1. ASSUME NEW x \in {given[i].name : i \in DOMAIN given} PROVE x \in {fields[k].name : k \in G}
    BY <1>2
  <2>2. ASSUME NEW x \in {fields[k].name : k \in G} PROVE x \in {given[i].name : i \in DOMAIN given}
    <3>1. PICK k \in G : x = fields[k].name
      OBVIOUS
    <3>2. PICK i \in DOMAIN given : given[i] = fields[k]
      BY <1>2
    <3>3. x = given[i].name
      BY <3>1, <3>2
    <3> QED BY <3>3
  <2> QED BY <2>1, <2>2
<1>5. ASSUME NEW k \in G PROVE all[fields[k].name] = Written(fields[k])
  <2>1. PICK i \in DOMAIN given : given[i] = fields[k]
    BY <1>2
  <2>2. \A j \in DOMAIN given : given[j].name = given[i].name <=> j = i
    BY <1>2
  <2>3. (CHOOSE j \in DOMAIN given : given[j].name = given[i].name) = i
    BY <2>2
  <2>4. Named1(fields[k].name) = fields[k]
    BY <2>1, <2>3
  <2>5. fields[k].name \in {given[j].name : j \in DOMAIN given}
    BY <1>4
  <2> HIDE DEF Named1
  <2> QED BY <2>4, <2>5
<1> HIDE DEF Named1
<1>6. DOMAIN all = {fields[k].name : k \in G}
  BY <1>4
<1> HIDE DEF all
<1>7. /\ v.object
      /\ DOMAIN v.fields = {fields[k].name : k \in G}
      /\ \A k \in G : v.fields[fields[k].name] = Written(fields[k])
  BY <1>3, <1>5, <1>6
<1> QED BY <1>7 DEF v, G, Written

\* The fields of a query and of the headers are among those of the arguments.
LEMMA DeclaredIs ==
  ASSUME config \in Configs
  PROVE  /\ \A k \in DOMAIN config.query : \E j \in DOMAIN Declared : Declared[j] = config.query[k]
         /\ \A k \in DOMAIN config.headers : \E j \in DOMAIN Declared : Declared[j] = config.headers[k]
<1> DEFINE n == Len(config.path)
           p == Params
           q == config.query
           h == config.headers
           d == Declared
           U == ToSet(p) \cup ToSet(q) \cup ToSet(h)
<1>1. n \in Nat /\ DOMAIN config.path = 1..n
  BY ConfigAssumption DEF Listed
<1>2. p \in Seq(U)
  <2>1. p = [j \in 1..n |-> p[j]] /\ DOMAIN p = 1..n
    BY <1>1 DEF Params
  <2>2. \A j \in 1..n : p[j] \in U
    BY <2>1 DEF ToSet
  <2> HIDE DEF p, U, n
  <2> QED BY <1>1, <2>1, <2>2, SequenceOf
<1>3. q \in Seq(U) /\ h \in Seq(U)
  <2>1. q \in Seq(ToSet(q)) /\ h \in Seq(ToSet(h))
    BY RouteAssumption
  <2> QED BY <2>1, SeqMonotonic
<1>4. d = p \o q \o h
  BY DEF Declared
<1> HIDE DEF p, q, h, d, U, n
<1>5. PICK x : x = p \o q
  OBVIOUS
<1>6. x \in Seq(U) /\ Joins(p, q, x)
  BY <1>2, <1>3, <1>5, ConcatIs
<1>7. d \in Seq(U) /\ Joins(x, h, d)
  BY <1>3, <1>4, <1>5, <1>6, ConcatIs
<1>8. /\ DOMAIN q = 1..Len(q) /\ DOMAIN h = 1..Len(h) /\ DOMAIN d = 1..Len(d)
      /\ Len(p) \in Nat /\ Len(q) \in Nat /\ Len(h) \in Nat /\ Len(x) \in Nat /\ Len(d) \in Nat
  BY <1>2, <1>3, <1>6, <1>7, LenProperties
<1>9. ASSUME NEW k \in DOMAIN q PROVE \E j \in DOMAIN d : d[j] = q[k]
  <2>1. k \in 1..Len(q)
    BY <1>8
  <2>2. x[Len(p) + k] = q[k] /\ Len(x) = Len(p) + Len(q) /\ Len(d) = Len(x) + Len(h)
    BY <1>6, <1>7, <2>1 DEF Joins
  <2>3. Len(p) + k \in 1..Len(x) /\ Len(p) + k \in DOMAIN d
    BY <1>8, <2>1, <2>2
  <2>4. d[Len(p) + k] = x[Len(p) + k]
    BY <1>7, <2>3 DEF Joins
  <2> QED BY <2>2, <2>3, <2>4
<1>10. ASSUME NEW k \in DOMAIN h PROVE \E j \in DOMAIN d : d[j] = h[k]
  <2>1. k \in 1..Len(h)
    BY <1>8
  <2>2. d[Len(x) + k] = h[k] /\ Len(d) = Len(x) + Len(h)
    BY <1>7, <2>1 DEF Joins
  <2>3. Len(x) + k \in DOMAIN d
    BY <1>8, <2>1, <2>2
  <2> QED BY <2>2, <2>3
<1> QED BY <1>9, <1>10 DEF q, h, d

\* Each has no value, if it is optional, or one of its type.
ArgFits(f) == (f.optional /\ Arg(f) = {}) \/ \E v \in Texts(f) : Arg(f) = {v}

LEMMA ArgsFit ==
  ASSUME Asked
  PROVE  /\ \A k \in DOMAIN config.query : ArgFits(config.query[k])
         /\ \A k \in DOMAIN config.headers : ArgFits(config.headers[k])
<1> DEFINE d == Declared
           options == [j \in DOMAIN d |-> Options(Texts(d[j]), d[j].optional)]
<1>1. call.args \in Structs(d, options)
  BY DEF Asked, Calls, Args
<1> HIDE DEF d
<1>2. ASSUME NEW j \in DOMAIN d PROVE ArgFits(d[j])
  <2>1. call.args[SanitizeIdent(d[j].name)] \in options[j]
    <3> HIDE DEF options
    <3> QED BY <1>1, Zenon DEF Structs
  <2>2. Arg(d[j]) \in Options(Texts(d[j]), d[j].optional)
    BY <2>1 DEF Arg
  <2>3. Arg(d[j]) \in {{v} : v \in Texts(d[j])} \/ (d[j].optional /\ Arg(d[j]) = {})
    BY <2>2 DEF Options
  <2> QED BY <2>3 DEF ArgFits
<1> QED BY <1>2, DeclaredIs DEF Asked, d

\* A field's value goes by its name.
LEMMA ValueIs ==
  ASSUME NEW fields, NamedOnce(fields), NEW k \in DOMAIN fields
  PROVE  /\ ValueOf(fields, fields[k].name) = Arg(fields[k])
         /\ fields[k].name \in GivenOf(fields) <=> Arg(fields[k]) # {}
         /\ \A v : Arg(fields[k]) = {v} => TheValue(fields, fields[k].name) = v
<1> DEFINE S == {j \in DOMAIN fields : fields[j].name = fields[k].name}
<1>1. S = {k}
  BY DEF NamedOnce
<1>2. ValueOf(fields, fields[k].name) = UNION {Arg(fields[j]) : j \in S}
  BY DEF ValueOf
<1>3. UNION {Arg(fields[j]) : j \in {k}} = Arg(fields[k])
  OBVIOUS
<1>4. ValueOf(fields, fields[k].name) = Arg(fields[k])
  BY <1>1, <1>2, <1>3
<1>5. fields[k].name \in GivenOf(fields) <=> Arg(fields[k]) # {}
  BY <1>1 DEF GivenOf
<1>6. \A v : (CHOOSE x \in {v} : TRUE) = v
  OBVIOUS
<1> QED BY <1>4, <1>5, <1>6 DEF TheValue

\* The server gets the query of the call,
LEMMA QueryTold ==
  ASSUME Asked
  PROVE  SentQuery = [n \in GivenOf(config.query) |-> TheValue(config.query, n)]
<1> DEFINE q == config.query
<1>1. NamedOnce(q)
  BY ConfigAssumption DEF Asked
<1>2. ASSUME NEW n \in GivenOf(q) PROVE FormDecode(FormEncode(TheValue(q, n))) = TheValue(q, n)
  <2>1. PICK k \in DOMAIN q : n = q[k].name /\ Arg(q[k]) # {}
    BY DEF GivenOf
  <2>2. PICK v \in Texts(q[k]) : Arg(q[k]) = {v}
    BY <2>1, ArgsFit DEF ArgFits
  <2>3. TheValue(q, n) = v
    BY <1>1, <2>1, <2>2, ValueIs
  <2>4. Text(v)
    BY <2>2, ValueAssumption DEF Asked, Texts
  <2> QED BY <2>3, <2>4, FormReads
<1> QED BY <1>2 DEF SentQuery

\* and a header of the call if it can read one.
LEMMA HeadersTold ==
  ASSUME Asked, AtMostOne(token), req.headers = SentHeaders, NEW n
  PROVE  Lookup(VisibleHeaders, n) = Seen(n)
<1> DEFINE h == config.headers
           sent == OnWire(IF n \in AuthHeaders THEN BearerOf(CHOOSE t \in token : TRUE) ELSE TheValue(h, n))
<1>1. NamedOnce(h)
  BY ConfigAssumption DEF Asked
<1>2. DOMAIN req.headers = AuthHeaders \cup GivenOf(h)
      /\ (n \in DOMAIN req.headers => req.headers[n] = sent)
  BY DEF SentHeaders
<1>3. CASE n \in DOMAIN req.headers
  <2>1. Carried(n) # {} /\ {OnWire(v) : v \in Carried(n)} = {sent}
    <3>1. CASE n \in AuthHeaders
      <4>1. token # {}
        BY <3>1 DEF AuthHeaders
      <4>2. PICK t : token = {t}
        BY <4>1 DEF AtMostOne
      <4>3. (CHOOSE x \in {t} : TRUE) = t
        OBVIOUS
      <4>4. Carried(n) = {BearerOf(t)}
        BY <3>1, <4>2 DEF Carried
      <4> QED BY <3>1, <4>2, <4>3, <4>4
    <3>2. CASE n \notin AuthHeaders
      <4>1. n \in GivenOf(h)
        BY <1>2, <1>3, <3>2
      <4>2. PICK k \in DOMAIN h : n = h[k].name /\ Arg(h[k]) # {}
        BY <4>1 DEF GivenOf
      <4>3. PICK v : Arg(h[k]) = {v}
        BY <4>2, ArgsFit DEF ArgFits
      <4>4. ValueOf(h, n) = {v} /\ TheValue(h, n) = v
        BY <1>1, <4>2, <4>3, ValueIs
      <4>5. Carried(n) = {v}
        BY <3>2, <4>4 DEF Carried
      <4> QED BY <3>2, <4>4, <4>5
    <3> QED BY <3>1, <3>2
  <2> HIDE DEF sent
  <2>2. Seen(n) = {sent} \ Opaque
    BY <2>1 DEF Seen
  <2>3. Lookup(VisibleHeaders, n) = {sent} \ Opaque
    <3>1. n \in DOMAIN VisibleHeaders <=> sent \notin Opaque
      BY <1>2, <1>3 DEF VisibleHeaders
    <3>2. n \in DOMAIN VisibleHeaders => VisibleHeaders[n] = sent
      BY <1>2, <1>3 DEF VisibleHeaders
    <3> QED BY <3>1, <3>2 DEF Lookup
  <2> QED BY <2>2, <2>3
<1>4. CASE n \notin DOMAIN req.headers
  <2>1. n \notin AuthHeaders /\ n \notin GivenOf(h)
    BY <1>2, <1>4
  <2>2. ValueOf(h, n) = {}
    <3>1. \A k \in DOMAIN h : h[k].name = n => Arg(h[k]) = {}
      BY <2>1 DEF GivenOf
    <3> QED BY <3>1 DEF ValueOf
  <2>3. Seen(n) = {}
    BY <2>1, <2>2 DEF Seen, Carried
  <2>4. n \notin DOMAIN VisibleHeaders
    BY <1>4 DEF VisibleHeaders
  <2> QED BY <2>3, <2>4 DEF Lookup
<1> QED BY <1>3, <1>4

\* No call is made yet.
LEMMA CallInvStarts == CallInit => CallInv
<1> SUFFICES ASSUME CallInit PROVE CallInv
  OBVIOUS
<1>1. /\ input \in Inputs /\ config = input.endpoints[input.followed]
      /\ base = <<>> /\ outcome = "none" /\ (RoutesOverlap => stage = "down")
  BY DEF CallInit, MacroInit
<1>2. outcome \notin {"called"} \cup Answered /\ outcome \notin Answered
  BY <1>1 DEF Answered
<1> QED BY <1>1, <1>2 DEF CallInv, CallArrives

\* A step leaves the call where it is, or it arrives.
LEMMA CallInvStays ==
  ASSUME CallInv, [CallNext]_callVars
  PROVE  CallInv'
<1>1. CASE MacroNext /\ UNCHANGED <<gateVars, clientVars>>
  <2>1. input' = input
    BY <1>1 DEF MacroNext, ParseInput, ReadSpec, DuplicateName, NoEndpoint, MappedTwice, Generate, Emit, Fail, NextLine
  <2>2. UNCHANGED <<config, req, stage, base, call, landed, outcome>>
    BY <1>1 DEF gateVars, clientVars
  <2> QED BY <2>1, <2>2, OtherStepKeeps
<1>2. CASE Handler /\ UNCHANGED <<macroVars, clientVars>>
  <2>1. UNCHANGED <<input, base, call, landed, outcome>>
    BY <1>2 DEF macroVars, clientVars
  <2> QED BY <1>2, <2>1, HandlerKeeps, OtherStepKeeps
<1>3. CASE (NewClient \/ SetToken \/ Start \/ Elsewhere \/ Receive) /\ UNCHANGED <<macroVars, gateVars>>
  <2>1. UNCHANGED <<input, config, req, stage>>
    BY <1>3 DEF macroVars, gateVars
  <2>2. CASE NewClient
    <3>1. outcome = "none" /\ outcome' \in {"none", "error"} /\ UNCHANGED <<call, landed>>
      BY <2>2 DEF NewClient
    <3>2. outcome' \notin {"called"} \cup Answered /\ outcome' \notin Answered
      BY <3>1 DEF Answered
    <3>3. base' \in {<<>>, <<Host>>}
      <4>1. PICK raw \in Bases : base' = base \/ base' \in NormalizeBase(raw)
        BY <2>2 DEF NewClient
      <4> QED BY <4>1, RouteAssumption, Zenon DEF CallInv, Host
    <3>4. RoutesOverlap' <=> RoutesOverlap
      BY <2>1, <3>1, CallStays
    <3> QED BY <2>1, <3>2, <3>3, <3>4, Zenon DEF CallInv, CallArrives
  <2>3. CASE SetToken
    BY <2>1, <2>3, OtherStepKeeps DEF SetToken
  <2>4. CASE Start
    <3>1. /\ base # <<>> /\ call' \in Calls /\ outcome' = "called" /\ outcome' \notin Answered
          /\ UNCHANGED <<base, landed>>
      BY <2>4 DEF Start, Answered
    <3>2. config \in Configs /\ config' = config /\ input' = input
      BY <2>1, CallAssumption DEF CallInv
    <3>3. PathGiven'
      <4>1. ASSUME NEW k \in DOMAIN config.path
            PROVE  \E v \in Displays[RustType(config.path[k].ty)] : call'.args[SanitizeIdent(config.path[k].name)] = {v}
        BY <3>1, <3>2, ArgsAre
      <4> QED BY <3>2, <4>1 DEF PathGiven, Arg
    <3>4. RoutesOverlap' <=> RoutesOverlap
      BY <3>2 DEF RoutesOverlap
    <3> QED BY <2>1, <3>1, <3>2, <3>3, <3>4, Zenon DEF CallInv, CallArrives
  <2>5. CASE Elsewhere
    <3>1. outcome = "sent" /\ UNCHANGED <<base, call, landed>>
      BY <2>5 DEF Elsewhere
    <3> QED BY <2>1, <3>1, OtherStepKeeps DEF Answered
  <2>6. CASE Receive
    <3>1. outcome = "sent" /\ UNCHANGED <<base, call, landed>>
      BY <2>6 DEF Receive
    <3> QED BY <2>1, <3>1, OtherStepKeeps DEF Answered
  <2> QED BY <1>3, <2>2, <2>3, <2>4, <2>5, <2>6
<1>4. CASE Send /\ UNCHANGED macroVars
  BY <1>4, SendArrives
<1>5. CASE UNCHANGED callVars
  <2>1. UNCHANGED <<input, config, req, stage, base, call, landed, outcome>>
    BY <1>5 DEF callVars
  <2> QED BY <2>1, OtherStepKeeps
<1> QED BY <1>1, <1>2, <1>3, <1>4, <1>5 DEF CallNext
----------------------------------------------------------------------------
(* The request that is followed. *)

\* A call reaches the endpoint it was generated for, with the path values it was given: the
\* URL that build_path and endpoint_url write is cut where the route is, whatever the
\* values hold, and no other route of the server is matched before its own.
THEOREM CallAlwaysArrives == CallSpec => []CallArrives
<1>1. CallInv /\ [CallNext]_callVars => CallInv'
  BY CallInvStays
<1>2. CallInv => CallArrives
  BY DEF CallInv
<1> QED BY <1>1, <1>2, CallInvStarts, PTL DEF CallSpec

\* Nothing is asked of the server.
Resting == stage \in {"starting", "down", "idle"}
Fallow == ctx = EmptyCtx /\ answer = NoAnswer /\ started = FALSE

\* A command ran, or the server only says what would.
Ran == started \/ config.dryRun

\* What the server got is what the client sent.
Heard ==
  /\ Asked /\ outcome \in Answered \cup {"error"}
  /\ ~req.malformed /\ req.query = SentQuery /\ req.headers = SentHeaders /\ req.body = SentBody
  /\ DOMAIN req.path = {config.path[k].name : k \in DOMAIN config.path}
  /\ Addressable => \A n \in DOMAIN req.path : {req.path[n]} = ParamText(n)

HeardInv ==
  /\ AtMostOne(token)
  /\ outcome \in {"called", "sent"} => Asked
  /\ Resting => Fallow
  /\ ~Resting => Heard
  /\ ctx.query = [n \in DOMAIN ctx.query |-> ctx.query[n]]
  /\ answer.status = 200 => Ran
  /\ outcome = "ok" /\ landed = Own => Ran

\* What is asked does not change after it is.
LEMMA CallsStay ==
  ASSUME config' = config
  PROVE  Calls' = Calls
<1>1. \A f : Texts(f)' = Texts(f) /\ Lists(f)' = Lists(f)
  BY DEF Texts, Lists
<1>2. Declared' = Declared
  BY DEF Declared, Params
<1>3. Args' = Args
  BY <1>2 DEF Args, Structs, Options, Texts
<1>4. Bodies' = Bodies
  BY <1>1 DEF Bodies, HasFields
<1> QED BY <1>3, <1>4 DEF Calls, IsMultipart

LEMMA AskedStays ==
  ASSUME UNCHANGED <<input, config, token, call>>
  PROVE  /\ Asked' <=> Asked
         /\ SentQuery' = SentQuery /\ SentHeaders' = SentHeaders /\ SentBody' = SentBody
<1>1. Asked' <=> Asked
  BY CallsStay DEF Asked
<1>2. \A f : Arg(f)' = Arg(f) /\ BodyArg(f)' = BodyArg(f)
  BY DEF Arg, BodyArg
<1>3. \A fields : GivenOf(fields)' = GivenOf(fields)
  BY <1>2 DEF GivenOf
<1>4. \A fields, n : TheValue(fields, n)' = TheValue(fields, n)
  BY <1>2 DEF TheValue, ValueOf
<1>5. SentQuery' = SentQuery
  BY <1>3, <1>4 DEF SentQuery
<1>6. AuthHeaders' = AuthHeaders
  BY DEF AuthHeaders
<1>7. SentHeaders' = SentHeaders
  BY <1>3, <1>4, <1>6 DEF SentHeaders
<1>8. \A f : ListOf(f)' = ListOf(f)
  BY <1>2 DEF ListOf
<1>9. GivenBody(config.body.fields)' = GivenBody(config.body.fields)
  BY <1>2 DEF GivenBody, BodyGiven
<1>10. SentBody' = SentBody
  BY <1>8, <1>9 DEF SentBody, JsonBody, JsonItems, MultipartBody, MultipartPiece, UrlEncodedPart
<1> QED BY <1>1, <1>5, <1>7, <1>10

\* An answer of 200 is that of a command; others tell an error.
LEMMA ErrorsTell ==
  /\ 200 \notin AuthErrors
  /\ \A f, found, limit, tooBig : tooBig # 200 => 200 \notin FieldErrors(f, found, limit, tooBig)
  /\ \A src : 200 \notin SourceErrors(src)
  /\ config.body.kind \in {"none", "binary", "string", "json", "form"} => 200 \notin BodyErrors
<1>1. 200 \notin AuthErrors
  BY DEF AuthErrors
<1>2. \A f, found, limit, tooBig : tooBig # 200 => 200 \notin FieldErrors(f, found, limit, tooBig)
  BY DEF FieldErrors
<1>3. \A src : 200 \notin SourceErrors(src)
  BY DEF SourceErrors
<1>4. ASSUME config.body.kind \in {"none", "binary", "string", "json", "form"} PROVE 200 \notin BodyErrors
  <2>1. \A v, fields : 200 \notin SchemaErrors(v, fields)
    BY DEF SchemaErrors
  <2>2. \A fields : 200 \notin FormErrors(fields) /\ 200 \notin FormFieldErrors(fields)
    BY DEF FormErrors, FormFieldErrors
  <2>3. CASE config.body.kind \in {"none", "binary"}
    BY <2>3 DEF BodyErrors
  <2>4. CASE config.body.kind = "string"
    BY <2>4 DEF BodyErrors
  <2>5. CASE config.body.kind = "json"
    BY <2>1, <2>5 DEF BodyErrors
  <2>6. CASE config.body.kind = "form"
    BY <2>2, <2>6 DEF BodyErrors
  <2> QED BY <1>4, <2>3, <2>4, <2>5, <2>6
<1> QED BY <1>1, <1>2, <1>3, <1>4

\* A step of the server.
Answers == answer' = answer \/ answer'.status # 200 \/ Ran'
LEMMA HandlerTells ==
  ASSUME IInv, Handler
  PROVE  /\ Resting => Resting' /\ UNCHANGED <<ctx, answer, started>>
         /\ ~Resting => ~Resting'
         /\ started => started'
         /\ Answers
<1> DEFINE Tells == /\ Resting => Resting' /\ UNCHANGED <<ctx, answer, started>>
                    /\ ~Resting => ~Resting'
                    /\ started => started'
                    /\ Answers
<1> SUFFICES Tells
  OBVIOUS
<1>1. ASSUME NEW s, s # 200, Reject(s), ~Resting PROVE Tells
  BY <1>1 DEF Reject, Respond, Resting, Answers, Ran
<1>2. ASSUME NEW errors, NEW new, 200 \notin errors, Item(errors, new), ~Resting PROVE Tells
  <2>1. CASE \E s \in errors : Reject(s)
    <3>1. PICK s \in errors : Reject(s)
      BY <2>1
    <3>2. s # 200
      BY <1>2
    <3> QED BY <1>1, <1>2, <3>1, <3>2
  <2>2. CASE UNCHANGED <<stage, answer, started>>
    BY <1>2, <2>2 DEF Resting, Answers
  <2> QED BY <1>2, <2>1, <2>2 DEF Item
<1>3. CASE Serve \/ ServeFails
  BY <1>3 DEF Serve, ServeFails, Resting, Answers
<1>4. CASE Extract
  <2>1. ~Resting
    BY <1>4 DEF Extract, Resting
  <2>2. CASE stage' = "auth" /\ UNCHANGED <<answer, started>>
    BY <2>1, <2>2 DEF Resting, Answers
  <2> QED BY <1>1, <1>4, <2>1, <2>2 DEF Extract
<1>5. CASE Authenticate
  <2>1. ~Resting
    BY <1>5 DEF Authenticate, Resting
  <2>2. CASE stage' = "query" /\ UNCHANGED <<answer, started>>
    BY <2>1, <2>2 DEF Resting, Answers
  <2>3. CASE \E s \in AuthErrors : Reject(s)
    BY <1>1, <2>1, <2>3, ErrorsTell
  <2> QED BY <1>5, <2>2, <2>3 DEF Authenticate
<1>6. CASE ValidateQuery
  <2>1. ~Resting
    BY <1>6 DEF ValidateQuery, Resting
  <2> QED BY <1>2, <1>6, <2>1, ErrorsTell DEF ValidateQuery
<1>7. CASE ValidateHeaders
  <2>1. ~Resting
    BY <1>7 DEF ValidateHeaders, Resting
  <2> QED BY <1>2, <1>7, <2>1, ErrorsTell DEF ValidateHeaders
<1>8. CASE ValidatePath
  <2>1. ~Resting
    BY <1>8 DEF ValidatePath, Resting
  <2> QED BY <1>2, <1>8, <2>1 DEF ValidatePath
<1>9. CASE ResolveVars
  <2>1. ~Resting
    BY <1>9 DEF ResolveVars, Resting
  <2>2. \A s \in SourceErrors(config.vars[turn].source) : s # 200
    BY ErrorsTell
  <2>3. CASE \E s \in SourceErrors(config.vars[turn].source) : Reject(s)
    BY <1>1, <2>1, <2>2, <2>3
  <2> QED BY <1>2, <1>9, <2>1, <2>2, <2>3 DEF ResolveVars
<1>10. CASE ScopeDone
  <2>1. ~Resting /\ UNCHANGED <<answer, started>>
    BY <1>10 DEF ScopeDone, Resting, Scopes
  <2>2. stage' \in {"headers", "path", "vars", "body"}
    BY <1>10 DEF ScopeDone, Scopes, After
  <2> QED BY <2>1, <2>2 DEF Resting, Answers
<1>11. CASE BuildBody
  <2>1. ~Resting
    BY <1>11 DEF BuildBody, Resting
  <2>2. CASE stage' = "run" /\ UNCHANGED <<answer, started>>
    BY <2>1, <2>2 DEF Resting, Answers
  <2>3. CASE \E s \in BodyErrors : Reject(s)
    <3>1. 200 \notin BodyErrors
      BY ErrorsTell, ConfigAssumption DEF IInv, TypeOK
    <3> QED BY <1>1, <2>1, <2>3, <3>1
  <2> QED BY <1>11, <2>2, <2>3 DEF BuildBody
<1>12. CASE NotStarted
  <2>1. ~Resting /\ Reject(500)
    BY <1>12 DEF NotStarted, Resting
  <2> QED BY <1>1, <2>1
<1>13. CASE Execute
  BY <1>13 DEF Execute, Respond, Resting, Answers, Ran
<1>14. CASE DryRun
  BY <1>14 DEF DryRun, Reject, Respond, Resting, Answers, Ran
<1> HIDE DEF Tells
<1> QED BY <1>3, <1>4, <1>5, <1>6, <1>7, <1>8, <1>9, <1>10, <1>11, <1>12, <1>13, <1>14 DEF Handler

\* The query of the context is a map.
LEMMA QueryStays ==
  ASSUME IInv, Handler, ctx.query = [n \in DOMAIN ctx.query |-> ctx.query[n]]
  PROVE  ctx'.query = [n \in DOMAIN ctx'.query |-> ctx'.query[n]]
<1> DEFINE Mapped(c) == c.query = [n \in DOMAIN c.query |-> c.query[n]]
<1> SUFFICES Mapped(ctx')
  OBVIOUS
<1>0. DOMAIN ctx = {"query", "headers", "path", "vars", "body"}
  BY DEF IInv, TypeOK
<1>1. ctx' = ctx => Mapped(ctx')
  OBVIOUS
<1>2. \A s : Reject(s) => Mapped(ctx')
  BY <1>1 DEF Reject, Respond
<1>3. ASSUME NEW errors, NEW new, Mapped(new), Item(errors, new) PROVE Mapped(ctx')
  BY <1>2, <1>3 DEF Item
<1>4. CASE Serve \/ ServeFails \/ Extract \/ Authenticate \/ ScopeDone \/ DryRun \/ NotStarted
  BY <1>1, <1>2, <1>4 DEF Serve, ServeFails, Extract, Authenticate, ScopeDone, DryRun, NotStarted
<1>5. CASE ValidateQuery
  <2> DEFINE f == config.query[turn]
             new == [ctx EXCEPT !.query = Keep(@, f.name, req.query)]
             kept == Keep(ctx.query, f.name, req.query)
  <2>1. new.query = kept
    BY <1>0
  <2>2. kept = [n \in DOMAIN kept |-> kept[n]]
    BY DEF Keep
  <2>3. Mapped(new)
    <3> HIDE DEF new, kept
    <3> QED BY <2>1, <2>2
  <2> HIDE DEF Mapped
  <2> QED BY <1>3, <1>5, <2>3 DEF ValidateQuery
<1>6. CASE ValidateHeaders
  <2> DEFINE new == [ctx EXCEPT !.headers = Keep(@, config.headers[turn].name, VisibleHeaders)]
  <2>1. new.query = ctx.query
    BY <1>0
  <2>2. Mapped(new)
    <3> HIDE DEF new
    <3> QED BY <2>1
  <2> HIDE DEF Mapped
  <2> QED BY <1>3, <1>6, <2>2 DEF ValidateHeaders
<1>7. CASE ValidatePath
  <2> DEFINE f == config.path[turn]
             new == [ctx EXCEPT !.path = Keep(@, f.name, [n \in {f.name} |-> req.path[n]])]
  <2>1. new.query = ctx.query
    BY <1>0
  <2>2. Mapped(new)
    <3> HIDE DEF new
    <3> QED BY <2>1
  <2> HIDE DEF Mapped
  <2> QED BY <1>3, <1>7, <2>2 DEF ValidatePath
<1>8. CASE ResolveVars
  <2> DEFINE v == config.vars[turn]
             new(value) == [ctx EXCEPT !.vars = Keep(@, v.name, [n \in {v.name} |-> value])]
  <2>1. \A value : new(value).query = ctx.query
    BY <1>0
  <2>2. \A value : Mapped(new(value))
    <3> HIDE DEF new
    <3> QED BY <2>1
  <2> HIDE DEF Mapped
  <2> QED BY <1>2, <1>3, <1>8, <2>2 DEF ResolveVars
<1>9. CASE BuildBody
  <2>1. CASE ctx' = [ctx EXCEPT !.body = BodyValue]
    <3>1. ctx'.query = ctx.query
      BY <1>0, <2>1
    <3> QED BY <3>1
  <2> QED BY <1>2, <1>9, <2>1 DEF BuildBody
<1>10. CASE Execute
  BY <1>1, <1>10 DEF Execute, Respond
<1> HIDE DEF Mapped
<1> QED BY <1>4, <1>5, <1>6, <1>7, <1>8, <1>9, <1>10 DEF Handler

\* A body is at most one JSON value.
LEMMA SentJson ==
  ASSUME Asked
  PROVE  AtMostOne(SentBody.json)
<1>1. config.body.kind \in {"none", "binary", "string", "json", "form"}
  BY ConfigAssumption DEF Asked
<1>2. CASE config.body.kind = "none"
  BY <1>2 DEF SentBody, NoContent, AtMostOne
<1>3. CASE config.body.kind \in {"string", "binary"}
  <2>1. SentBody = [NoContent EXCEPT !.raw = call.body, !.len = Len(call.body)]
    BY <1>3 DEF SentBody
  <2> QED BY <2>1 DEF NoContent, AtMostOne
<1>4. CASE config.body.kind = "json"
  <2>1. \E v : SentBody = [NoContent EXCEPT !.json = {v}]
    BY <1>4 DEF SentBody
  <2> QED BY <2>1 DEF NoContent, AtMostOne
<1>5. CASE config.body.kind = "form"
  <2>1. CASE IsMultipart(config)
    <3>1. SentBody = MultipartBody(GivenBody(config.body.fields))
      BY <1>5, <2>1 DEF SentBody
    <3>2. \A fields : MultipartBody(fields).json = {}
      BY DEF MultipartBody, FormBody
    <3> QED BY <3>1, <3>2 DEF AtMostOne
  <2>2. CASE ~IsMultipart(config)
    <3>1. \E parts : SentBody = [NoContent EXCEPT !.parts = parts]
      BY <1>5, <2>2 DEF SentBody
    <3> QED BY <3>1 DEF NoContent, AtMostOne
  <2> QED BY <2>1, <2>2
<1> QED BY <1>1, <1>2, <1>3, <1>4, <1>5

\* The inductive invariant of the two sides.
BothInv == IInv /\ BodyKept /\ CallInv /\ HeardInv

\* A call that is sent, and one that is not.
LEMMA SendIsHeard ==
  ASSUME BothInv, Send, UNCHANGED macroVars, CallInv'
  PROVE  BothInv'
<1>1. /\ outcome = "called" /\ UNCHANGED <<config, secret, verifier, ctx, answer, started, base, token, call>>
      /\ UNCHANGED input
  BY DEF Send, macroVars
<1>2. Asked /\ AtMostOne(token)
  BY <1>1 DEF BothInv, HeardInv
<1>3. Resting /\ Fallow
  <2>1. "called" \notin Answered \cup {"error"}
    BY DEF Answered
  <2> QED BY <1>1, <2>1 DEF BothInv, HeardInv, Heard
<1>4. /\ Asked' <=> Asked
      /\ SentQuery' = SentQuery /\ SentHeaders' = SentHeaders /\ SentBody' = SentBody
  BY <1>1, AskedStays
<1>5. /\ Addressable' <=> Addressable
      /\ Own' = Own /\ \A n : ParamText(n)' = ParamText(n)
  BY <1>1, CallStays
<1>6. ctx'.query = [n \in DOMAIN ctx'.query |-> ctx'.query[n]]
  BY <1>1 DEF BothInv, HeardInv
<1>7. outcome' # "ok" /\ answer'.status # 200
  BY <1>1, <1>3 DEF Send, Fallow, NoAnswer
<1>8. CASE UNCHANGED <<stage, req, turn, landed>>
  <2>1. IInv' /\ BodyKept'
    <3>1. [Next]_gateVars
      BY <1>1, <1>8 DEF gateVars
    <3> QED BY <3>1, StepKeeps, BodyStays DEF BothInv
  <2>2. Resting' /\ Fallow'
    BY <1>1, <1>3, <1>8 DEF Resting, Fallow
  <2> QED BY <1>1, <1>2, <1>4, <1>6, <1>7, <2>1, <2>2 DEF BothInv, HeardInv
<1>9. ASSUME ~Unsendable, outcome' = "sent", landed' = Lands(Segments), landed' = Own,
             stage' = "extract", req' = Received, turn' = 1
      PROVE  BothInv'
  <2>1. stage = "idle"
    BY <1>9 DEF Unsendable
  <2>2. /\ req'.malformed = FALSE /\ req'.query = SentQuery /\ req'.headers = SentHeaders /\ req'.body = SentBody
        /\ DOMAIN req'.path = {config.path[k].name : k \in DOMAIN config.path}
    BY <1>9 DEF Received
  <2>3. RequestOk'
    <3>1. AtMostOne(req'.body.json)
      BY <1>2, <2>2, SentJson
    <3>2. \A j \in DOMAIN config'.path : config'.path[j].name \in DOMAIN req'.path
      BY <1>1, <2>2
    <3> QED BY <3>1, <3>2 DEF RequestOk
  <2>4. IInv'
    <3>1. ctx' = EmptyCtx /\ answer' = NoAnswer /\ started' = FALSE /\ UNCHANGED appVars
      BY <1>1, <1>3 DEF Fallow, appVars
    <3> QED BY <1>9, <2>1, <2>3, <3>1, ArrivalKeeps DEF BothInv
  <2>5. BodyKept'
    BY <1>1, <1>3, <1>9 DEF BodyKept, Fallow
  <2>6. ~Resting'
    BY <1>9 DEF Resting
  <2>7. Heard'
    <3>1. outcome' \in Answered \cup {"error"}
      BY <1>9 DEF Answered
    <3>2. Addressable' => \A n \in DOMAIN req'.path : {req'.path[n]} = ParamText(n)'
      <4>1. outcome' \in Answered
        BY <1>9 DEF Answered
      <4> QED BY <4>1 DEF CallInv, CallArrives
    <3> QED BY <1>1, <1>2, <1>4, <2>2, <3>1, <3>2 DEF Heard
  <2> QED BY <1>1, <1>2, <1>4, <1>6, <1>7, <2>4, <2>5, <2>6, <2>7 DEF BothInv, HeardInv
<1>10. CASE outcome' = "sent" /\ UNCHANGED <<stage, req, turn>>
  <2>1. IInv' /\ BodyKept'
    <3>1. [Next]_gateVars
      BY <1>1, <1>10 DEF gateVars
    <3> QED BY <3>1, StepKeeps, BodyStays DEF BothInv
  <2>2. Resting' /\ Fallow'
    BY <1>1, <1>3, <1>10 DEF Resting, Fallow
  <2> QED BY <1>1, <1>2, <1>4, <1>6, <1>7, <2>1, <2>2 DEF BothInv, HeardInv
<1> QED BY <1>8, <1>9, <1>10 DEF Send

\* A step of the server for the call.
LEMMA HandlerHears ==
  ASSUME BothInv, Handler, UNCHANGED <<macroVars, clientVars>>, CallInv'
  PROVE  BothInv'
<1>1. UNCHANGED <<input, token, call, landed, outcome, config, req>>
  BY HandlerKeeps DEF macroVars, clientVars
<1>2. IInv' /\ BodyKept'
  <2>1. Next
    BY DEF Next, Handler
  <2> QED BY <2>1, StepKeeps, BodyStays DEF BothInv
<1>3. /\ Resting => Resting' /\ UNCHANGED <<ctx, answer, started>>
      /\ ~Resting => ~Resting'
      /\ started => started'
      /\ Answers
  BY HandlerTells DEF BothInv
<1>4. /\ Asked' <=> Asked
      /\ SentQuery' = SentQuery /\ SentHeaders' = SentHeaders /\ SentBody' = SentBody
  BY <1>1, AskedStays
<1>5. /\ Addressable' <=> Addressable
      /\ Own' = Own /\ \A n : ParamText(n)' = ParamText(n)
  BY <1>1, CallStays
<1>6. Resting' => Fallow'
  BY <1>3 DEF BothInv, HeardInv, Fallow
<1>7. ~Resting' => Heard'
  BY <1>1, <1>3, <1>4, <1>5 DEF BothInv, HeardInv, Heard
<1>8. ctx'.query = [n \in DOMAIN ctx'.query |-> ctx'.query[n]]
  BY QueryStays DEF BothInv, HeardInv
<1>9. answer'.status = 200 => Ran'
  BY <1>1, <1>3 DEF Answers, BothInv, HeardInv, Ran
<1>10. outcome' = "ok" /\ landed' = Own' => Ran'
  BY <1>1, <1>3, <1>5 DEF BothInv, HeardInv, Ran
<1>11. AtMostOne(token') /\ (outcome' \in {"called", "sent"} => Asked')
  BY <1>1, <1>4 DEF BothInv, HeardInv
<1> QED BY <1>2, <1>6, <1>7, <1>8, <1>9, <1>10, <1>11 DEF BothInv, HeardInv

\* A step of the client before or after it, or of the macro.
LEMMA OthersHear ==
  ASSUME BothInv, CallInv', UNCHANGED <<input, gateVars>>, AtMostOne(token'),
         outcome' \in {"called", "sent"} => Asked',
         ~Resting => UNCHANGED <<token, call>> /\ outcome' \in Answered \cup {"error"},
         outcome' = "ok" /\ landed' = Own' => Ran'
  PROVE  BothInv'
<1>1. UNCHANGED <<config, secret, verifier, stage, turn, req, ctx, answer, started>>
  BY DEF gateVars
<1>2. IInv' /\ BodyKept'
  BY StepKeeps, BodyStays DEF BothInv
<1>3. (Resting' <=> Resting) /\ (Fallow' <=> Fallow)
  BY <1>1 DEF Resting, Fallow
<1>4. ASSUME ~Resting PROVE Heard'
  <2>1. UNCHANGED <<token, call>> /\ outcome' \in Answered \cup {"error"}
    BY <1>4
  <2>2. /\ Asked' <=> Asked
        /\ SentQuery' = SentQuery /\ SentHeaders' = SentHeaders /\ SentBody' = SentBody
    BY <1>1, <2>1, AskedStays
  <2>3. /\ Addressable' <=> Addressable
        /\ \A n : ParamText(n)' = ParamText(n)
    BY <1>1, <2>1, CallStays
  <2>4. Answered' = Answered
    BY DEF Answered
  <2> QED BY <1>1, <1>4, <2>1, <2>2, <2>3, <2>4 DEF BothInv, HeardInv, Heard
<1>5. ctx'.query = [n \in DOMAIN ctx'.query |-> ctx'.query[n]] /\ (answer'.status = 200 => Ran')
  BY <1>1 DEF BothInv, HeardInv, Ran
<1>6. Resting' => Fallow'
  BY <1>3 DEF BothInv, HeardInv
<1> QED BY <1>2, <1>3, <1>4, <1>5, <1>6 DEF BothInv, HeardInv

LEMMA BothInitially == CallInit => BothInv
<1> SUFFICES ASSUME CallInit PROVE BothInv
  OBVIOUS
<1>1. CallInv
  BY CallInvStarts
<1>2. /\ ctx = EmptyCtx /\ answer = NoAnswer /\ started = FALSE /\ turn = 1
      /\ token = {} /\ outcome = "none" /\ stage \in {"starting", "down"}
      /\ req \in Requests
  BY RequestAssumption DEF CallInit
<1>3. config \in Configs
  BY <1>1, CallAssumption DEF CallInv
<1>4. RequestOk
  BY <1>2, <1>3, RequestAssumption DEF RequestOk
<1>5. IInv
  BY <1>2, <1>3, <1>4, UntouchedHolds DEF Untouched
<1>6. BodyKept
  BY <1>2 DEF BodyKept
<1>7. ctx.query = [n \in DOMAIN ctx.query |-> ctx.query[n]]
  <2>1. <<>> = [n \in DOMAIN <<>> |-> <<>>[n]]
    OBVIOUS
  <2>2. ctx.query = <<>>
    BY <1>2 DEF EmptyCtx
  <2> QED BY <2>1, <2>2
<1>8. Resting /\ Fallow /\ AtMostOne(token) /\ answer.status # 200
  BY <1>2 DEF Resting, Fallow, AtMostOne, NoAnswer
<1> QED BY <1>1, <1>2, <1>5, <1>6, <1>7, <1>8 DEF BothInv, HeardInv

LEMMA BothStay ==
  ASSUME BothInv, [CallNext]_callVars
  PROVE  BothInv'
<1>1. CallInv'
  BY CallInvStays DEF BothInv
<1>2. CASE MacroNext /\ UNCHANGED <<gateVars, clientVars>>
  <2>1. input' = input
    BY <1>2 DEF MacroNext, ParseInput, ReadSpec, DuplicateName, NoEndpoint, MappedTwice, Generate, Emit, Fail, NextLine
  <2>2. UNCHANGED <<token, call, landed, outcome, started, config>>
    BY <1>2 DEF gateVars, clientVars
  <2>3. (Asked' <=> Asked) /\ Own' = Own
    BY <2>1, <2>2, AskedStays, CallStays
  <2> QED BY <1>1, <1>2, <2>1, <2>2, <2>3, OthersHear DEF BothInv, HeardInv, Heard, Ran
<1>3. CASE Handler /\ UNCHANGED <<macroVars, clientVars>>
  BY <1>1, <1>3, HandlerHears
<1>4. CASE (NewClient \/ SetToken \/ Start \/ Elsewhere \/ Receive) /\ UNCHANGED <<macroVars, gateVars>>
  <2>1. UNCHANGED <<input, gateVars, config, started, answer, stage>>
    BY <1>4 DEF macroVars, gateVars
  <2>2. /\ AtMostOne(token) /\ (~Resting => outcome \in Answered \cup {"error"})
        /\ "none" \notin Answered \cup {"error"}
    BY DEF BothInv, HeardInv, Heard, Answered
  <2>3. CASE NewClient
    <3>1. outcome = "none" /\ outcome' \in {"none", "error"} /\ UNCHANGED <<token, call, landed>>
      BY <2>3 DEF NewClient
    <3> QED BY <1>1, <2>1, <2>2, <3>1, OthersHear
  <2>4. CASE SetToken
    <3>1. outcome = "none" /\ outcome' = "none" /\ AtMostOne(token')
      BY <2>4 DEF SetToken, AtMostOne
    <3> QED BY <1>1, <2>1, <2>2, <3>1, OthersHear
  <2>5. CASE Start
    <3>1. outcome = "none" /\ outcome' = "called" /\ call' \in Calls /\ token' = token
      BY <2>5 DEF Start
    <3>2. Asked'
      <4>1. Calls' = Calls /\ config' = config
        BY <2>1, CallsStay
      <4>2. config \in Configs
        BY CallAssumption DEF BothInv, CallInv
      <4> QED BY <3>1, <4>1, <4>2 DEF Asked
    <3> QED BY <1>1, <2>1, <2>2, <3>1, <3>2, OthersHear
  <2>6. CASE Elsewhere
    <3>1. /\ outcome = "sent" /\ outcome' \in {"ok", "status", "error"} /\ UNCHANGED <<token, call, landed>>
          /\ landed # Own
      BY <2>6 DEF Elsewhere
    <3>2. Own' = Own
      BY <2>1, <3>1, CallStays
    <3>3. outcome' \in Answered \cup {"error"}
      BY <3>1 DEF Answered
    <3> QED BY <1>1, <2>1, <2>2, <3>1, <3>2, <3>3, OthersHear
  <2>7. CASE Receive
    <3>1. /\ outcome = "sent" /\ outcome' \in {"ok", "status", "error"} /\ UNCHANGED <<token, call, landed>>
          /\ (outcome' = "ok" => answer.status = 200)
      BY <2>7 DEF Receive
    <3>2. outcome' = "ok" => Ran'
      BY <2>1, <3>1 DEF BothInv, HeardInv, Ran
    <3>3. outcome' \in Answered \cup {"error"}
      BY <3>1 DEF Answered
    <3> QED BY <1>1, <2>1, <2>2, <3>1, <3>2, <3>3, OthersHear
  <2> QED BY <1>4, <2>3, <2>4, <2>5, <2>6, <2>7
<1>5. CASE Send /\ UNCHANGED macroVars
  BY <1>1, <1>5, SendIsHeard
<1>6. CASE UNCHANGED callVars
  <2>1. UNCHANGED <<input, gateVars, token, call, landed, outcome, started, config>>
    BY <1>6 DEF callVars, gateVars
  <2>2. (Asked' <=> Asked) /\ Own' = Own
    BY <2>1, AskedStays, CallStays
  <2> QED BY <1>1, <2>1, <2>2, OthersHear DEF BothInv, HeardInv, Heard, Ran
<1> QED BY <1>2, <1>3, <1>4, <1>5, <1>6 DEF CallNext

\* The values of a call are those of the command's context.
LEMMA RunsTheCall ==
  ASSUME BothInv, started, Addressable
  PROVE  /\ ctx.query = [n \in GivenOf(config.query) |-> TheValue(config.query, n)]
         /\ \A k \in DOMAIN config.headers :
              LET n == config.headers[k].name
              IN {ctx.headers[h] : h \in {n} \cap DOMAIN ctx.headers} = Seen(n)
         /\ \A n \in DOMAIN ctx.path : {ctx.path[n]} = ParamText(n)
<1>1. stage = "answered" /\ ExecutesOnlyGood
  BY DEF BothInv, IInv, StartedLast
<1>2. Heard /\ AtMostOne(token) /\ Asked
  BY <1>1 DEF BothInv, HeardInv, Resting, Heard
<1>3. \A scope \in Scopes : /\ DOMAIN ctx[scope] = Names(scope) \cap DOMAIN Given(scope)
                            /\ \A n \in DOMAIN ctx[scope] : ctx[scope][n] = Given(scope)[n]
  BY <1>1 DEF ExecutesOnlyGood
<1>4. /\ Given("query") = req.query /\ Given("headers") = VisibleHeaders /\ Given("path") = req.path
      /\ "query" \in Scopes /\ "headers" \in Scopes /\ "path" \in Scopes
  BY DEF Given, Scopes
<1>5. ctx.query = [n \in GivenOf(config.query) |-> TheValue(config.query, n)]
  <2>1. req.query = [n \in GivenOf(config.query) |-> TheValue(config.query, n)]
    BY <1>2, QueryTold DEF Heard
  <2>2. GivenOf(config.query) \subseteq Names("query")
    BY DEF GivenOf, Names
  <2>3. DOMAIN ctx.query = GivenOf(config.query)
    BY <1>3, <1>4, <2>1, <2>2
  <2>4. \A n \in DOMAIN ctx.query : ctx.query[n] = TheValue(config.query, n)
    BY <1>3, <1>4, <2>1, <2>3
  <2>5. ctx.query = [n \in DOMAIN ctx.query |-> ctx.query[n]]
    BY DEF BothInv, HeardInv
  <2> QED BY <2>3, <2>4, <2>5
<1>6. ASSUME NEW k \in DOMAIN config.headers
      PROVE  {ctx.headers[h] : h \in {config.headers[k].name} \cap DOMAIN ctx.headers} = Seen(config.headers[k].name)
  <2> DEFINE n == config.headers[k].name
  <2>1. n \in Names("headers")
    BY DEF Names
  <2>2. n \in DOMAIN ctx.headers <=> n \in DOMAIN VisibleHeaders
    BY <1>3, <1>4, <2>1
  <2>3. n \in DOMAIN ctx.headers => ctx.headers[n] = VisibleHeaders[n]
    BY <1>3, <1>4
  <2>4. Lookup(VisibleHeaders, n) = Seen(n)
    BY <1>2, HeadersTold DEF Heard
  <2> HIDE DEF n
  <2>5. {ctx.headers[h] : h \in {n} \cap DOMAIN ctx.headers} = Lookup(VisibleHeaders, n)
    BY <2>2, <2>3 DEF Lookup
  <2> QED BY <2>4, <2>5 DEF n
<1>7. ASSUME NEW n \in DOMAIN ctx.path PROVE {ctx.path[n]} = ParamText(n)
  <2>1. n \in DOMAIN req.path /\ ctx.path[n] = req.path[n]
    BY <1>3, <1>4
  <2> QED BY <1>2, <2>1 DEF Heard
<1> QED BY <1>5, <1>6, <1>7

\* And so is the body.
LEMMA RunsTheBody ==
  ASSUME BothInv, started
  PROVE  /\ config.body.kind \in {"string", "binary"} => ctx.body.value = call.body
         /\ HasFields(config) /\ Legible =>
              LET fields == config.body.fields
                  values == IF config.body.kind = "json" THEN ctx.body.value.fields ELSE ctx.body.value
              IN /\ DOMAIN values = {fields[k].name : k \in BodyGiven(fields)}
                 /\ \A k \in BodyGiven(fields) :
                      IF config.body.kind = "json" THEN values[fields[k].name].items = JsonItems(fields[k])
                      ELSE values[fields[k].name].value = Head(ListOf(fields[k]))
<1>1. stage = "answered" /\ ctx.body = BodyValue
  BY DEF BothInv, IInv, StartedLast, BodyKept
<1>2. Asked /\ req.body = SentBody
  BY <1>1 DEF BothInv, HeardInv, Resting, Heard
<1>3. ASSUME config.body.kind \in {"string", "binary"} PROVE ctx.body.value = call.body
  <2>1. SentBody = [NoContent EXCEPT !.raw = call.body, !.len = Len(call.body)]
    BY <1>3 DEF SentBody
  <2>2. req.body.raw = call.body
    BY <1>2, <2>1 DEF NoContent
  <2>3. BodyValue = [kind |-> config.body.kind, value |-> req.body.raw]
    BY <1>3 DEF BodyValue
  <2> QED BY <1>1, <2>2, <2>3
<1>4. ASSUME HasFields(config), Legible
      PROVE  LET fields == config.body.fields
                 values == IF config.body.kind = "json" THEN ctx.body.value.fields ELSE ctx.body.value
             IN /\ DOMAIN values = {fields[k].name : k \in BodyGiven(fields)}
                /\ \A k \in BodyGiven(fields) :
                     IF config.body.kind = "json" THEN values[fields[k].name].items = JsonItems(fields[k])
                     ELSE values[fields[k].name].value = Head(ListOf(fields[k]))
  <2> DEFINE fields == config.body.fields
  <2>1. NamedOnce(fields)
    BY <1>2, <1>4, ConfigAssumption DEF Asked, HasFields
  <2>2. CASE config.body.kind = "json"
    <3> DEFINE v == JsonBody(GivenBody(fields))
    <3>1. req.body.json = {v}
      BY <1>2, <1>4, <2>2 DEF SentBody, HasFields, NoContent
    <3>2. \A x : (CHOOSE w \in {x} : TRUE) = x
      OBVIOUS
    <3>3. /\ DOMAIN v.fields = {fields[k].name : k \in BodyGiven(fields)}
          /\ \A k \in BodyGiven(fields) :
               v.fields[fields[k].name] = [array |-> fields[k].array, items |-> JsonItems(fields[k])]
      BY <2>1, JsonTold
    <3> HIDE DEF v, fields
    <3>4. BodyValue = [kind |-> "json", value |-> v]
      BY <2>2, <3>1, <3>2 DEF BodyValue
    <3>5. ctx.body.value.fields = v.fields
      BY <1>1, <3>4
    <3>6. \A k \in BodyGiven(fields) : v.fields[fields[k].name].items = JsonItems(fields[k])
      <4>1. \A a, b : [array |-> a, items |-> b].items = b
        OBVIOUS
      <4> QED BY <3>3, <4>1
    <3> QED BY <2>2, <3>3, <3>5, <3>6 DEF fields
  <2>3. CASE config.body.kind = "form"
    <3>1. FormTold(fields)
      BY <1>2, <1>4, <2>3, FormIsTold
    <3>2. BodyValue = [kind |-> "form", value |-> ParsedForm(fields)]
      BY <2>3 DEF BodyValue
    <3>3. ctx.body.value = ParsedForm(fields)
      BY <1>1, <3>2
    <3> HIDE DEF fields
    <3> QED BY <2>3, <3>1, <3>3 DEF fields, FormTold
  <2> QED BY <1>4, <2>2, <2>3 DEF HasFields
<1> QED BY <1>3, <1>4

\* A command that runs for a call has the call's values under the declared names, and only
\* such a run, or the answer of a dry run, is an Ok (build_query_apply, build_header_apply, body_field_tokens,
\* multipart_body_impl; ensure_success).
THEOREM AlwaysExecutesTheCall == CallSpec => []ExecutesTheCall
<1>1. BothInv => ExecutesTheCall
  <2> SUFFICES ASSUME BothInv PROVE ExecutesTheCall
    OBVIOUS
  <2>1. outcome = "ok" /\ landed = Own => started \/ config.dryRun
    BY DEF BothInv, HeardInv, Ran
  <2> QED BY <2>1, RunsTheCall, RunsTheBody, Zenon DEF ExecutesTheCall
<1> QED BY <1>1, BothInitially, BothStay, PTL DEF CallSpec

----------------------------------------------------------------------------
(* The token: the server reads what the client was given. *)

\* What trimming leaves.
LEMMA TrimEndIs ==
  ASSUME NEW U, NEW s \in Seq(U), NEW a
  PROVE  \E n \in 0..Len(s) :
           /\ TrimEnd(s, a) = SubSeq(s, 1, n)
           /\ n = 0 \/ s[n] # a
           /\ \A k \in 1..Len(s) : k > n => s[k] = a
<1> DEFINE L == Len(s)
           K == Kept(s, a)
           n == CHOOSE n \in K \cup {0} : \A k \in K : n >= k
<1>1. L \in Nat /\ DOMAIN s = 1..L
  OBVIOUS
<1> HIDE DEF L
<1>2. K \subseteq 1..L /\ \A k \in 1..L : k \in K <=> s[k] # a
  BY <1>1 DEF Kept
<1> HIDE DEF K
<1>3. \E m \in K \cup {0} : \A k \in K : m >= k
  <2>1. CASE K = {}
    BY <2>1
  <2>2. CASE K # {}
    <3>1. PICK m \in K : \A k \in K : k =< m
      BY <1>1, <1>2, <2>2, LastOfSome
    <3>2. \A k \in K : m >= k
      BY <1>1, <1>2, <3>1
    <3> QED BY <3>2
  <2> QED BY <2>1, <2>2
<1>4. n \in K \cup {0} /\ \A k \in K : n >= k
  BY <1>3
<1>5. TrimEnd(s, a) = SubSeq(s, 1, n)
  BY DEF TrimEnd, n, K
<1> HIDE DEF n
<1>6. n \in 0..L /\ (n = 0 \/ s[n] # a)
  BY <1>1, <1>2, <1>4
<1>7. ASSUME NEW k \in 1..L, k > n PROVE s[k] = a
  BY <1>1, <1>2, <1>4, <1>6, <1>7
<1> QED BY <1>5, <1>6, <1>7 DEF L

LEMMA TrimStartIs ==
  ASSUME NEW U, NEW s \in Seq(U), NEW a
  PROVE  \E n \in 1..(Len(s) + 1) :
           /\ TrimStart(s, a) = SubSeq(s, n, Len(s))
           /\ n = Len(s) + 1 \/ s[n] # a
           /\ \A k \in 1..Len(s) : k < n => s[k] = a
<1> DEFINE L == Len(s)
           K == Kept(s, a)
           n == CHOOSE n \in K \cup {L + 1} : \A k \in K : n =< k
<1>1. L \in Nat /\ DOMAIN s = 1..L
  OBVIOUS
<1> HIDE DEF L
<1>2. K \subseteq 1..L /\ \A k \in 1..L : k \in K <=> s[k] # a
  BY <1>1 DEF Kept
<1> HIDE DEF K
<1>3. \E m \in K \cup {L + 1} : \A k \in K : m =< k
  <2>1. CASE K = {}
    BY <2>1
  <2>2. CASE K # {}
    <3>1. K \subseteq Nat
      BY <1>1, <1>2
    <3>2. PICK m \in K : \A k \in K : m =< k
      BY <2>2, <3>1, LeastOf
    <3> QED BY <3>2
  <2> QED BY <2>1, <2>2
<1>4. n \in K \cup {L + 1} /\ \A k \in K : n =< k
  BY <1>3
<1>5. TrimStart(s, a) = SubSeq(s, n, L)
  BY DEF TrimStart, n, K, L
<1> HIDE DEF n
<1>6. n \in 1..(L + 1) /\ (n = L + 1 \/ s[n] # a)
  BY <1>1, <1>2, <1>4
<1>7. ASSUME NEW k \in 1..L, k < n PROVE s[k] = a
  BY <1>1, <1>2, <1>4, <1>6, <1>7
<1> QED BY <1>5, <1>6, <1>7 DEF L

\* A part of a sequence, place by place.
LEMMA PartOf ==
  ASSUME NEW U, NEW s \in Seq(U), NEW b \in 1..(Len(s) + 1), NEW e \in 0..Len(s), b =< e + 1
  PROVE  /\ SubSeq(s, b, e) \in Seq(U) /\ Len(SubSeq(s, b, e)) = e + 1 - b
         /\ \A i \in 1..(e + 1 - b) : SubSeq(s, b, e)[i] = s[b + i - 1]
<1>1. b \in Int /\ e \in Int /\ Len(s) \in Nat
  OBVIOUS
<1>2. \A i \in b..e : s[i] \in U
  <2>1. \A i \in b..e : i \in 1..Len(s)
    BY <1>1
  <2> QED BY <2>1, ElementOfSeq
<1>3. /\ SubSeq(s, b, e) \in Seq(U)
      /\ Len(SubSeq(s, b, e)) = (IF b <= e THEN e - b + 1 ELSE 0)
      /\ \A i \in 1..(e - b + 1) : SubSeq(s, b, e)[i] = s[b + i - 1]
  BY <1>1, <1>2, SubSeqProperties
<1>4. e - b + 1 = e + 1 - b /\ (~(b <= e) => e + 1 - b = 0)
  BY <1>1
<1> QED BY <1>3, <1>4

\* Both ends: nothing, if there is nothing but a; else from the first that is not to the last.
Trimmed(s, a, b, e) ==
  /\ b \in 1..Len(s) /\ e \in b..Len(s) /\ s[b] # a /\ s[e] # a
  /\ \A k \in 1..Len(s) : k < b \/ k > e => s[k] = a

TrimCases(U, s, a) ==
  \/ Trim(s, a) = <<>> /\ \A k \in 1..Len(s) : s[k] = a
  \/ \E b, e : /\ Trimmed(s, a, b, e)
               /\ Trim(s, a) \in Seq(U) /\ Len(Trim(s, a)) = e + 1 - b
               /\ \A i \in 1..(e + 1 - b) : Trim(s, a)[i] = s[b + i - 1]

LEMMA TrimIs ==
  ASSUME NEW U, NEW s \in Seq(U), NEW a
  PROVE  TrimCases(U, s, a)
<1> USE DEF TrimCases
<1> DEFINE L == Len(s)
           t == TrimStart(s, a)
           u == TrimEnd(t, a)
<1>1. PICK b \in 1..(L + 1) : /\ t = SubSeq(s, b, L)
                              /\ b = L + 1 \/ s[b] # a
                              /\ \A k \in 1..L : k < b => s[k] = a
  BY TrimStartIs
<1>2. L \in Nat /\ b \in Int /\ L \in 0..L /\ b =< L + 1
  OBVIOUS
<1>3. t \in Seq(U) /\ Len(t) = L + 1 - b /\ \A i \in 1..(L + 1 - b) : t[i] = s[b + i - 1]
  BY <1>1, <1>2, PartOf
<1> DEFINE M == L + 1 - b
<1>5. M \in Nat /\ Len(t) = M
  BY <1>2, <1>3
<1> HIDE DEF M
<1>10. \E n \in 0..Len(t) : /\ u = SubSeq(t, 1, n)
                            /\ n = 0 \/ t[n] # a
                            /\ \A k \in 1..Len(t) : k > n => t[k] = a
  <2>1. t \in Seq(U)
    BY <1>3
  <2> HIDE DEF t
  <2> QED BY <2>1, TrimEndIs DEF u
<1>4. PICK n \in 0..M : /\ u = SubSeq(t, 1, n)
                        /\ n = 0 \/ t[n] # a
                        /\ \A k \in 1..M : k > n => t[k] = a
  BY <1>5, <1>10
<1>6. u \in Seq(U) /\ Len(u) = n /\ \A i \in 1..n : u[i] = t[i]
  <2>1. 1 \in 1..(Len(t) + 1) /\ n \in 0..Len(t) /\ 1 =< n + 1 /\ n + 1 - 1 = n
    BY <1>5
  <2>2. /\ SubSeq(t, 1, n) \in Seq(U) /\ Len(SubSeq(t, 1, n)) = n + 1 - 1
        /\ \A i \in 1..(n + 1 - 1) : SubSeq(t, 1, n)[i] = t[1 + i - 1]
    BY <1>3, <2>1, PartOf
  <2>3. \A i \in 1..n : 1 + i - 1 = i
    OBVIOUS
  <2> QED BY <1>4, <2>1, <2>2, <2>3
<1>7. Trim(s, a) = u
  BY DEF Trim
<1> HIDE DEF t, u, L
<1>8. CASE n = 0
  <2>1. u = <<>>
    BY <1>6, <1>8, EmptySeq
  <2>2. \A k \in 1..L : s[k] = a
    <3>1. b = L + 1
      <4>1. CASE b # L + 1
        <5>1. 1 \in 1..M /\ b + 1 - 1 = b
          BY <1>2, <4>1 DEF M
        <5>2. t[1] = s[b] /\ t[1] = a
          BY <1>3, <1>4, <1>8, <5>1 DEF M
        <5> QED BY <1>1, <4>1, <5>2
      <4> QED BY <4>1
    <3> QED BY <1>1, <1>2, <3>1
  <2> QED BY <1>7, <2>1, <2>2 DEF L
<1>9. CASE n # 0
  <2> DEFINE e == b + n - 1
  <2>1. n \in 1..M /\ e \in b..L /\ b \in 1..L /\ e + 1 - b = n
    BY <1>2, <1>5, <1>9 DEF M
  <2>2. s[b] # a /\ s[e] # a
    <3>1. b # L + 1
      BY <1>2, <2>1
    <3>2. t[n] = s[e]
      BY <1>3, <2>1 DEF M
    <3> QED BY <1>1, <1>4, <1>9, <3>1, <3>2
  <2>3. ASSUME NEW k \in 1..L, k < b \/ k > e PROVE s[k] = a
    <3>1. CASE k < b
      BY <1>1, <3>1
    <3>2. CASE k > e
      <4>1. k + 1 - b \in 1..M /\ k + 1 - b > n /\ b + (k + 1 - b) - 1 = k
        BY <1>2, <2>1, <3>2 DEF M
      <4>2. t[k + 1 - b] = s[k] /\ t[k + 1 - b] = a
        BY <1>3, <1>4, <4>1 DEF M
      <4> QED BY <4>2
    <3> QED BY <2>3, <3>1, <3>2
  <2>4. \A i \in 1..(e + 1 - b) : u[i] = s[b + i - 1]
    <3>1. ASSUME NEW i \in 1..(e + 1 - b) PROVE u[i] = s[b + i - 1]
      <4>1. i \in 1..n /\ i \in 1..M /\ i \in 1..(L + 1 - b)
        BY <1>2, <1>5, <2>1, <3>1 DEF M
      <4> QED BY <1>3, <1>6, <4>1
    <3> QED BY <3>1
  <2>5. u \in Seq(U) /\ Len(u) = e + 1 - b
    BY <1>6, <2>1
  <2> HIDE DEF e
  <2>6. Trimmed(s, a, b, e)
    BY <2>1, <2>2, <2>3 DEF Trimmed, L
  <2> QED BY <1>7, <2>4, <2>5, <2>6
<1> QED BY <1>8, <1>9

\* A sequence has the ends it has.
LEMMA EndsAre ==
  ASSUME NEW U, NEW s \in Seq(U), NEW a, NEW b, NEW e, NEW c, NEW d,
         Trimmed(s, a, b, e), Trimmed(s, a, c, d)
  PROVE  b = c /\ e = d
<1>1. Len(s) \in Nat
  OBVIOUS
<1>2. b \in 1..Len(s) /\ e \in 1..Len(s) /\ c \in 1..Len(s) /\ d \in 1..Len(s)
  BY <1>1 DEF Trimmed
<1>3. ~(b < c) /\ ~(c < b) /\ ~(e > d) /\ ~(d > e)
  BY <1>2 DEF Trimmed
<1> QED BY <1>1, <1>2, <1>3

LEMMA EndsTyped ==
  ASSUME NEW U, NEW s \in Seq(U), NEW a, NEW b, NEW e, Trimmed(s, a, b, e)
  PROVE  /\ b \in Int /\ e \in Int /\ 1 =< b /\ b =< e /\ e =< Len(s)
         /\ e + 1 - b \in Nat /\ e + 1 - b >= 1 /\ b + (e + 1 - b) - 1 = e
<1>1. Len(s) \in Nat
  OBVIOUS
<1>2. b \in 1..Len(s) /\ e \in b..Len(s)
  BY DEF Trimmed
<1>3. b \in Int /\ e \in Int /\ 1 =< b /\ b =< e /\ e =< Len(s)
  BY <1>1, <1>2
<1> QED BY <1>3

\* The last lexeme of a header loses its blank too.
Mended(c) == IF c = "Bearer " THEN "Bearer" ELSE c

\* The words of the token's header.
Word == "Bearer "
Bare == "Bearer"
Blank == " "

LEMMA WordsDiffer ==
  /\ Word # Blank /\ Bare # Blank /\ Bare # Word /\ Bare \notin {Word, "bearer "} /\ Word \in {Word, "bearer "}
  /\ \A v : Bearer(v) = Dropped(Dropped(v, {Word, "bearer "}), {Blank})
  /\ \A t : BearerOf(t) = <<Word>> \o t
  /\ \A s : OnWire(s) = LET w == Trim(s, Blank)
                        IN IF w # <<>> /\ Last(w) = Word THEN Append(Front(w), Bare) ELSE w
  /\ Mended(Word) = Bare /\ \A c : c # Word => Mended(c) = c
<1>1. Word # Blank
  BY Zenon DEF Word, Blank
<1>2. Bare # Blank
  BY Zenon DEF Bare, Blank
<1>3. Bare # Word
  BY Zenon DEF Word, Bare
<1>4. Bare # "bearer "
  BY Zenon DEF Bare
<1>5. \A v : Bearer(v) = Dropped(Dropped(v, {Word, "bearer "}), {Blank})
  BY Zenon DEF Word, Blank, Bearer
<1>6. \A t : BearerOf(t) = <<Word>> \o t
  BY Zenon DEF Word, BearerOf
<1>7. Mended(Word) = Bare
  BY Zenon DEF Word, Bare, Mended
<1>8. \A c : c # Word => Mended(c) = c
  BY Zenon DEF Word, Mended
<1>9. \A s : OnWire(s) = LET w == Trim(s, Blank)
                        IN IF w # <<>> /\ Last(w) = Word THEN Append(Front(w), Bare) ELSE w
  BY Zenon DEF Word, Bare, Blank, OnWire
<1> QED BY <1>9, <1>1, <1>2, <1>3, <1>4, <1>5, <1>6, <1>7, <1>8

WireCases(U, s) ==
  \/ OnWire(s) = <<>> /\ Trim(s, Blank) = <<>> /\ \A k \in 1..Len(s) : s[k] = Blank
  \/ \E b, e :
       /\ Trimmed(s, Blank, b, e) /\ Trim(s, Blank) # <<>>
       /\ OnWire(s) \in Seq(U) /\ Len(OnWire(s)) = e + 1 - b
       /\ \A i \in 1..(e + 1 - b) : OnWire(s)[i] = IF i = e + 1 - b THEN Mended(s[e]) ELSE s[b + i - 1]

LEMMA OnWireIs ==
  ASSUME NEW U, Bare \in U, NEW s \in Seq(U)
  PROVE  WireCases(U, s)
<1> USE DEF WireCases
<1> DEFINE w == Trim(s, Blank)
<1>1. CASE w = <<>> /\ \A k \in 1..Len(s) : s[k] = Blank
  BY <1>1, WordsDiffer
<1>2. ASSUME NEW b, NEW e, Trimmed(s, Blank, b, e), w \in Seq(U), Len(w) = e + 1 - b,
             \A i \in 1..(e + 1 - b) : w[i] = s[b + i - 1]
      PROVE  /\ w # <<>> /\ OnWire(s) \in Seq(U) /\ Len(OnWire(s)) = e + 1 - b
             /\ \A i \in 1..(e + 1 - b) : OnWire(s)[i] = IF i = e + 1 - b THEN Mended(s[e]) ELSE s[b + i - 1]
  <2> DEFINE n == e + 1 - b
             o == IF w # <<>> /\ Last(w) = Word THEN Append(Front(w), Bare) ELSE w
  <2>1. OnWire(s) = o
    BY WordsDiffer
  <2>2. n \in Nat /\ n >= 1 /\ Len(w) = n /\ b + n - 1 = e /\ n \in 1..n
    <3>1. n \in Nat /\ n >= 1 /\ b + n - 1 = e
      <4>1. Trimmed(s, Blank, b, e)
        BY <1>2
      <4>2. \A a, x, y : Trimmed(s, a, x, y) => x \in Int /\ y \in Int /\ x =< y
        BY EndsTyped
      <4> HIDE DEF w, n, o
      <4>3. b \in Int /\ e \in Int /\ b =< e
        BY <4>1, <4>2
      <4> QED BY <4>3 DEF n
    <3>2. Len(w) = n
      BY <1>2
    <3> HIDE DEF n, w
    <3> QED BY <3>1, <3>2
  <2>8. \A i \in 1..n : w[i] = s[b + i - 1]
    BY <1>2
  <2>3. w[n] = s[e] /\ \A i \in 1..n : w[i] = s[b + i - 1]
    <3> HIDE DEF n, w
    <3> QED BY <2>2, <2>8
  <2> HIDE DEF n, w
  <2>9. w \in Seq(U)
    BY <1>2
  <2>4. w \in Seq(U) /\ w # <<>>
    BY <2>2, <2>9
  <2>5. Last(w) = s[e]
    BY <2>2, <2>3 DEF Last
  <2>6. /\ o \in Seq(U) /\ Len(o) = n
        /\ \A i \in 1..n : o[i] = IF i = n THEN Mended(s[e]) ELSE w[i]
    <3>1. CASE s[e] = Word
      <4> DEFINE f == Front(w)
      <4>1. f \in Seq(U) /\ Len(f) = n - 1 /\ \A i \in 1..(n - 1) : f[i] = w[i]
        <5>1. f = SubSeq(w, 1, n - 1)
          BY <2>2 DEF Front
        <5>2. 1 \in 1..(Len(w) + 1) /\ n - 1 \in 0..Len(w) /\ 1 =< n - 1 + 1 /\ n - 1 + 1 - 1 = n - 1
          BY <2>2
        <5>3. /\ SubSeq(w, 1, n - 1) \in Seq(U) /\ Len(SubSeq(w, 1, n - 1)) = n - 1 + 1 - 1
              /\ \A i \in 1..(n - 1 + 1 - 1) : SubSeq(w, 1, n - 1)[i] = w[1 + i - 1]
          BY <2>4, <5>2, PartOf
        <5>4. \A i \in 1..(n - 1) : 1 + i - 1 = i
          OBVIOUS
        <5> QED BY <5>1, <5>2, <5>3, <5>4
      <4> HIDE DEF f
      <4>2. o = Append(f, Bare)
        BY <2>4, <2>5, <3>1 DEF f
      <4>3. /\ Append(f, Bare) \in Seq(U) /\ Len(Append(f, Bare)) = Len(f) + 1
            /\ \A i \in 1..Len(f) : Append(f, Bare)[i] = f[i]
            /\ Append(f, Bare)[Len(f) + 1] = Bare
        BY <4>1, AppendProperties
      <4>4. Mended(s[e]) = Bare
        BY <3>1, WordsDiffer
      <4>5. Len(f) + 1 = n /\ \A i \in 1..n : i = n \/ i \in 1..(n - 1)
        BY <2>2, <4>1
      <4> HIDE DEF o
      <4> QED BY <4>1, <4>2, <4>3, <4>4, <4>5
    <3>2. CASE s[e] # Word
      <4>1. o = w
        BY <2>5, <3>2
      <4>2. Mended(s[e]) = s[e]
        BY <3>2, WordsDiffer
      <4> QED BY <2>2, <2>3, <2>4, <4>1, <4>2
    <3> QED BY <3>1, <3>2
  <2> HIDE DEF o
  <2>7. \A i \in 1..n : OnWire(s)[i] = IF i = n THEN Mended(s[e]) ELSE s[b + i - 1]
    BY <2>1, <2>3, <2>6
  <2> QED BY <2>1, <2>4, <2>6, <2>7 DEF n
<1>3. CASE \E b, e : /\ Trimmed(s, Blank, b, e)
                     /\ w \in Seq(U) /\ Len(w) = e + 1 - b
                     /\ \A i \in 1..(e + 1 - b) : w[i] = s[b + i - 1]
  <2>1. PICK b, e : /\ Trimmed(s, Blank, b, e)
                    /\ w \in Seq(U) /\ Len(w) = e + 1 - b
                    /\ \A i \in 1..(e + 1 - b) : w[i] = s[b + i - 1]
    BY <1>3
  <2> QED BY <1>2, <2>1
<1>4. \/ w = <<>> /\ \A k \in 1..Len(s) : s[k] = Blank
      \/ \E b, e : /\ Trimmed(s, Blank, b, e)
                   /\ w \in Seq(U) /\ Len(w) = e + 1 - b
                   /\ \A i \in 1..(e + 1 - b) : w[i] = s[b + i - 1]
  <2>1. TrimCases(U, s, Blank)
    BY TrimIs
  <2> QED BY <2>1 DEF TrimCases, w
<1> QED BY <1>1, <1>3, <1>4

\* One lexeme is dropped, or none.
LEMMA DroppedIs ==
  ASSUME NEW U, NEW w \in Seq(U), Len(w) >= 1, NEW X
  PROVE  /\ w[1] \notin X => Dropped(w, X) = w
         /\ w[1] \in X => /\ Dropped(w, X) \in Seq(U) /\ Len(Dropped(w, X)) = Len(w) - 1
                          /\ \A i \in 1..(Len(w) - 1) : Dropped(w, X)[i] = w[i + 1]
<1>1. w # <<>> /\ Head(w) = w[1]
  OBVIOUS
<1>2. Tail(w) \in Seq(U) /\ Len(Tail(w)) = Len(w) - 1 /\ \A i \in 1..Len(Tail(w)) : Tail(w)[i] = w[i + 1]
  BY <1>1, HeadTailProperties
<1>3. CASE w[1] \notin X
  BY <1>1, <1>3 DEF Dropped
<1>4. CASE w[1] \in X
  <2>1. Dropped(w, X) = Tail(w)
    BY <1>1, <1>4 DEF Dropped
  <2> QED BY <1>2, <1>4, <2>1
<1> QED BY <1>3, <1>4

\* The words of the token's header.
LEMMA BearerIs ==
  ASSUME NEW U, Word \in U, NEW t \in Seq(U)
  PROVE  /\ BearerOf(t) \in Seq(U) /\ Len(BearerOf(t)) = Len(t) + 1 /\ BearerOf(t)[1] = Word
         /\ \A i \in 1..Len(t) : BearerOf(t)[i + 1] = t[i]
<1> DEFINE h == <<Word>>
<1>1. h \in Seq(U) /\ Len(h) = 1 /\ h[1] = Word
  OBVIOUS
<1> HIDE DEF h
<1>2. Len(t) \in Nat
  OBVIOUS
<1>3. /\ h \o t \in Seq(U) /\ Len(h \o t) = Len(h) + Len(t)
      /\ \A i \in 1..(Len(h) + Len(t)) : (h \o t)[i] = IF i <= Len(h) THEN h[i] ELSE t[i - Len(h)]
  BY <1>1, ConcatProperties
<1>4. BearerOf(t) = h \o t
  BY WordsDiffer DEF h
<1>5. \A i \in 1..Len(t) : i + 1 \in 1..(1 + Len(t)) /\ ~(i + 1 <= 1) /\ i + 1 - 1 = i
  BY <1>2
<1>6. 1 \in 1..(1 + Len(t))
  BY <1>2
<1>7. \A i \in 1..Len(t) : (h \o t)[i + 1] = t[i]
  BY <1>1, <1>3, <1>5
<1> QED BY <1>1, <1>2, <1>3, <1>4, <1>6, <1>7

\* A token that is nothing but a blank, or nothing: the word alone arrives.
LEMMA BlankRead ==
  ASSUME NEW U, Bare \in U, Word \in U, NEW t \in Seq(U), \A k \in 1..Len(t) : t[k] = Blank
  PROVE  OnWire(BearerOf(t)) = <<Bare>> /\ Bearer(<<Bare>>) = <<Bare>>
<1> DEFINE v == BearerOf(t)
<1>1. v \in Seq(U) /\ Len(v) = Len(t) + 1 /\ v[1] = Word /\ \A i \in 1..Len(t) : v[i + 1] = t[i]
  BY BearerIs
<1> HIDE DEF v
<1>2. Len(t) \in Nat /\ 1 \in 1..Len(v) /\ Word # Blank
  <2>1. Len(t) \in Nat
    OBVIOUS
  <2>2. 1 \in 1..Len(v)
    BY <1>1, <2>1
  <2> QED BY <2>1, <2>2, WordsDiffer
<1>3. ~(\A k \in 1..Len(v) : v[k] = Blank)
  BY <1>1, <1>2
<1>4. PICK b, e : /\ Trimmed(v, Blank, b, e)
                  /\ OnWire(v) \in Seq(U) /\ Len(OnWire(v)) = e + 1 - b
                  /\ \A i \in 1..(e + 1 - b) : OnWire(v)[i] = IF i = e + 1 - b THEN Mended(v[e]) ELSE v[b + i - 1]
  <2>1. WireCases(U, v)
    BY <1>1, OnWireIs
  <2> QED BY <1>3, <2>1 DEF WireCases
<1>5. b \in Int /\ e \in Int /\ 1 =< b /\ b =< e /\ e =< Len(v)
  BY <1>1, <1>4, EndsTyped
<1>6. b = 1
  <2>1. ~(1 < b)
    BY <1>1, <1>2, <1>4 DEF Trimmed
  <2> QED BY <1>5, <2>1
<1>7. e = 1
  <2>1. CASE e # 1
    <3>1. e - 1 \in 1..Len(t) /\ e - 1 + 1 = e
      BY <1>1, <1>2, <1>5, <2>1
    <3>2. v[e] = Blank
      BY <1>1, <3>1
    <3> QED BY <1>4, <3>2 DEF Trimmed
  <2> QED BY <2>1
<1>8. e + 1 - b = 1
  BY <1>6, <1>7
<1>9. Len(OnWire(v)) = 1 /\ OnWire(v)[1] = Mended(v[e])
  BY <1>4, <1>8
<1>10. OnWire(v)[1] = Bare
  BY <1>1, <1>7, <1>9, WordsDiffer
<1>11. OnWire(v) = <<Bare>>
  <2> DEFINE x == OnWire(v)
  <2>1. x \in Seq(U) /\ Len(x) = 1 /\ x[1] = Bare
    BY <1>4, <1>9, <1>10
  <2> HIDE DEF x
  <2>2. x = <<Bare>>
    BY <2>1
  <2> QED BY <2>2 DEF x
<1>12. Bearer(<<Bare>>) = <<Bare>>
  <2> DEFINE x == <<Bare>>
  <2>1. x \in Seq(U) /\ Len(x) >= 1 /\ x[1] = Bare
    OBVIOUS
  <2> HIDE DEF x
  <2>2. Dropped(x, {Word, "bearer "}) = x
    BY <2>1, WordsDiffer, DroppedIs
  <2>3. Dropped(x, {Blank}) = x
    BY <2>1, WordsDiffer, DroppedIs
  <2>4. Bearer(x) = x
    BY <2>2, <2>3, WordsDiffer
  <2> QED BY <2>4 DEF x
<1> QED BY <1>11, <1>12 DEF v

\* A token with something in it: as it is, without the blanks at its ends.
LEMMA ShownRead ==
  ASSUME NEW U, Bare \in U, Word \in U, NEW t \in Seq(U),
         \A k \in 1..(Len(t) - 1) : t[k] # Blank \/ t[k + 1] # Blank,
         NEW b, NEW e, Trimmed(t, Blank, b, e), OnWire(t) \in Seq(U), Len(OnWire(t)) = e + 1 - b,
         \A i \in 1..(e + 1 - b) : OnWire(t)[i] = IF i = e + 1 - b THEN Mended(t[e]) ELSE t[b + i - 1]
  PROVE  Bearer(OnWire(BearerOf(t))) = OnWire(t)
<1> DEFINE v == BearerOf(t)
           w == OnWire(v)
           o == OnWire(t)
<1>1. v \in Seq(U) /\ Len(v) = Len(t) + 1 /\ v[1] = Word /\ \A i \in 1..Len(t) : v[i + 1] = t[i]
  BY BearerIs
<1>0. /\ o \in Seq(U) /\ Len(o) = e + 1 - b
      /\ \A i \in 1..(e + 1 - b) : o[i] = IF i = e + 1 - b THEN Mended(t[e]) ELSE t[b + i - 1]
  OBVIOUS
<1> HIDE DEF v, o
<1>2. b \in Int /\ e \in Int /\ 1 =< b /\ b =< e /\ e =< Len(t) /\ Len(t) \in Nat
  BY EndsTyped
<1>3. Word # Blank /\ t[b] # Blank /\ t[e] # Blank /\ \A k \in 1..Len(t) : k < b \/ k > e => t[k] = Blank
  BY WordsDiffer DEF Trimmed
<1>4. Trimmed(v, Blank, 1, e + 1)
  <2>1. 1 \in 1..Len(v) /\ e + 1 \in 1..Len(v) /\ e \in 1..Len(t)
    BY <1>1, <1>2
  <2>2. v[1] # Blank /\ v[e + 1] # Blank
    BY <1>1, <1>3, <2>1
  <2>3. ASSUME NEW k \in 1..Len(v), k < 1 \/ k > e + 1 PROVE v[k] = Blank
    <3>1. k - 1 \in 1..Len(t) /\ k - 1 > e /\ k - 1 + 1 = k
      BY <1>1, <1>2, <2>3
    <3> QED BY <1>1, <1>3, <3>1
  <2> QED BY <2>1, <2>2, <2>3 DEF Trimmed
<1>5. ~(\A k \in 1..Len(v) : v[k] = Blank)
  BY <1>4 DEF Trimmed
<1>6. PICK c, d : /\ Trimmed(v, Blank, c, d)
                  /\ OnWire(v) \in Seq(U) /\ Len(OnWire(v)) = d + 1 - c
                  /\ \A i \in 1..(d + 1 - c) : OnWire(v)[i] = IF i = d + 1 - c THEN Mended(v[d]) ELSE v[c + i - 1]
  <2>1. WireCases(U, v)
    BY <1>1, OnWireIs
  <2> QED BY <1>5, <2>1 DEF WireCases
<1>7. c = 1 /\ d = e + 1
  BY <1>1, <1>4, <1>6, EndsAre
<1>8. w \in Seq(U) /\ Len(w) = e + 1 /\ \A i \in 1..(e + 1) : w[i] = IF i = e + 1 THEN Mended(v[e + 1]) ELSE v[i]
  <2>1. d + 1 - c = e + 1 /\ \A i \in 1..(e + 1) : c + i - 1 = i
    BY <1>2, <1>7
  <2> QED BY <1>6, <1>7, <2>1
<1> HIDE DEF w
<1>9. e \in 1..Len(t) /\ v[e + 1] = t[e]
  BY <1>1, <1>2
<1>10. w[1] = Word
  <2>1. 1 \in 1..(e + 1) /\ 1 # e + 1
    BY <1>2
  <2> QED BY <1>1, <1>8, <2>1
<1>11. \A i \in 1..e : w[i + 1] = IF i = e THEN Mended(t[e]) ELSE t[i]
  <2>1. ASSUME NEW i \in 1..e PROVE w[i + 1] = IF i = e THEN Mended(t[e]) ELSE t[i]
    <3>1. i + 1 \in 1..(e + 1) /\ (i + 1 = e + 1 <=> i = e) /\ i \in 1..Len(t)
      BY <1>2
    <3>2. v[i + 1] = t[i]
      BY <1>1, <3>1
    <3> QED BY <1>8, <1>9, <3>1, <3>2
  <2> QED BY <2>1
<1> DEFINE x == Dropped(w, {Word, "bearer "})
<1>12. x \in Seq(U) /\ Len(x) = e /\ \A i \in 1..e : x[i] = IF i = e THEN Mended(t[e]) ELSE t[i]
  <2>1. Len(w) >= 1 /\ Len(w) - 1 = e
    BY <1>2, <1>8
  <2>2. w[1] \in {Word, "bearer "}
    BY <1>10
  <2>3. x \in Seq(U) /\ Len(x) = Len(w) - 1 /\ \A i \in 1..(Len(w) - 1) : x[i] = w[i + 1]
    <3>1. w \in Seq(U)
      BY <1>8
    <3> QED BY <2>1, <2>2, <3>1, DroppedIs
  <2> HIDE DEF x
  <2> QED BY <1>11, <2>1, <2>3
<1> HIDE DEF x
<1>13. Bearer(w) = Dropped(x, {Blank})
  BY WordsDiffer DEF x
<1>14. CASE b = 1
  <2>1. Len(x) >= 1 /\ 1 \in 1..e
    BY <1>2, <1>12
  <2>2. x[1] # Blank
    <3>1. Mended(t[e]) # Blank
      BY <1>3, WordsDiffer
    <3>2. x[1] = IF 1 = e THEN Mended(t[e]) ELSE t[1]
      BY <1>12, <2>1
    <3> QED BY <1>3, <1>14, <3>1, <3>2
  <2>3. Dropped(x, {Blank}) = x
    BY <1>12, <2>1, <2>2, DroppedIs
  <2>4. e + 1 - b = e /\ \A i \in 1..e : b + i - 1 = i
    BY <1>2, <1>14
  <2>5. x = o
    <3>1. Len(x) = Len(o)
      BY <1>12, <1>0, <2>4
    <3>2. \A i \in 1..Len(x) : x[i] = o[i]
      BY <1>12, <1>0, <2>4
    <3>3. x \in Seq(U) /\ o \in Seq(U)
      BY <1>12, <1>0
    <3> QED BY <3>1, <3>2, <3>3, SeqEqual
  <2> QED BY <1>13, <2>3, <2>5 DEF w, v, o
<1>15. CASE b # 1
  <2>1. b = 2
    <3>1. CASE b > 2
      <4>1. 1 \in 1..(Len(t) - 1) /\ 1 \in 1..Len(t) /\ 1 + 1 \in 1..Len(t) /\ 1 < b /\ 1 + 1 < b
        BY <1>2, <3>1
      <4>2. t[1] = Blank /\ t[1 + 1] = Blank
        BY <1>3, <4>1
      <4> QED BY <4>1, <4>2
    <3> QED BY <1>2, <1>15, <3>1
  <2>2. 1 \in 1..e /\ 1 # e /\ 1 \in 1..Len(t) /\ 1 < b /\ Len(x) >= 1
    BY <1>2, <1>12, <2>1
  <2>3. x[1] \in {Blank}
    BY <1>3, <1>12, <2>2
  <2> DEFINE y == Dropped(x, {Blank})
  <2>4. y \in Seq(U) /\ Len(y) = Len(x) - 1 /\ \A i \in 1..(Len(x) - 1) : y[i] = x[i + 1]
    BY <1>12, <2>2, <2>3, DroppedIs
  <2> HIDE DEF y
  <2>5. e + 1 - b = Len(x) - 1
    BY <1>2, <1>12, <2>1
  <2>6. ASSUME NEW i \in 1..(Len(x) - 1) PROVE y[i] = o[i]
    <3>1. i + 1 \in 1..e /\ (i + 1 = e <=> i = e + 1 - b) /\ b + i - 1 = i + 1 /\ i \in 1..(e + 1 - b)
      BY <1>2, <1>12, <2>1
    <3>2. x[i + 1] = IF i + 1 = e THEN Mended(t[e]) ELSE t[i + 1]
      BY <1>12, <3>1
    <3>3. o[i] = IF i = e + 1 - b THEN Mended(t[e]) ELSE t[b + i - 1]
      BY <1>0, <3>1
    <3> QED BY <2>4, <3>1, <3>2, <3>3
  <2>7. y = o
    <3>1. Len(y) = Len(o) /\ \A i \in 1..Len(y) : y[i] = o[i]
      BY <1>0, <2>4, <2>5, <2>6
    <3>2. y \in Seq(U) /\ o \in Seq(U)
      BY <1>0, <2>4
    <3> QED BY <3>1, <3>2, SeqEqual
  <2> QED BY <1>13, <2>7 DEF y, w, v, o
<1> QED BY <1>14, <1>15

\* The server reads the token that the client was given (Client::request; extract_bearer).
LEMMA TokenRead ==
  ASSUME NEW t \in Tokens
  PROVE  Bearer(OnWire(BearerOf(t))) = TokenOf(t)
<1> DEFINE U == ToSet(t) \cup {Word, Bare}
<1>1. t \in Seq(U)
  <2>1. Text(t)
    BY ValueAssumption
  <2>2. ToSet(t) \subseteq U
    OBVIOUS
  <2> HIDE DEF U
  <2> QED BY <2>1, <2>2, TextIn
<1>2. Bare \in U /\ Word \in U
  OBVIOUS
<1>3. \A k \in 1..(Len(t) - 1) : t[k] # Blank \/ t[k + 1] # Blank
  BY ValueAssumption, Zenon DEF Blank
<1> HIDE DEF U
<1>4. CASE Trim(t, Blank) = <<>> /\ \A k \in 1..Len(t) : t[k] = Blank
  <2>1. TokenOf(t) = <<Bare>>
    BY <1>4, Zenon DEF TokenOf, Blank, Bare
  <2> QED BY <1>1, <1>2, <1>4, <2>1, BlankRead
<1>5. ASSUME NEW b, NEW e, Trimmed(t, Blank, b, e), Trim(t, Blank) # <<>>,
             OnWire(t) \in Seq(U), Len(OnWire(t)) = e + 1 - b,
             \A i \in 1..(e + 1 - b) : OnWire(t)[i] = IF i = e + 1 - b THEN Mended(t[e]) ELSE t[b + i - 1]
      PROVE  Bearer(OnWire(BearerOf(t))) = TokenOf(t)
  <2>1. TokenOf(t) = OnWire(t)
    BY <1>5, Zenon DEF TokenOf, Blank
  <2>2. Bearer(OnWire(BearerOf(t))) = OnWire(t)
    BY <1>1, <1>2, <1>3, <1>5, ShownRead
  <2> QED BY <2>1, <2>2
<1>6. WireCases(U, t)
  BY <1>1, <1>2, OnWireIs
<1> QED BY <1>4, <1>5, <1>6 DEF WireCases

----------------------------------------------------------------------------
(* The gates, by the arguments of the call. *)

Served == Heard /\ AtMostOne(token) /\ token \subseteq Tokens

\* A header is seen exactly if the server can read it.
LEMMA SeenIs ==
  ASSUME Served, NEW n
  PROVE  /\ n \in DOMAIN VisibleHeaders => Seen(n) = {VisibleHeaders[n]}
         /\ n \notin DOMAIN VisibleHeaders => Seen(n) = {}
<1>1. Lookup(VisibleHeaders, n) = Seen(n)
  BY HeadersTold DEF Served, Heard
<1>2. Lookup(VisibleHeaders, n) = {VisibleHeaders[x] : x \in {n} \cap DOMAIN VisibleHeaders}
  BY DEF Lookup
<1> DEFINE V == VisibleHeaders
<1> HIDE DEF V
<1>3. /\ n \in DOMAIN V => {V[x] : x \in {n} \cap DOMAIN V} = {V[n]}
      /\ n \notin DOMAIN V => {V[x] : x \in {n} \cap DOMAIN V} = {}
  OBVIOUS
<1> QED BY <1>1, <1>2, <1>3 DEF V

LEMMA WithinIs ==
  ASSUME NEW v, NEW limit
  PROVE  Within(v, limit) <=> ~Exceeds(Len(v), limit)
  BY DEF Within, Exceeds

\* The token: it is the caller's that is judged, or the declared header's.
LEMMA AuthFits ==
  ASSUME Served
  PROVE  Good("auth") <=> \A h \in config.auth : Credential(h)
<1> DEFINE Judged(h) == /\ h \in DOMAIN VisibleHeaders
                        /\ Within(VisibleHeaders[h], config.maxHeader)
                        /\ TokenGood(Bearer(VisibleHeaders[h]))
<1>1. ASSUME NEW h \in config.auth PROVE Judged(h) <=> Credential(h)
  <2>1. CASE h \notin DOMAIN VisibleHeaders
    <3>1. Seen(h) = {}
      BY <2>1, SeenIs
    <3> QED BY <2>1, <3>1 DEF Credential
  <2>2. CASE h \in DOMAIN VisibleHeaders
    <3> DEFINE v == VisibleHeaders[h]
    <3>1. Seen(h) = {v}
      BY <2>2, SeenIs
    <3> HIDE DEF v
    <3>2. Credential(h) <=> /\ ~Exceeds(Len(v), config.maxHeader)
                            /\ IF h \in AuthHeaders THEN \E t \in token : TokenGood(TokenOf(t)) ELSE TokenGood(Bearer(v))
      BY <3>1 DEF Credential
    <3>3. CASE h \in AuthHeaders
      <4>1. token # {}
        BY <3>3 DEF AuthHeaders
      <4>2. PICK t : token = {t}
        BY <4>1 DEF Served, AtMostOne
      <4>3. t \in Tokens
        BY <4>2 DEF Served
      <4>4. Carried(h) = {BearerOf(t)}
        BY <3>3, <4>2 DEF Carried
      <4>5. v = OnWire(BearerOf(t))
        <5>1. Seen(h) \subseteq {OnWire(BearerOf(t))}
          BY <4>4 DEF Seen
        <5> QED BY <3>1, <5>1
      <4>6. Bearer(v) = TokenOf(t)
        BY <4>3, <4>5, TokenRead
      <4>7. (\E x \in token : TokenGood(TokenOf(x))) <=> TokenGood(TokenOf(t))
        BY <4>2
      <4> QED BY <2>2, <3>2, <3>3, <4>6, <4>7, WithinIs DEF v
    <3>4. CASE h \notin AuthHeaders
      BY <2>2, <3>2, <3>4, WithinIs DEF v
    <3> QED BY <3>3, <3>4
  <2> QED BY <2>1, <2>2
<1>2. Good("auth") <=> \A h \in config.auth : Judged(h)
  BY GoodIs DEF Authorised
<1> HIDE DEF Judged
<1> QED BY <1>1, <1>2

\* A query parameter goes by its own value.
LEMMA QueryFits ==
  ASSUME Served
  PROVE  Good("query") <=>
           \A k \in DOMAIN config.query : \A v \in Arg(config.query[k]) : FitText(v, config.query[k], config.maxQuery)
<1> DEFINE q == config.query
<1>1. NamedOnce(q) /\ Asked
  BY ConfigAssumption DEF Served, Heard, Asked
<1>2. req.query = [n \in GivenOf(q) |-> TheValue(q, n)]
  BY <1>1, QueryTold DEF Served, Heard
<1>3. ASSUME NEW k \in DOMAIN q
      PROVE  FieldGood(q[k], req.query, config.maxQuery) <=> \A v \in Arg(q[k]) : FitText(v, q[k], config.maxQuery)
  <2>1. /\ q[k].name \in GivenOf(q) <=> Arg(q[k]) # {}
        /\ \A v : Arg(q[k]) = {v} => TheValue(q, q[k].name) = v
    BY <1>1, ValueIs
  <2>2. ArgFits(q[k])
    BY <1>1, ArgsFit
  <2>3. CASE Arg(q[k]) = {}
    <3>1. q[k].optional
      BY <2>2, <2>3 DEF ArgFits
    <3>2. q[k].name \notin DOMAIN req.query
      BY <1>2, <2>1, <2>3
    <3> QED BY <2>3, <3>1, <3>2 DEF FieldGood
  <2>4. CASE Arg(q[k]) # {}
    <3>1. PICK v : Arg(q[k]) = {v}
      BY <2>2, <2>4 DEF ArgFits
    <3>2. q[k].name \in DOMAIN req.query /\ req.query[q[k].name] = v
      BY <1>2, <2>1, <3>1
    <3>3. FieldGood(q[k], req.query, config.maxQuery) <=> Within(v, config.maxQuery) /\ <<v, q[k].ty>> \in Fits
      BY <3>2 DEF FieldGood
    <3>4. (\A x \in Arg(q[k]) : FitText(x, q[k], config.maxQuery)) <=> FitText(v, q[k], config.maxQuery)
      BY <3>1
    <3> QED BY <3>3, <3>4, WithinIs DEF FitText
  <2> QED BY <2>3, <2>4
<1>4. Good("query") <=> \A k \in DOMAIN q : FieldGood(q[k], req.query, config.maxQuery)
  <2>1. "query" \in Scopes /\ config["query"] = q
    BY DEF Scopes
  <2>2. \A f : ItemGood("query", f) <=> FieldGood(f, req.query, config.maxQuery)
    BY DEF ItemGood
  <2> QED BY <2>1, <2>2, GoodIs
<1> HIDE DEF q
<1>5. Good("query") <=> \A k \in DOMAIN q : \A v \in Arg(q[k]) : FitText(v, q[k], config.maxQuery)
  BY <1>3, <1>4
<1> QED BY <1>5 DEF q

\* A header by what is seen of it.
LEMMA HeadersFit ==
  ASSUME Served
  PROVE  Good("headers") <=> \A k \in DOMAIN config.headers : FitHeader(config.headers[k])
<1>1. ASSUME NEW f PROVE FieldGood(f, VisibleHeaders, config.maxHeader) <=> FitHeader(f)
  <2>1. CASE f.name \notin DOMAIN VisibleHeaders
    <3>1. Seen(f.name) = {}
      BY <2>1, SeenIs
    <3> QED BY <2>1, <3>1 DEF FitHeader, FieldGood
  <2>2. CASE f.name \in DOMAIN VisibleHeaders
    <3>1. Seen(f.name) = {VisibleHeaders[f.name]}
      BY <2>2, SeenIs
    <3>2. FitHeader(f) <=> FitText(VisibleHeaders[f.name], f, config.maxHeader)
      BY <3>1 DEF FitHeader
    <3> QED BY <2>2, <3>2, WithinIs DEF FieldGood, FitText
  <2> QED BY <2>1, <2>2
<1>2. "headers" \in Scopes /\ config["headers"] = config.headers
  BY DEF Scopes
<1>3. \A f : ItemGood("headers", f) <=> FieldGood(f, VisibleHeaders, config.maxHeader)
  BY DEF ItemGood
<1>4. \A f : ItemGood("headers", f) <=> FitHeader(f)
  BY <1>1, <1>3
<1> QED BY <1>2, <1>4, GoodIs

\* A VAR by what it is bound to.
LEMMA VarsFit ==
  ASSUME Served
  PROVE  Good("vars") <=> \A k \in DOMAIN config.vars : FitVar(config.vars[k].source)
<1>1. ASSUME NEW src, SourceKind(src) PROVE Bound(src) <=> FitVar(src)
  <2>1. CASE src.kind = "env"
    BY <2>1 DEF Bound, FitVar
  <2>2. CASE src.kind = "literal"
    BY <2>2 DEF Bound, FitVar
  <2>3. CASE src.kind = "header"
    <3>1. Bound(src) <=> src.name \in DOMAIN VisibleHeaders /\ Within(VisibleHeaders[src.name], config.maxHeader)
      BY <2>3 DEF Bound, Meaning
    <3>2. FitVar(src) <=> \E v \in Seen(src.name) : ~Exceeds(Len(v), config.maxHeader)
      BY <2>3 DEF FitVar
    <3> QED BY <3>1, <3>2, SeenIs, WithinIs
  <2> QED BY <1>1, <2>1, <2>2, <2>3 DEF SourceKind
<1>2. "vars" \in Scopes /\ config["vars"] = config.vars
  BY DEF Scopes
<1>3. \A f : ItemGood("vars", f) <=> Bound(f.source)
  BY DEF ItemGood
<1>4. \A k \in DOMAIN config.vars : SourceKind(config.vars[k].source)
  BY ConfigAssumption DEF Served, Heard, Asked
<1>5. \A k \in DOMAIN config.vars : ItemGood("vars", config.vars[k]) <=> FitVar(config.vars[k].source)
  BY <1>1, <1>3, <1>4
<1> QED BY <1>2, <1>5, GoodIs

\* A path parameter by its own value.
LEMMA PathFits ==
  ASSUME Served, Addressable
  PROVE  Good("path") <=> \A k \in DOMAIN config.path : \A v \in Arg(config.path[k]) : <<v, config.path[k].ty>> \in Fits
<1> DEFINE p == config.path
<1>1. ASSUME NEW k \in DOMAIN p
      PROVE  <<req.path[p[k].name], p[k].ty>> \in Fits <=> \A v \in Arg(p[k]) : <<v, p[k].ty>> \in Fits
  <2>1. {req.path[p[k].name]} = ParamText(p[k].name)
    BY DEF Served, Heard
  <2>2. ParamText(p[k].name) = Arg(p[k])
    <3>1. \A j \in DOMAIN p : p[j].name = p[k].name => Arg(p[j]) = Arg(p[k])
      BY DEF Arg
    <3> QED BY <3>1 DEF ParamText
  <2> QED BY <2>1, <2>2
<1>2. Good("path") <=> \A k \in DOMAIN p : <<req.path[p[k].name], p[k].ty>> \in Fits
  <2>1. "path" \in Scopes /\ config["path"] = p
    BY DEF Scopes
  <2>2. \A f : ItemGood("path", f) <=> <<req.path[f.name], f.ty>> \in Fits
    BY DEF ItemGood
  <2> QED BY <2>1, <2>2, GoodIs
<1> HIDE DEF p
<1>3. Good("path") <=> \A k \in DOMAIN p : \A v \in Arg(p[k]) : <<v, p[k].ty>> \in Fits
  BY <1>1, <1>2
<1> QED BY <1>3 DEF p

\* A field of a typed JSON body.
LEMMA JsonFieldFits ==
  ASSUME Asked, config.body.kind = "json", HasFields(config), NEW k \in BodyGiven(config.body.fields)
  PROVE  LET f == config.body.fields[k] IN
         JsonFieldOk([array |-> f.array, items |-> JsonItems(f)], f) <=> \A l \in BodyArg(f) : JsonFit(f, l)
<1> DEFINE f == config.body.fields[k]
           l == ListOf(f)
           x == [array |-> f.array, items |-> JsonItems(f)]
<1>1. l \in Lists(f) /\ BodyArg(f) = {l}
  BY ListIs DEF Asked
<1>2. x.array = f.array /\ x.items = JsonItems(f)
  OBVIOUS
<1>3. DOMAIN JsonItems(f) = DOMAIN l /\ \A j \in DOMAIN l : JsonItems(f)[j] = JsonAs[<<RustType(f.ty), l[j]>>]
  BY DEF JsonItems
<1>4. (\A m \in BodyArg(f) : JsonFit(f, m)) <=> JsonFit(f, l)
  BY <1>1
<1> DEFINE OfType == \A j \in DOMAIN l : <<JsonAs[<<RustType(f.ty), l[j]>>], f.ty>> \in FitsJson
<1>5. JsonFit(f, l) <=> (~f.array /\ f.ty \in {"string", "json"}) \/ OfType
  BY DEF JsonFit
<1>6. CASE f.array
  <2>1. JsonFieldOk(x, f) <=> x.array /\ \A j \in DOMAIN x.items : <<x.items[j], f.ty>> \in FitsJson
    BY <1>6 DEF JsonFieldOk
  <2> HIDE DEF x, l, f
  <2>2. JsonFieldOk(x, f) <=> OfType
    BY <1>2, <1>3, <1>6, <2>1
  <2> QED BY <1>4, <1>5, <1>6, <2>2 DEF f, l, x
<1>7. CASE ~f.array
  <2>1. PICK v \in Texts(f) : l = <<v>>
    BY <1>1, <1>7 DEF Lists
  <2>2. DOMAIN l = {1}
    BY <2>1
  <2>3. JsonFieldOk(x, f) <=> f.ty \in {"string", "json"} \/ (~x.array /\ <<x.items[1], f.ty>> \in FitsJson)
    BY <1>7 DEF JsonFieldOk
  <2> HIDE DEF x, l, f
  <2>4. JsonFieldOk(x, f) <=> f.ty \in {"string", "json"} \/ OfType
    BY <1>2, <1>3, <1>7, <2>2, <2>3
  <2> QED BY <1>4, <1>5, <1>7, <2>4 DEF f, l, x
<1> QED BY <1>6, <1>7

\* A typed JSON body by its fields.
LEMMA JsonBodyFits ==
  ASSUME Served, config.body.kind = "json", HasFields(config)
  PROVE  BodyGood <=> \A k \in DOMAIN config.body.fields : \A l \in BodyArg(config.body.fields[k]) :
                        JsonFit(config.body.fields[k], l)
<1> DEFINE fields == config.body.fields
           sent == JsonBody(GivenBody(fields))
<1>1. Asked /\ call \in Calls /\ NamedOnce(fields)
  BY ConfigAssumption DEF Served, Heard, Asked, HasFields
<1>2. config.body.typed
  BY DEF HasFields
<1>3. req.body.json = {sent}
  BY <1>2 DEF Served, Heard, SentBody, NoContent
<1>4. /\ sent.object
      /\ DOMAIN sent.fields = {fields[k].name : k \in BodyGiven(fields)}
      /\ \A k \in BodyGiven(fields) :
           sent.fields[fields[k].name] = [array |-> fields[k].array, items |-> JsonItems(fields[k])]
  BY <1>1, JsonTold
<1>5. BodyGood <=> JsonGood(sent, fields)
  <2> HIDE DEF sent
  <2> QED BY <1>2, <1>3 DEF BodyGood
<1>6. ASSUME NEW k \in DOMAIN fields
      PROVE  (IF fields[k].name \in DOMAIN sent.fields THEN JsonFieldOk(sent.fields[fields[k].name], fields[k])
              ELSE fields[k].optional)
               <=> \A l \in BodyArg(fields[k]) : JsonFit(fields[k], l)
  <2>1. CASE k \in BodyGiven(fields)
    <3>1. fields[k].name \in DOMAIN sent.fields
      BY <1>4, <2>1
    <3>2. JsonFieldOk(sent.fields[fields[k].name], fields[k]) <=> \A l \in BodyArg(fields[k]) : JsonFit(fields[k], l)
      BY <1>1, <1>4, <2>1, JsonFieldFits
    <3> HIDE DEF sent, fields
    <3> QED BY <3>1, <3>2
  <2>2. CASE k \notin BodyGiven(fields)
    <3>1. BodyArg(fields[k]) = {}
      BY <2>2 DEF BodyGiven
    <3>2. fields[k].optional
      BY <1>1, <3>1, BodyArgsAre
    <3>3. fields[k].name \notin DOMAIN sent.fields
      <4>1. BodyGiven(fields) \subseteq DOMAIN fields
        BY DEF BodyGiven
      <4> HIDE DEF sent, fields
      <4> QED BY <1>1, <1>4, <2>2, <4>1 DEF NamedOnce
    <3> HIDE DEF sent, fields
    <3> QED BY <3>1, <3>2, <3>3
  <2> QED BY <2>1, <2>2
<1> HIDE DEF sent, fields
<1>7. BodyGood <=> \A k \in DOMAIN fields : \A l \in BodyArg(fields[k]) : JsonFit(fields[k], l)
  BY <1>4, <1>5, <1>6 DEF JsonGood
<1> USE DEF fields
<1> QED BY <1>7

\* A form by its fields.
LEMMA FormBodyFits ==
  ASSUME Served, Legible, config.body.kind = "form"
  PROVE  BodyGood <=> \A k \in DOMAIN config.body.fields : \A l \in BodyArg(config.body.fields[k]) :
                        FormFit(config.body.fields[k], l)
<1> DEFINE fields == config.body.fields
           form == ParsedForm(fields)
           texts == [n \in {m \in DOMAIN form : ~form[m].binary} |-> form[n].value]
           Binaries == FormNames(fields, {"binary"})
<1>1. Asked /\ call \in Calls /\ NamedOnce(fields) /\ HasFields(config) /\ req.body = SentBody
  BY ConfigAssumption DEF Served, Heard, Asked, HasFields
<1>2. FormTold(fields)
  BY <1>1, FormIsTold
<1>3. BodyGood <=> FormGood(fields)
  BY DEF BodyGood
<1>4. \A k \in DOMAIN fields : fields[k].name \in Binaries <=> fields[k].ty = "binary"
  BY <1>1 DEF FormNames, NamedOnce
<1>5. /\ req.body.multipart <=> IsMultipart(config)
      /\ DOMAIN form = {fields[k].name : k \in BodyGiven(fields)}
      /\ \A k \in BodyGiven(fields) : form[fields[k].name].value = Head(ListOf(fields[k]))
      /\ \A n \in DOMAIN form : form[n].binary <=> n \in Binaries
      /\ \A j \in DOMAIN req.body.parts : ~PartBad(req.body.parts[j], fields)
  BY <1>2 DEF FormTold
<1>6. \A k \in DOMAIN fields : fields[k].name \in DOMAIN form <=> k \in BodyGiven(fields)
  <2>1. BodyGiven(fields) \subseteq DOMAIN fields
    BY DEF BodyGiven
  <2> HIDE DEF form, fields
  <2> QED BY <1>1, <1>5, <2>1 DEF NamedOnce
<1>7. \A k \in DOMAIN fields \ BodyGiven(fields) : BodyArg(fields[k]) = {} /\ fields[k].optional
  <2>1. \A k \in DOMAIN fields \ BodyGiven(fields) : BodyArg(fields[k]) = {}
    BY DEF BodyGiven
  <2> QED BY <1>1, <2>1, BodyArgsAre
<1>8. \A k \in BodyGiven(fields) : BodyArg(fields[k]) = {ListOf(fields[k])}
  BY <1>1, ListIs
<1>9. (\E k \in DOMAIN fields : fields[k].ty = "binary") => IsMultipart(config)
  BY DEF IsMultipart
<1> DEFINE Right(f) == IF f.ty = "binary" THEN f.name \in DOMAIN form => req.body.multipart
                       ELSE FieldGood(f, texts, {})
<1>10. ASSUME NEW k \in DOMAIN fields
       PROVE  Right(fields[k]) <=> \A l \in BodyArg(fields[k]) : FormFit(fields[k], l)
  <2>1. CASE fields[k].ty = "binary"
    <3>1. req.body.multipart
      BY <1>5, <1>9, <2>1
    <3> QED BY <2>1, <3>1 DEF FormFit
  <2>2. CASE fields[k].ty # "binary"
    <3>1. fields[k].name \notin Binaries
      BY <1>4, <2>2
    <3>2. DOMAIN texts = {m \in DOMAIN form : ~form[m].binary}
      OBVIOUS
    <3>3. fields[k].name \in DOMAIN texts <=> k \in BodyGiven(fields)
      <4> HIDE DEF form, fields, Binaries, texts
      <4> QED BY <1>5, <1>6, <3>1, <3>2
    <3>4. CASE k \in BodyGiven(fields)
      <4>1. texts[fields[k].name] = Head(ListOf(fields[k]))
        <5>1. \A n \in DOMAIN texts : texts[n] = form[n].value
          OBVIOUS
        <5> HIDE DEF form, fields, Binaries, texts
        <5> QED BY <1>5, <3>3, <3>4, <5>1
      <4>2. FieldGood(fields[k], texts, {}) <=> <<Head(ListOf(fields[k])), fields[k].ty>> \in Fits
        <5> HIDE DEF texts
        <5> QED BY <3>3, <3>4, <4>1 DEF FieldGood, Within
      <4> HIDE DEF texts, form, fields
      <4> QED BY <1>8, <2>2, <3>4, <4>2 DEF FormFit
    <3>5. CASE k \notin BodyGiven(fields)
      <4>1. FieldGood(fields[k], texts, {})
        <5> HIDE DEF texts
        <5> QED BY <1>7, <3>3, <3>5 DEF FieldGood
      <4> QED BY <1>7, <2>2, <3>5, <4>1
    <3> QED BY <3>4, <3>5
  <2> QED BY <2>1, <2>2
<1>11. \A k \in DOMAIN fields : fields[k].optional \/ fields[k].name \in DOMAIN form
  BY <1>6, <1>7
<1>12. FormGood(fields) <=> \A k \in DOMAIN fields : Right(fields[k])
  BY <1>5, <1>11 DEF FormGood
<1> HIDE DEF Right
<1>13. BodyGood <=> \A k \in DOMAIN fields : \A l \in BodyArg(fields[k]) : FormFit(fields[k], l)
  BY <1>3, <1>10, <1>12
<1> QED BY <1>13 DEF fields

\* The body, and its size.
LEMMA BodyFits ==
  ASSUME Served, Legible
  PROVE  Good("extract") /\ Good("body") <=> FitBody
<1>1. Good("extract") <=> \A max \in BodyLimit : ~(SentBody.len > max)
  BY GoodIs DEF Served, Heard
<1>2. Good("body") <=> BodyGood
  BY GoodIs
<1> DEFINE FieldsFit ==
      HasFields(config) => \A k \in DOMAIN config.body.fields : \A l \in BodyArg(config.body.fields[k]) :
        IF config.body.kind = "json" THEN JsonFit(config.body.fields[k], l) ELSE FormFit(config.body.fields[k], l)
<1>3. BodyGood <=> FieldsFit
  <2>1. config.body.kind \in {"none", "binary", "string", "json", "form"} /\ req.body = SentBody
    BY ConfigAssumption DEF Served, Heard, Asked
  <2>2. CASE config.body.kind \in {"none", "binary"}
    BY <2>2 DEF BodyGood, HasFields
  <2>3. CASE config.body.kind = "string"
    <3>1. SentBody = [NoContent EXCEPT !.raw = call.body, !.len = Len(call.body)]
      BY <2>3 DEF SentBody
    <3>2. req.body.utf8
      BY <2>1, <3>1 DEF NoContent
    <3> QED BY <2>3, <3>2 DEF BodyGood, HasFields
  <2>4. CASE config.body.kind = "json" /\ ~config.body.typed
    <3>1. req.body.json = {call.body}
      BY <2>1, <2>4 DEF SentBody, NoContent
    <3> QED BY <2>4, <3>1 DEF BodyGood, HasFields
  <2>5. CASE config.body.kind = "json" /\ config.body.typed
    <3>1. HasFields(config)
      BY <2>5 DEF HasFields
    <3>2. FieldsFit <=> \A k \in DOMAIN config.body.fields : \A l \in BodyArg(config.body.fields[k]) :
                          JsonFit(config.body.fields[k], l)
      BY <2>5, <3>1
    <3> HIDE DEF FieldsFit
    <3> QED BY <2>5, <3>1, <3>2, JsonBodyFits
  <2>6. CASE config.body.kind = "form"
    <3>1. HasFields(config)
      BY <2>6 DEF HasFields
    <3> QED BY <2>6, <3>1, FormBodyFits
  <2> QED BY <2>1, <2>2, <2>3, <2>4, <2>5, <2>6
<1> QED BY <1>1, <1>2, <1>3 DEF FitBody

\* The token is one that an application may set, and an answer says where it was given.
SaidInv == token \subseteq Tokens /\ (stage = "answered" => answer.at # "none")

LEMMA HandlerSays ==
  ASSUME IInv, Handler
  PROVE  stage' = "answered" => answer'.at # "none"
<1> DEFINE Says == stage' = "answered" => answer'.at # "none"
<1> SUFFICES Says
  OBVIOUS
<1>1. ASSUME NEW s, Respond(s), stage # "none" PROVE Says
  BY <1>1 DEF Respond
<1>2. \A s : Reject(s) => Says
  <2>1. stage # "none"
    BY DEF IInv, TypeOK
  <2> HIDE DEF Says
  <2> QED BY <1>1, <2>1 DEF Reject
<1>3. ASSUME NEW errors, NEW new, Item(errors, new), stage # "answered" PROVE Says
  <2>1. CASE stage' = stage
    BY <1>3, <2>1
  <2> HIDE DEF Says
  <2> QED BY <1>2, <1>3, <2>1 DEF Item
<1>4. CASE Serve \/ ServeFails
  BY <1>4 DEF Serve, ServeFails
<1>5. CASE Extract
  <2>1. CASE stage' = "auth"
    BY <2>1
  <2> HIDE DEF Says
  <2> QED BY <1>2, <1>5, <2>1 DEF Extract
<1>6. CASE Authenticate
  <2>1. CASE stage' = "query"
    BY <2>1
  <2> HIDE DEF Says
  <2> QED BY <1>2, <1>6, <2>1 DEF Authenticate
<1>7. CASE ValidateQuery
  <2>1. stage # "answered"
    BY <1>7 DEF ValidateQuery
  <2> HIDE DEF Says
  <2> QED BY <1>3, <1>7, <2>1 DEF ValidateQuery
<1>8. CASE ValidateHeaders
  <2>1. stage # "answered"
    BY <1>8 DEF ValidateHeaders
  <2> HIDE DEF Says
  <2> QED BY <1>3, <1>8, <2>1 DEF ValidateHeaders
<1>9. CASE ValidatePath
  <2>1. stage # "answered"
    BY <1>9 DEF ValidatePath
  <2> HIDE DEF Says
  <2> QED BY <1>3, <1>9, <2>1 DEF ValidatePath
<1>10. CASE ResolveVars
  <2>1. stage # "answered"
    BY <1>10 DEF ResolveVars
  <2> HIDE DEF Says
  <2> QED BY <1>2, <1>3, <1>10, <2>1 DEF ResolveVars
<1>11. CASE ScopeDone
  <2>1. stage' \in {"headers", "path", "vars", "body"}
    BY <1>11 DEF ScopeDone, Scopes, After
  <2> QED BY <2>1
<1>12. CASE BuildBody
  <2>1. CASE stage' = "run"
    BY <2>1
  <2> HIDE DEF Says
  <2> QED BY <1>2, <1>12, <2>1 DEF BuildBody
<1>13. CASE DryRun \/ NotStarted
  <2> HIDE DEF Says
  <2> QED BY <1>2, <1>13 DEF DryRun, NotStarted
<1>14. CASE Execute
  <2>1. stage # "none"
    BY <1>14 DEF Execute
  <2> HIDE DEF Says
  <2> QED BY <1>1, <1>14, <2>1 DEF Execute
<1> HIDE DEF Says
<1> QED BY <1>4, <1>5, <1>6, <1>7, <1>8, <1>9, <1>10, <1>11, <1>12, <1>13, <1>14 DEF Handler

LEMMA SaidInitially == CallInit => SaidInv
  BY DEF CallInit, SaidInv

LEMMA SaidStays ==
  ASSUME IInv, SaidInv, [CallNext]_callVars
  PROVE  SaidInv'
<1>1. ASSUME UNCHANGED <<stage, answer, token>> PROVE SaidInv'
  BY <1>1 DEF SaidInv
<1>2. CASE MacroNext /\ UNCHANGED <<gateVars, clientVars>>
  BY <1>1, <1>2 DEF gateVars, clientVars
<1>3. CASE Handler /\ UNCHANGED <<macroVars, clientVars>>
  <2>1. token' = token
    BY <1>3 DEF clientVars
  <2> QED BY <1>3, <2>1, HandlerSays DEF SaidInv
<1>4. CASE (NewClient \/ SetToken \/ Start \/ Elsewhere \/ Receive) /\ UNCHANGED <<macroVars, gateVars>>
  <2>1. UNCHANGED <<stage, answer>>
    BY <1>4 DEF gateVars
  <2>2. CASE SetToken
    <3>1. token' \subseteq Tokens
      BY <2>2 DEF SetToken
    <3> QED BY <2>1, <3>1 DEF SaidInv
  <2>3. CASE NewClient \/ Start \/ Elsewhere \/ Receive
    BY <1>1, <2>1, <2>3 DEF NewClient, Start, Elsewhere, Receive
  <2> QED BY <1>4, <2>2, <2>3
<1>5. CASE Send /\ UNCHANGED macroVars
  BY <1>5 DEF Send, SaidInv
<1>6. CASE UNCHANGED callVars
  BY <1>1, <1>6 DEF callVars
<1> QED BY <1>2, <1>3, <1>4, <1>5, <1>6 DEF CallNext

\* The gates together are what the arguments have to be.
LEMMA GatesFit ==
  ASSUME Served, Addressable, Legible
  PROVE  AllGood <=> FitCall
<1>1. Good("extract") /\ Good("body") <=> FitBody
  BY BodyFits
<1> QED BY <1>1, AuthFits, QueryFits, HeadersFit, PathFits, VarsFit DEF AllGood, FitCall

\* A call is refused only for its own values, and always for them: it reaches the command
\* exactly if its token is accepted, every value is one of its declared type within the
\* limits and the VARs are bound (the spec drives the server and the client).
THEOREM AlwaysRunsIffFit == CallSpec => []RunsIffFit
<1>1. BothInv /\ SaidInv => RunsIffFit
  <2> SUFFICES ASSUME BothInv, SaidInv, stage = "answered", Addressable, Legible
               PROVE  answer.at = "run" <=> FitCall
    BY DEF RunsIffFit
  <2>1. Served
    BY DEF BothInv, HeardInv, Resting, SaidInv, Served
  <2>2. answer.at \in {"extract", "auth", "query", "headers", "path", "vars", "body", "run"}
    BY DEF BothInv, IInv, TypeOK, SaidInv
  <2>3. FirstDefect
    BY FirstDefectIs DEF BothInv, IInv
  <2>4. answer.at = "run" <=> AllGood
    BY <2>2, <2>3 DEF FirstDefect, AllGood
  <2> QED BY <2>1, <2>4, GatesFit
<1>2. BothInv => IInv
  BY DEF BothInv
<1>3. CallInit => BothInv /\ SaidInv
  BY BothInitially, SaidInitially
<1>4. BothInv /\ SaidInv /\ [CallNext]_callVars => (BothInv /\ SaidInv)'
  BY <1>2, BothStay, SaidStays
<1> QED BY <1>1, <1>3, <1>4, PTL DEF CallSpec
=============================================================================
