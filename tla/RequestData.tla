---------------------------- MODULE RequestData ----------------------------
(***************************************************************************)
(* RequestGate over requests whose values and bodies are spelled out: what *)
(* fits a type is ValueTypes' (value.rs), and the parts of a multipart body *)
(* are what Multipart's Split (server.rs) makes of its bytes.              *)
(***************************************************************************)
EXTENDS RequestGate, ValueTypes, Multipart

\* The pairs are value.rs's, a plain type goes by its own name, fields have a type, and a
\* JSON value that is no array is one scalar.
ASSUME DataAssumption ==
  /\ \A p \in Fits : p[2] \in DOMAIN TypeOf /\ ValidateText(p[1], TypeOf[p[2]])
  /\ FitsJson = FitsJsonAll
  /\ \A n \in {"string", "json", "binary"} \cap DOMAIN TypeOf : TypeOf[n].kind = n
  /\ \A c \in Configs :
       c.body.kind = "form" \/ (c.body.kind = "json" /\ c.body.typed) =>
         \A k \in DOMAIN c.body.fields : c.body.fields[k].ty \in DOMAIN TypeOf
  /\ \A r \in Requests : \A v \in r.body.json : v.object =>
       \A n \in DOMAIN v.fields : ~v.fields[n].array => DOMAIN v.fields[n].items = {1}

\* A form that a multipart body can carry, and its delimiter: the delimiter is in nothing
\* that it delimits, a line break in no name, and a semicolon in no field's (the server ends
\* a name there, quoted or not).
Text(v) == v \in Seq(ToSet(v))
Carries(s) ==
  /\ Text(s.delim) /\ Len(s.delim) >= 2 /\ CRLF \notin ToSet(s.delim)
  /\ Listed(s.form)
  /\ \A k \in DOMAIN s.form :
       LET p == s.form[k] IN
       /\ Text(p.name) /\ Text(p.file) /\ Text(p.data)
       /\ {CRLF, ";"} \cap ToSet(p.name) = {} /\ CRLF \notin ToSet(p.file)
       /\ Found(Disposition(p), s.delim) = {} /\ Found(p.data, s.delim) = {}

\* A body knows which form its bytes are, if they are one.
ASSUME SentAssumption ==
  \A r \in Requests : \A s \in r.body.sent :
    /\ Carries(s) /\ r.body.multipart
    /\ r.body.raw = Encode(s.form, s.delim) /\ r.body.parts = Split(r.body.raw, s.delim)

\* build_body's view of a body: its Content-Type decides how it is read.
FormBody(contentType, bytes, sent) ==
  [len |-> 2, utf8 |-> TRUE, raw |-> bytes, json |-> {}, sent |-> sent,
   multipart |-> Boundary(contentType) # {},
   parts |-> IF Boundary(contentType) = {} THEN <<>>
             ELSE Split(bytes, CHOOSE b \in Boundary(contentType) : TRUE)]

----------------------------------------------------------------------------
(* Properties. *)

\* What a value of a ranged type has to be, whichever way it came.
InRange(x, ty) == IsNaN(x) \/ (ty.min =< x.n /\ x.n =< ty.max)
TextInRange(v, ty) ==
  CASE ty.kind = "intrange"   -> IntOf[v] \in ty.min..ty.max
    [] ty.kind = "floatrange" -> InRange(FloatOf[v], ty)
    [] OTHER -> TRUE
JsonInRange(j, ty) ==
  CASE ty.kind = "intrange"   -> IntOf[j.text] \in ty.min..ty.max
    [] ty.kind = "floatrange" -> ~IsNaN(j.value) /\ InRange(j.value, ty)
    [] OTHER -> TRUE

\* A command never gets a value outside of the range its field declares, by the
\* query, a header, the path, a form or JSON; the one exception is NaN, which is
\* a float to `parse` and below and above nothing, and it cannot come by JSON
\* (value.rs:40-61, 147-156).
RangesHold ==
  started =>
    /\ \A scope \in Scopes \ {"vars"} : \A k \in DOMAIN config[scope] :
         LET f == config[scope][k] IN
         f.name \in DOMAIN ctx[scope] => TextInRange(ctx[scope][f.name], TypeOf[f.ty])
    /\ ctx.body.kind = "form" => \A k \in DOMAIN config.body.fields :
         LET f == config.body.fields[k] IN
         f.name \in DOMAIN ctx.body.value => TextInRange(ctx.body.value[f.name].value, TypeOf[f.ty])
    /\ ctx.body.kind = "json" /\ config.body.typed => \A k \in DOMAIN config.body.fields :
         LET f == config.body.fields[k] IN
         f.name \in DOMAIN ctx.body.value.fields =>
           LET items == ctx.body.value.fields[f.name].items
           IN \A j \in DOMAIN items : JsonInRange(JsonOf[items[j]], TypeOf[f.ty])

SentAs(form, n) == {k \in DOMAIN form : form[k].name = n}
SentNames(form) == {form[k].name : k \in DOMAIN form}
LastSent(form, n) == form[CHOOSE k \in SentAs(form, n) : \A j \in SentAs(form, n) : j =< k].data

\* A file name that reads as another attribute; the server does not know quotes.
Misread(p) == Found(p.file, <<";", "name=">>) # {}

\* A form that was sent as multipart/form-data, with a boundary that is not in it, is
\* the form the command gets: every name with the data of its last part, byte for
\* byte, whatever line breaks, empty lines or dashes they begin, hold or end with;
\* and it is refused only for a field that is missing, unfit or not text
\* (server.rs:516-640).
FormIsWhatWasSent ==
  config.body.kind = "form" =>
    \A s \in req.body.sent : LET form == s.form IN
      (\A k \in DOMAIN form : ~Misread(form[k])) =>
      /\ stage = "run" =>
           /\ DOMAIN ctx.body.value = SentNames(form)
           /\ \A n \in SentNames(form) : ctx.body.value[n].value = LastSent(form, n)
      /\ answer.at = "body" =>
           \/ \E k \in DOMAIN config.body.fields :
                LET f == config.body.fields[k] IN
                IF f.name \in SentNames(form)
                THEN f.ty # "binary" /\ <<LastSent(form, f.name), f.ty>> \notin Fits
                ELSE ~f.optional
           \/ \E k \in DOMAIN form :
                NotText \in ToSet(form[k].data) /\ form[k].name \notin FormNames(config.body.fields, {"binary"})
=============================================================================
