----------------------------- MODULE ExecRender -----------------------------
(***************************************************************************)
(* From an endpoint to a shell script: what check::check_endpoint accepts, *)
(* and how render_shell_with_mode turns the Exec statements and the values *)
(* of one request into script lines, an input and temporary files.         *)
(*                                                                         *)
(* The nested loops over statements, stages and tokens are steps.  A value *)
(* is a record that remembers the declaration it was validated against, an *)
(* optional value a set with at most one element.  A script word is the    *)
(* sequence of its parts and whether it is quoted; a temporary file is     *)
(* known by the place in the Exec that made it.                            *)
(***************************************************************************)
EXTENDS Integers, Sequences

CONSTANTS
  Endpoints,  \* the endpoints a specification may declare
  Contexts    \* endpoint -> the ExecContexts the request gate builds for it

Listed(list) == Len(list) \in Nat /\ list = [k \in 1..Len(list) |-> list[k]]
Filled(list) == Listed(list) /\ Len(list) # 0
AtMostOne(set) == \A x, y \in set : x = y
Scopes == {"query", "headers", "path", "vars"}

\* Exec has a statement, a statement a stage, a command a token, and a group a
\* piece (parse/exec.rs); a Text token is written as its only piece.  A reference is to
\* one declared name, or to a path into the body.
ASSUME ExecAssumption ==
  \A ep \in Endpoints :
    /\ Filled(ep.exec)
    /\ \A s \in DOMAIN ep.exec :
         /\ Filled(ep.exec[s])
         /\ \A g \in DOMAIN ep.exec[s] :
              LET stage == ep.exec[s][g] IN
              /\ AtMostOne(stage.source)
              /\ \A r \in stage.source : r.from \in Scopes \cup {"body"} /\ Listed(r.path)
              /\ stage.source = {} => Filled(stage.tokens)
              /\ stage.source = {} => \A t \in DOMAIN stage.tokens :
                   /\ Filled(stage.tokens[t].pieces)
                   /\ ~stage.tokens[t].group => Len(stage.tokens[t].pieces) = 1
                   /\ \A p \in DOMAIN stage.tokens[t].pieces :
                        \A k \in DOMAIN stage.tokens[t].pieces[p].parts :
                          LET part == stage.tokens[t].pieces[p].parts[k] IN
                          /\ AtMostOne(part.ref)
                          /\ \A r \in part.ref : r.from \in Scopes \cup {"body"} /\ Listed(r.path)

\* A VAR is known by the kind of its source, anything else by its type.
ASSUME TypeAssumption ==
  \A ep \in Endpoints :
    /\ \A scope \in {"query", "headers", "path"} : \A n \in DOMAIN ep[scope] : ep[scope][n] # "header"
    /\ \A n \in DOMAIN ep.vars : ep.vars[n] \in {"env", "literal", "header"}
    /\ ep.body.kind \in {"none", "string", "binary", "json", "form"}
    /\ \A n \in DOMAIN ep.body.fields : ep.body.fields[n] # "header"

Text(n, ty) == [kind |-> "text", name |-> n, ty |-> ty]

\* A context holds what RequestGate lets through: declared names only, the
\* required ones always, each value validated against its declaration; a value
\* of the types `string` and `json` may be any JSON.
ASSUME ContextAssumption ==
  \A ep \in Endpoints : \A c \in Contexts[ep] :
    /\ \A scope \in Scopes :
         /\ \A n \in DOMAIN c[scope] : n \in DOMAIN ep[scope] /\ c[scope][n] = Text(n, ep[scope][n])
         /\ \A n \in DOMAIN ep[scope] : n \in DOMAIN c[scope] \/ <<scope, n>> \in ep.optional
    /\ c.body.kind = ep.body.kind
    /\ ep.body.kind = "json" /\ ep.body.typed =>
         /\ c.body.value.kind = "object"
         /\ \A n \in DOMAIN ep.body.fields :
              /\ n \in DOMAIN c.body.value.fields \/ <<"body", n>> \in ep.optional
              /\ n \in DOMAIN c.body.value.fields =>
                   \/ c.body.value.fields[n] = Text(n, ep.body.fields[n])
                   \/ ep.body.fields[n] \in {"string", "json"}
    /\ ep.body.kind = "form" =>
         \A n \in DOMAIN ep.body.fields :
           /\ n \in DOMAIN c.body.fields \/ <<"body", n>> \in ep.optional
           /\ n \in DOMAIN c.body.fields =>
                IF ep.body.fields[n] = "binary" THEN c.body.fields[n].kind = "binary"
                ELSE c.body.fields[n] = Text(n, ep.body.fields[n])

VARIABLES
  phase,     \* "check", "rejected", "idle", "render", "ok" or "err"
  ep,        \* the endpoint
  ctx,       \* the request's values
  dry,       \* materialize_binary is off: --dry-run's preview
  s, g, t,   \* statement, stage and token whose turn it is
  words,     \* words of the command being rendered
  commands,  \* commands of the statement, each a sequence of words
  pending,   \* pending_stdin
  stdin,     \* script_stdin
  lines,     \* script_lines
  temps,     \* files held by the renderer
  why        \* the error

renderVars == <<phase, ep, ctx, dry, s, g, t, words, commands, pending, stdin, lines, temps, why>>

NoCtx == [query |-> <<>>, headers |-> <<>>, path |-> <<>>, vars |-> <<>>, body |-> [kind |-> "none"]]

Lookup(f, n) == {f[x] : x \in {n} \cap DOMAIN f}

----------------------------------------------------------------------------
(* check_endpoint. *)

Stages == UNION {{ep.exec[x][y] : y \in DOMAIN ep.exec[x]} : x \in DOMAIN ep.exec}
Commands == {stage \in Stages : stage.source = {}}
Refs(token) ==
  UNION {UNION {token.pieces[p].parts[k].ref : k \in DOMAIN token.pieces[p].parts} :
           p \in DOMAIN token.pieces}
Tokens == UNION {{stage.tokens[x] : x \in DOMAIN stage.tokens} : stage \in Commands}
ArgvRefs == UNION {Refs(token) : token \in Tokens}

\* Mutant: a field of a typed body need not be declared.
CheckRefLax(r) ==
  IF r.from # "body" THEN r.path[1] \in DOMAIN ep[r.from]
  ELSE \/ r.path = <<>> /\ ep.body.kind # "none"
       \/ r.path # <<>> /\ ep.body.kind = "json"
       \/ Len(r.path) = 1 /\ ep.body.kind = "form"

\* check_ref
CheckRef(r) ==
  IF r.from # "body" THEN r.path[1] \in DOMAIN ep[r.from]
  ELSE \/ r.path = <<>> /\ ep.body.kind # "none"
       \/ r.path # <<>> /\ ep.body.kind = "json"
            /\ (ep.body.typed => r.path[1] \in DOMAIN ep.body.fields)
       \/ Len(r.path) = 1 /\ ep.body.kind = "form" /\ r.path[1] \in DOMAIN ep.body.fields

\* argv_unsafe_named
Unconstrained == {"string", "json"}

\* Mutant: the declared types of body fields are not looked at.
CheckArgvSafetyNoBody(r) ==
  CASE r.from = "vars" -> "header" \notin Lookup(ep.vars, r.path[1])
    [] r.from \in {"query", "headers", "path"} ->
         Lookup(ep[r.from], r.path[1]) \cap Unconstrained = {}
    [] r.from = "body" -> ep.body.kind # "string"

\* check_argv_safety: what an argument may refer to.
CheckArgvSafety(r) ==
  CASE r.from = "vars" -> "header" \notin Lookup(ep.vars, r.path[1])
    [] r.from \in {"query", "headers", "path"} ->
         Lookup(ep[r.from], r.path[1]) \cap Unconstrained = {}
    [] r.from = "body" ->
         CASE ep.body.kind = "none"   -> TRUE
           [] ep.body.kind = "string" -> FALSE
           [] ep.body.kind = "binary" -> r.path = <<>>
           [] ep.body.kind = "json" /\ ~ep.body.typed -> FALSE
           [] ep.body.kind = "form" \/ (ep.body.kind = "json" /\ ep.body.typed) ->
                r.path # <<>> => Lookup(ep.body.fields, r.path[1]) \cap Unconstrained = {}

\* forbid_stdin_only_in_field
CheckTypes ==
  /\ \A scope \in {"query", "headers", "path"} : \A n \in DOMAIN ep[scope] : ep[scope][n] # "binary"
  /\ ep.body.kind = "json" /\ ep.body.typed =>
       \A n \in DOMAIN ep.body.fields : ep.body.fields[n] # "binary"

\* check_executable_token
CheckExecutable == \A stage \in Commands : Refs(stage.tokens[1]) = {}

NoErrors ==
  /\ CheckTypes /\ CheckExecutable
  /\ \A stage \in Stages : \A r \in stage.source : CheckRef(r)
  /\ \A r \in ArgvRefs : CheckRef(r) /\ CheckArgvSafety(r)

----------------------------------------------------------------------------
(* The values of a request. *)

\* serde_json::Value::get along a path, one name at a time; only an object has
\* fields.
Get(vs, n) == UNION {Lookup(v.fields, n) : v \in {w \in vs : w.kind = "object"}}
Walk(v, path) ==
  LET first == Get({v}, path[1])
      at[k \in 1..Len(path)] == IF k = 1 THEN first ELSE Get(at[k - 1], path[k])
  IN IF Len(path) > 1 /\ \E w \in first : w.kind = "object" THEN at[Len(path)]
     ELSE {w \in first : Len(path) = 1}

\* json_to_text and form_to_text; a scalar or an array is a value already.
WholeBody == Text("$", "json")
Nested == Text("{}", "json")

\* resolve_text
ResolveText(r) ==
  IF r.from # "body" THEN Lookup(ctx[r.from], r.path[1])
  ELSE CASE ctx.body.kind \in {"none", "binary"} -> {}
         [] ctx.body.kind = "string" -> {v \in {ctx.body.value} : r.path = <<>>}
         [] ctx.body.kind = "json" ->
              IF r.path = <<>> THEN {WholeBody}
              ELSE {IF v.kind = "object" THEN Nested ELSE v : v \in Walk(ctx.body.value, r.path)}
         [] ctx.body.kind = "form" ->
              IF r.path = <<>> THEN {WholeBody}
              ELSE {v \in Lookup(ctx.body.fields, r.path[1]) : Len(r.path) = 1 /\ v.kind = "text"}

\* The binary body or form field a reference names.
BinaryAt(r) ==
  CASE r.from = "body" /\ ctx.body.kind = "binary" -> {v \in {ctx.body} : r.path = <<>>}
    [] r.from = "body" /\ ctx.body.kind = "form" ->
         {v \in UNION {Lookup(ctx.body.fields, n) : n \in {r.path[k] : k \in DOMAIN r.path}} :
            Len(r.path) = 1 /\ v.kind = "binary"}
    [] ~(r.from = "body" /\ ctx.body.kind \in {"binary", "form"}) -> {}

\* resolve_bytes
ResolveBytes(r) == IF BinaryAt(r) # {} THEN BinaryAt(r) ELSE ResolveText(r)

Marker == [kind |-> "marker"]

\* resolve_shell_text: a binary becomes the path of a file of its own, or a
\* marker in the preview.
ResolveShellText(r, place) ==
  IF BinaryAt(r) = {} THEN ResolveText(r)
  ELSE IF dry THEN {Marker}
  ELSE {[kind |-> "temp", place |-> place, of |-> v] : v \in BinaryAt(r)}

----------------------------------------------------------------------------
(* One token of a command. *)

Token == ep.exec[s][g].tokens[t]
Place(p, k) == <<s, g, t, p, k>>

\* What a part contributes; a missing value is empty text.
PartText(p, k) ==
  LET part == Token.pieces[p].parts[k] IN
  {[kind |-> "literal", text |-> part.text] : x \in {y \in {1} : part.ref = {}}}
    \cup UNION {ResolveShellText(r, Place(p, k)) : r \in part.ref}

Absent(p) == {k \in DOMAIN Token.pieces[p].parts : PartText(p, k) = {}}

\* Mutant: interpolation alone does not make a word quoted.
WordBare(p) ==
  LET piece == Token.pieces[p] IN
  [parts |-> [k \in DOMAIN piece.parts |-> PartText(p, k)], quoted |-> piece.quote]

\* shell_word: quoted if the author quoted it or anything is interpolated.
Word(p) ==
  LET piece == Token.pieces[p] IN
  [parts |-> [k \in DOMAIN piece.parts |-> PartText(p, k)],
   quoted |-> piece.quote \/ \E k \in DOMAIN piece.parts : piece.parts[k].ref # {}]

\* Mutant: a group leaves out the pieces that are missing, not itself.
TokenWordsPartial ==
  IF ~Token.group THEN <<Word(1)>>
  ELSE LET present(p) == Absent(p) = {}
           count == {p \in DOMAIN Token.pieces : present(p)}
       IN IF count = {} THEN <<>>
          ELSE IF count = DOMAIN Token.pieces THEN [p \in DOMAIN Token.pieces |-> Word(p)]
          ELSE <<Word(CHOOSE p \in count : TRUE)>>

\* render_text_word, or render_optional_word for each piece of a group.
TokenWords ==
  IF ~Token.group THEN <<Word(1)>>
  ELSE IF \E p \in DOMAIN Token.pieces : Absent(p) # {} THEN <<>>
  ELSE [p \in DOMAIN Token.pieces |-> Word(p)]

\* Parts are rendered in order, and a group is left at its first missing one.
Reached(p, k) ==
  Token.group => \A q \in DOMAIN Token.pieces : \A j \in Absent(q) : q > p \/ (q = p /\ j > k)

NewTemps ==
  UNION {UNION {{v \in PartText(p, k) : v.kind = "temp" /\ Reached(p, k)} :
                  k \in DOMAIN Token.pieces[p].parts} : p \in DOMAIN Token.pieces}

----------------------------------------------------------------------------
(* Actions. *)

Init ==
  /\ phase = "check" /\ ep \in Endpoints
  /\ ctx = NoCtx /\ dry \in BOOLEAN
  /\ s = 1 /\ g = 1 /\ t = 1
  /\ words = <<>> /\ commands = <<>> /\ pending = {} /\ stdin = {} /\ lines = <<>>
  /\ temps = {} /\ why = "none"

\* main: an endpoint with an error ends the program, any other is served.
Check ==
  /\ phase = "check"
  /\ phase' = IF NoErrors THEN "idle" ELSE "rejected"
  /\ UNCHANGED <<ep, ctx, dry, s, g, t, words, commands, pending, stdin, lines, temps, why>>

\* render_shell or preview_pipeline is called for a request.
Begin ==
  /\ phase \in {"idle", "ok", "err"}
  /\ ctx' \in Contexts[ep]
  /\ phase' = "render" /\ s' = 1 /\ g' = 1 /\ t' = 1
  /\ words' = <<>> /\ commands' = <<>> /\ pending' = {} /\ stdin' = {} /\ lines' = <<>>
  /\ temps' = {} /\ why' = "none"
  /\ UNCHANGED <<ep, dry>>

\* An error drops the renderer and its files.
Err(reason) ==
  /\ phase' = "err" /\ why' = reason /\ temps' = {}
  /\ UNCHANGED <<ep, ctx, dry, s, g, t, words, commands, pending, stdin, lines>>

InStatement == phase = "render" /\ s =< Len(ep.exec)
AtStage == InStatement /\ g =< Len(ep.exec[s])
AtCommand == AtStage /\ ep.exec[s][g].source = {}

Source ==
  /\ AtStage
  /\ \E r \in ep.exec[s][g].source :
       \/ commands # <<>> /\ Err("source after command")
       \/ commands = <<>> /\ ResolveBytes(r) = {} /\ Err("unresolved")
       \/ /\ commands = <<>> /\ ResolveBytes(r) # {}
          /\ pending' = ResolveBytes(r)
          /\ g' = g + 1
          /\ UNCHANGED <<phase, ep, ctx, dry, s, t, words, commands, stdin, lines, temps, why>>

\* Mutant: the renderer keeps the last token's files only.
RenderTokenForgets ==
  /\ AtCommand /\ t =< Len(ep.exec[s][g].tokens)
  /\ words' = words \o TokenWords
  /\ temps' = NewTemps
  /\ t' = t + 1
  /\ UNCHANGED <<phase, ep, ctx, dry, s, g, commands, pending, stdin, lines, why>>

\* One round of render_command's loop.
RenderToken ==
  /\ AtCommand /\ t =< Len(ep.exec[s][g].tokens)
  /\ words' = words \o TokenWords
  /\ temps' = temps \cup NewTemps
  /\ t' = t + 1
  /\ UNCHANGED <<phase, ep, ctx, dry, s, g, commands, pending, stdin, lines, why>>

\* A temporary file cannot be created or written.
TempFails ==
  /\ AtCommand /\ t =< Len(ep.exec[s][g].tokens)
  /\ NewTemps # {}
  /\ Err("temp file")

CommandDone ==
  /\ AtCommand /\ t > Len(ep.exec[s][g].tokens)
  /\ \/ words = <<>> /\ Err("empty command")
     \/ /\ words # <<>>
        /\ commands' = Append(commands, words)
        /\ g' = g + 1 /\ t' = 1 /\ words' = <<>>
        /\ UNCHANGED <<phase, ep, ctx, dry, s, pending, stdin, lines, temps, why>>

StatementDone ==
  /\ InStatement /\ g > Len(ep.exec[s])
  /\ \/ commands = <<>> /\ Err("no command")
     \/ commands # <<>> /\ pending # {} /\ s # 1 /\ Err("stdin of a later statement")
     \/ /\ commands # <<>> /\ (pending # {} => s = 1)
        /\ stdin' = IF pending # {} THEN pending ELSE stdin
        /\ lines' = Append(lines, commands)
        /\ s' = s + 1 /\ g' = 1
        /\ commands' = <<>> /\ pending' = {}
        /\ UNCHANGED <<phase, ep, ctx, dry, t, words, temps, why>>

ScriptDone ==
  /\ phase = "render" /\ s > Len(ep.exec)
  /\ phase' = "ok"
  /\ UNCHANGED <<ep, ctx, dry, s, g, t, words, commands, pending, stdin, lines, temps, why>>

Next ==
  \/ Check \/ Begin \/ Source \/ RenderToken \/ TempFails \/ CommandDone \/ StatementDone
  \/ ScriptDone

Spec == Init /\ [][Next]_renderVars

----------------------------------------------------------------------------
(* What a script should be, said of the whole Exec at once.                 *)

Masked(v) == IF v.kind = "temp" THEN Marker ELSE v
MaskedWord(w) ==
  [parts |-> [k \in DOMAIN w.parts |-> {Masked(v) : v \in w.parts[k]}], quoted |-> w.quoted]

\* render_text_parts, which has no text for a binary value; with files, the marker
\* stands where the renderer has one.
Shown(part, files) ==
  {[kind |-> "literal", text |-> part.text] : x \in {y \in {1} : part.ref = {}}}
    \cup UNION {IF files /\ BinaryAt(r) # {} THEN {Marker} ELSE ResolveText(r) : r \in part.ref}

ShownPiece(piece, files) ==
  [parts |-> [k \in DOMAIN piece.parts |-> Shown(piece.parts[k], files)],
   quoted |-> piece.quote \/ \E k \in DOMAIN piece.parts : piece.parts[k].ref # {}]

\* build_argv's loop.
ArgvOf(tokens, files) ==
  LET argv[k \in 0..Len(tokens)] ==
        IF k = 0 THEN <<>>
        ELSE IF tokens[k].group
                  /\ \E p \in DOMAIN tokens[k].pieces : \E j \in DOMAIN tokens[k].pieces[p].parts :
                       Shown(tokens[k].pieces[p].parts[j], files) = {}
        THEN argv[k - 1]
        ELSE argv[k - 1] \o [p \in DOMAIN tokens[k].pieces |-> ShownPiece(tokens[k].pieces[p], files)]
  IN argv[Len(tokens)]

\* build_argv; a group with a binary reference is dropped, any other word has a gap there.
BuildArgv(tokens) == ArgvOf(tokens, FALSE)

\* The words the script should have.
ScriptArgv(tokens) == ArgvOf(tokens, TRUE)

NamesFile(tokens) ==
  \E k \in DOMAIN tokens : \E r \in Refs(tokens[k]) : BinaryAt(r) # {}

----------------------------------------------------------------------------
(* Properties. *)

SeqRange(f) == {f[x] : x \in DOMAIN f}
ScriptWords == UNION {UNION {SeqRange(c) : c \in SeqRange(line)} : line \in SeqRange(lines)}
ShownWords ==
  SeqRange(words) \cup ScriptWords \cup (UNION {SeqRange(c) : c \in SeqRange(commands)})
Values(word) == {v \in UNION SeqRange(word.parts) : v.kind # "literal"}

\* Whatever comes from a request, a temporary file's path included, is in a
\* quoted word (exec.rs:328, 350).
ValuesQuoted == \A w \in ShownWords : Values(w) # {} => w.quoted

\* A single value that becomes an argument has been validated against a
\* constrained type, or is the server's own: no step of the renderer reads what
\* the checker did not look at (check.rs:275-366).  The one text without a type of its
\* own is the whole of a body, and only of typed JSON or of a form, whatever its fields
\* are: check.rs:327, 338 and 343 look at the fields of a path only.  The program's name
\* is the author's (check.rs:368-376).
ArgvTyped ==
  /\ \A w \in ShownWords : \A v \in Values(w) : v.kind = "text" =>
       IF v = WholeBody THEN ep.body.kind = "form" \/ (ep.body.kind = "json" /\ ep.body.typed)
       ELSE v.ty \notin {"string", "json", "header"}
  /\ \A c \in UNION {SeqRange(line) : line \in SeqRange(lines)} : Values(c[1]) = {}

\* "`string` and free `json` types are restricted to stdin only, so unconstrained text
\* cannot become argv" (README.md:253, llm.md:85), and typed JSON is passed entirely only
\* "if all fields are also valid fields that accept this" (specs.md:192).  The code does
\* not keep this for the whole of a body (check.rs:327-343, exec.rs:94-97).
TypesIn(v) ==
  IF v = WholeBody THEN {ep.body.fields[n] : n \in DOMAIN ep.body.fields} ELSE {v.ty}
ArgvConstrained ==
  \A w \in ShownWords : \A v \in Values(w) :
    v.kind = "text" => TypesIn(v) \cap Unconstrained = {}

\* A checked endpoint fails to resolve a source (exec.rs:378-380) only where
\* its declaration leaves the value out, and no command comes out empty.
UnresolvedIsOptional ==
  /\ why # "empty command"
  /\ why = "unresolved" =>
       \A r \in ep.exec[s][g].source :
         \/ <<r.from, r.path[1]>> \in ep.optional
         \/ r.from = "body" /\ ep.body.kind = "json" /\ (Len(r.path) > 1 \/ ~ep.body.typed)

Sources(statement) == {k \in DOMAIN statement : statement[k].source # {}}
SourceInput(statement, n) ==
  IF n = 0 THEN {} ELSE UNION {ResolveBytes(r) : r \in statement[n].source}
MaskedCommand(command) == [k \in DOMAIN command |-> MaskedWord(command[k])]
Argvs(statement, n) == [c \in 1..(Len(statement) - n) |-> ScriptArgv(statement[n + c].tokens)]

\* The script, in a real run and in a preview, has each word of each command, with a
\* file or the marker for a binary value, and a command without one is build_argv's
\* argument list (exec.rs:161-188, 243-299); with one the two differ, as build_argv
\* takes a binary value for a missing one (exec.rs:99, 104, 152).  A statement's sources
\* come before its commands; the script's input is that of the first statement's last
\* source, and no other statement has one (exec.rs:392-401).
ScriptIsArgv ==
  phase = "ok" =>
    /\ Len(lines) = Len(ep.exec)
    /\ \A x \in DOMAIN lines : \E n \in 0..Len(ep.exec[x]) :
         /\ Sources(ep.exec[x]) = 1..n
         /\ [c \in DOMAIN lines[x] |-> MaskedCommand(lines[x][c])] = Argvs(ep.exec[x], n)
         /\ \A c \in DOMAIN lines[x] :
              LET tokens == ep.exec[x][n + c].tokens IN
              ~NamesFile(tokens) => MaskedCommand(lines[x][c]) = BuildArgv(tokens)
         /\ x # 1 => n = 0
         /\ x = 1 => stdin = SourceInput(ep.exec[1], n)

\* Every temporary file the script names is held by the result, one per use,
\* with the bytes it stands for; a preview writes none (exec.rs:243-272).
TempFilesBacked ==
  /\ phase \in {"render", "ok"} =>
       \A w \in ShownWords : \A v \in Values(w) : v.kind = "temp" => v \in temps
  /\ dry => temps = {}
  /\ \A v, w \in temps : v.place = w.place => v = w
=============================================================================
