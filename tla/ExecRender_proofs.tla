------------------------- MODULE ExecRender_proofs -------------------------
(***************************************************************************)
(* The renderer for every endpoint and every request: what the checker     *)
(* accepts puts nothing into a command that is not quoted, typed and held. *)
(*                                                                         *)
(* The words written so far are in Seq(S) for a set S of words that are    *)
(* all good; a token adds its own words to S.                              *)
(***************************************************************************)
EXTENDS ExecRender, SequenceTheorems, WellFoundedInduction, TLAPS

\* Everything written is in S.
Written(S) == words \in Seq(S) /\ commands \in Seq(Seq(S)) /\ lines \in Seq(Seq(Seq(S)))

LEMMA RangeIn ==
  ASSUME NEW S, NEW f \in Seq(S)
  PROVE  SeqRange(f) \subseteq S
  BY DEF SeqRange

\* ShownWords looks at nothing else.
LEMMA ShownIn ==
  ASSUME NEW S, Written(S)
  PROVE  ShownWords \subseteq S
<1>1. SeqRange(words) \subseteq S
  BY RangeIn DEF Written
<1>2. \A list \in Seq(Seq(S)) : UNION {SeqRange(c) : c \in SeqRange(list)} \subseteq S
  <2>1. ASSUME NEW list \in Seq(Seq(S)) PROVE UNION {SeqRange(c) : c \in SeqRange(list)} \subseteq S
    <3>1. SeqRange(list) \subseteq Seq(S)
      BY RangeIn
    <3>2. \A c \in SeqRange(list) : SeqRange(c) \subseteq S
      BY <3>1, RangeIn
    <3> HIDE DEF SeqRange
    <3>3. ASSUME NEW w, w \in UNION {SeqRange(c) : c \in SeqRange(list)} PROVE w \in S
      <4>1. \E c \in SeqRange(list) : w \in SeqRange(c)
        BY <3>3
      <4> QED BY <4>1, <3>2
    <3> QED BY <3>3
  <2> QED BY <2>1
<1>3. SeqRange(lines) \subseteq Seq(Seq(S))
  BY RangeIn DEF Written
<1>4. ScriptWords \subseteq S
  BY <1>2, <1>3 DEF ScriptWords
<1> QED BY <1>1, <1>2, <1>4 DEF ShownWords, Written

LEMMA SeqWider ==
  ASSUME NEW S, NEW T, S \subseteq T
  PROVE  Seq(S) \subseteq Seq(T)
<1>1. ASSUME NEW f \in Seq(S) PROVE f \in Seq(T)
  <2>1. Len(f) \in Nat /\ f \in [1..Len(f) -> S]
    BY LenProperties
  <2>2. f \in [1..Len(f) -> T]
    BY <2>1
  <2> QED BY <2>1, <2>2
<1> QED BY <1>1

LEMMA WrittenWider ==
  ASSUME NEW S, NEW T, S \subseteq T, Written(S)
  PROVE  Written(T)
  BY SeqWider DEF Written

----------------------------------------------------------------------------
(* The place the renderer is at. *)

Shape ==
  /\ ep \in Endpoints
  /\ s \in Nat \ {0} /\ g \in Nat \ {0} /\ t \in Nat \ {0}
  /\ phase \in {"check", "rejected", "idle", "render", "ok", "err"}

\* What Check and Begin have settled.
Settled ==
  /\ phase \notin {"check", "rejected"} => NoErrors
  /\ phase \in {"render", "ok", "err"} => ctx \in Contexts[ep]
  /\ phase \in {"check", "rejected", "idle"} => why = "none"

\* What the steps do to the place.
LEMMA Moves ==
  ASSUME Next \/ UNCHANGED renderVars
  PROVE  /\ ep' = ep /\ dry' = dry
         /\ \/ s' = 1 /\ g' = 1 /\ t' = 1 /\ phase' = "render"
            \/ s' = s /\ g' = g /\ t' = t /\ phase' \in {"rejected", "idle", "ok", "err", phase}
            \/ s' = s /\ g' = g + 1 /\ t' \in {1, t} /\ phase' = phase
            \/ s' = s /\ g' = g /\ t' = t + 1 /\ phase' = phase
            \/ s' = s + 1 /\ g' = 1 /\ t' = t /\ phase' = phase
<1>1. CASE Check
  BY <1>1 DEF Check
<1>2. CASE Begin
  BY <1>2 DEF Begin
<1>3. ASSUME NEW reason, Err(reason)
      PROVE  ep' = ep /\ dry' = dry /\ s' = s /\ g' = g /\ t' = t /\ phase' = "err"
  BY <1>3 DEF Err
<1>4. CASE Source
  BY <1>3, <1>4 DEF Source
<1>5. CASE RenderToken
  BY <1>5 DEF RenderToken
<1>6. CASE TempFails
  BY <1>3, <1>6 DEF TempFails
<1>7. CASE CommandDone
  BY <1>3, <1>7 DEF CommandDone
<1>8. CASE StatementDone
  BY <1>3, <1>8 DEF StatementDone
<1>9. CASE ScriptDone
  BY <1>9 DEF ScriptDone
<1>10. CASE UNCHANGED renderVars
  BY <1>10 DEF renderVars
<1> QED BY <1>1, <1>2, <1>4, <1>5, <1>6, <1>7, <1>8, <1>9, <1>10 DEF Next

LEMMA ShapeStays ==
  ASSUME Shape, Next \/ UNCHANGED renderVars
  PROVE  Shape'
  BY Moves DEF Shape

LEMMA NoErrorsStays ==
  ASSUME ep' = ep
  PROVE  NoErrors' <=> NoErrors
<1>1. Stages' = Stages
  BY DEF Stages
<1>2. Commands' = Commands
  BY <1>1 DEF Commands
<1>3. Tokens' = Tokens
  BY <1>2 DEF Tokens
<1>4. ArgvRefs' = ArgvRefs
  BY <1>3 DEF ArgvRefs, Refs
<1>5. (CheckTypes' <=> CheckTypes) /\ (CheckExecutable' <=> CheckExecutable)
  BY <1>2 DEF CheckTypes, CheckExecutable, Refs
<1>6. \A r : (CheckRef(r)' <=> CheckRef(r)) /\ (CheckArgvSafety(r)' <=> CheckArgvSafety(r))
  BY DEF CheckRef, CheckArgvSafety
<1> QED BY <1>1, <1>4, <1>5, <1>6 DEF NoErrors

LEMMA SettledStays ==
  ASSUME Shape, Settled, Next \/ UNCHANGED renderVars
  PROVE  Settled'
<1>1. ep' = ep
  BY DEF Next, Check, Begin, Err, Source, RenderToken, TempFails, CommandDone,
     StatementDone, ScriptDone, renderVars
<1>2. CASE Check
  BY <1>1, <1>2, NoErrorsStays DEF Check, Settled
<1>3. CASE Begin
  BY <1>1, <1>3, NoErrorsStays DEF Begin, Settled
<1>4. CASE Source \/ RenderToken \/ TempFails \/ CommandDone \/ StatementDone \/ ScriptDone
  <2>1. ctx' = ctx /\ phase = "render" /\ phase' \in {"render", "ok", "err"}
    BY <1>4 DEF Err, Source, RenderToken, TempFails, CommandDone, StatementDone, ScriptDone,
       AtCommand, AtStage, InStatement
  <2> QED BY <1>1, <2>1, NoErrorsStays DEF Settled
<1>5. CASE UNCHANGED renderVars
  BY <1>1, <1>5, NoErrorsStays DEF renderVars, Settled
<1> QED BY <1>2, <1>3, <1>4, <1>5 DEF Next

\* The token whose turn it is, as ExecAssumption has it.
LEMMA TokenIs ==
  ASSUME Shape, AtCommand, t =< Len(ep.exec[s][g].tokens)
  PROVE  /\ ep.exec[s][g] \in Commands
         /\ Token \in Tokens
         /\ t \in DOMAIN ep.exec[s][g].tokens
         /\ Filled(Token.pieces)
         /\ ~Token.group => Len(Token.pieces) = 1
         /\ \A p \in DOMAIN Token.pieces : \A k \in DOMAIN Token.pieces[p].parts :
              LET part == Token.pieces[p].parts[k] IN
              /\ AtMostOne(part.ref) /\ part.ref \subseteq ArgvRefs
              /\ \A r \in part.ref : r.from \in Scopes \cup {"body"} /\ Listed(r.path)
<1>1. s \in DOMAIN ep.exec /\ g \in DOMAIN ep.exec[s] /\ ep.exec[s][g].source = {}
  <2>1. Listed(ep.exec) /\ \A n \in DOMAIN ep.exec : Listed(ep.exec[n])
    BY ExecAssumption DEF Shape, Filled
  <2>2. s \in DOMAIN ep.exec
    BY <2>1 DEF Shape, AtCommand, AtStage, InStatement, Listed
  <2>3. g \in DOMAIN ep.exec[s]
    BY <2>1, <2>2 DEF Shape, AtCommand, AtStage, Listed
  <2> QED BY <2>2, <2>3 DEF AtCommand
<1>2. ep.exec[s][g] \in Commands
  BY <1>1 DEF Commands, Stages
<1>3. t \in DOMAIN ep.exec[s][g].tokens
  <2>1. Listed(ep.exec[s][g].tokens)
    BY <1>1, ExecAssumption DEF Shape, Filled
  <2> QED BY <2>1 DEF Shape, Listed
<1>4. Token \in Tokens
  BY <1>2, <1>3 DEF Tokens, Token
<1>5. /\ Filled(Token.pieces)
      /\ ~Token.group => Len(Token.pieces) = 1
      /\ \A p \in DOMAIN Token.pieces : \A k \in DOMAIN Token.pieces[p].parts :
           LET part == Token.pieces[p].parts[k] IN
           /\ AtMostOne(part.ref)
           /\ \A r \in part.ref : r.from \in Scopes \cup {"body"} /\ Listed(r.path)
  BY <1>1, <1>3, ExecAssumption DEF Shape, Token
<1>6. ASSUME NEW p \in DOMAIN Token.pieces, NEW k \in DOMAIN Token.pieces[p].parts
      PROVE  Token.pieces[p].parts[k].ref \subseteq Refs(Token)
  <2>1. UNION {Token.pieces[p].parts[j].ref : j \in DOMAIN Token.pieces[p].parts} \subseteq Refs(Token)
    BY DEF Refs
  <2> QED BY <2>1
<1>7. Refs(Token) \subseteq ArgvRefs
  BY <1>4 DEF ArgvRefs
<1> QED BY <1>2, <1>3, <1>4, <1>5, <1>6, <1>7

----------------------------------------------------------------------------
(* What a step writes. *)

LEMMA TokenWordsIn ==
  ASSUME Shape, AtCommand, t =< Len(ep.exec[s][g].tokens),
         NEW T, TokenWords = <<>> \/ \A p \in DOMAIN Token.pieces : Word(p) \in T
  PROVE  TokenWords \in Seq(T)
<1>1. Filled(Token.pieces) /\ (~Token.group => Len(Token.pieces) = 1)
  BY TokenIs
<1>2. CASE ~Token.group
  <2>1. 1 \in DOMAIN Token.pieces
    BY <1>1, <1>2 DEF Filled, Listed
  <2>2. TokenWords = <<Word(1)>>
    BY <1>2 DEF TokenWords
  <2>3. Word(1) \in T
    BY <2>1, <2>2
  <2> HIDE DEF Word
  <2> QED BY <2>2, <2>3
<1>3. CASE Token.group /\ \E p \in DOMAIN Token.pieces : Absent(p) # {}
  <2>1. TokenWords = <<>>
    BY <1>3 DEF TokenWords
  <2> QED BY <2>1
<1>4. CASE Token.group /\ (~\E p \in DOMAIN Token.pieces : Absent(p) # {}) /\ TokenWords # <<>>
  <2>1. TokenWords = [p \in DOMAIN Token.pieces |-> Word(p)]
    BY <1>4 DEF TokenWords
  <2>2. DOMAIN Token.pieces = 1..Len(Token.pieces) /\ Len(Token.pieces) \in Nat
    BY <1>1 DEF Filled, Listed
  <2>3. \A p \in 1..Len(Token.pieces) : Word(p) \in T
    BY <1>4, <2>2
  <2> DEFINE n == Len(Token.pieces)
  <2>4. TokenWords = [p \in 1..n |-> Word(p)]
    BY <2>1, <2>2
  <2>5. n \in Nat /\ \A p \in 1..n : Word(p) \in T
    BY <2>2, <2>3
  <2> HIDE DEF n
  <2> QED BY <2>4, <2>5
<1>5. CASE TokenWords = <<>>
  BY <1>5
<1> QED BY <1>2, <1>3, <1>4, <1>5

\* A token adds its own words; every other step only moves words that are there.
LEMMA WritesOn ==
  ASSUME Shape, NEW S, NEW T, S \subseteq T, Written(S), Next \/ UNCHANGED renderVars,
         RenderToken => TokenWords = <<>> \/ \A p \in DOMAIN Token.pieces : Word(p) \in T
  PROVE  Written(T)'
<1> DEFINE Kept == words' = words /\ commands' = commands /\ lines' = lines
<1>1. Written(T)
  BY WrittenWider
<1>2. CASE Kept
  BY <1>1, <1>2 DEF Written
<1>3. CASE Begin
  BY <1>3 DEF Begin, Written
<1>4. CASE RenderToken
  <2>1. TokenWords \in Seq(T)
    BY <1>4, TokenWordsIn DEF RenderToken
  <2>2. words' = words \o TokenWords /\ commands' = commands /\ lines' = lines
    BY <1>4 DEF RenderToken
  <2> HIDE DEF TokenWords
  <2>3. words' \in Seq(T)
    BY <1>1, <2>1, <2>2, ConcatProperties DEF Written
  <2> QED BY <1>1, <2>2, <2>3 DEF Written
<1>5. CASE CommandDone /\ ~Kept
  <2>1. commands' = Append(commands, words) /\ words' = <<>> /\ lines' = lines
    BY <1>5 DEF CommandDone, Err
  <2>2. commands' \in Seq(Seq(T))
    BY <1>1, <2>1, AppendProperties DEF Written
  <2> QED BY <1>1, <2>1, <2>2 DEF Written
<1>6. CASE StatementDone /\ ~Kept
  <2>1. lines' = Append(lines, commands) /\ commands' = <<>> /\ words' = words
    BY <1>6 DEF StatementDone, Err
  <2>2. lines' \in Seq(Seq(Seq(T)))
    BY <1>1, <2>1, AppendProperties DEF Written
  <2> QED BY <1>1, <2>1, <2>2 DEF Written
<1>7. CASE Check \/ Source \/ TempFails \/ ScriptDone \/ UNCHANGED renderVars
  <2>1. Kept
    BY <1>7 DEF Check, Source, TempFails, ScriptDone, Err, renderVars
  <2> QED BY <1>2, <2>1
<1> HIDE DEF Kept
<1> QED BY <1>2, <1>3, <1>4, <1>5, <1>6, <1>7 DEF Next

LEMMA NothingWritten ==
  ASSUME Init
  PROVE  Shape /\ Written({})
  BY DEF Init, Shape, Written

----------------------------------------------------------------------------
(* Quoting. *)

Quoted(w) == Values(w) # {} => w.quoted
AllQuoted == Shape /\ \E S : Written(S) /\ \A w \in S : Quoted(w)

\* A part without a reference shows the author's text.
LEMMA WordIsQuoted ==
  ASSUME NEW p \in DOMAIN Token.pieces
  PROVE  Quoted(Word(p))
<1> DEFINE piece == Token.pieces[p]
<1>1. Word(p).parts = [k \in DOMAIN piece.parts |-> PartText(p, k)]
  BY DEF Word
<1>2. SUFFICES ASSUME NEW v \in Values(Word(p)) PROVE Word(p).quoted
  BY DEF Quoted
<1>3. v.kind # "literal" /\ \E k \in DOMAIN piece.parts : v \in PartText(p, k)
  BY <1>1 DEF Values, SeqRange
<1>4. PICK k \in DOMAIN piece.parts : v \in PartText(p, k)
  BY <1>3
<1>5. piece.parts[k].ref # {}
  BY <1>3, <1>4 DEF PartText
<1> QED BY <1>5 DEF Word

LEMMA AllQuotedStays ==
  ASSUME AllQuoted, Next \/ UNCHANGED renderVars
  PROVE  AllQuoted'
<1>1. PICK S : Written(S) /\ \A w \in S : Quoted(w)
  BY DEF AllQuoted
<1>2. PICK T : T = S \cup {Word(p) : p \in DOMAIN Token.pieces}
  OBVIOUS
<1>3. Written(T)'
  <2>1. Shape /\ S \subseteq T /\ \A p \in DOMAIN Token.pieces : Word(p) \in T
    BY <1>2 DEF AllQuoted
  <2> QED BY <1>1, <2>1, WritesOn
<1>4. \A w \in T : Quoted(w)
  BY <1>1, <1>2, WordIsQuoted
<1>5. Shape'
  BY ShapeStays DEF AllQuoted
<1> QED BY <1>3, <1>4, <1>5 DEF AllQuoted

\* Whatever comes from a request is in a quoted word, for every endpoint, request and
\* Exec (exec.rs:328, 350).
THEOREM QuotedAlways == Spec => []ValuesQuoted
<1>1. Init => AllQuoted
  BY NothingWritten DEF AllQuoted
<1>2. AllQuoted /\ [Next]_renderVars => AllQuoted'
  BY AllQuotedStays
<1>3. AllQuoted => ValuesQuoted
  <2>1. ASSUME NEW S, Written(S), \A w \in S : Quoted(w) PROVE ValuesQuoted
    BY <2>1, ShownIn DEF ValuesQuoted, Quoted
  <2> QED BY <2>1 DEF AllQuoted
<1> QED BY <1>1, <1>2, <1>3, PTL DEF Spec

----------------------------------------------------------------------------
(* What an argument may be. *)

Safe(v) ==
  IF v = WholeBody THEN ep.body.kind = "form" \/ (ep.body.kind = "json" /\ ep.body.typed)
  ELSE v.ty \notin {"string", "json", "header"}

\* What the checker's two rules for an argument say of a reference into the body.
LEMMA BodyArgument ==
  ASSUME ep \in Endpoints, NEW r, r.from = "body", CheckRef(r), CheckArgvSafety(r)
  PROVE  /\ ep.body.kind \in {"none", "binary", "json", "form"}
         /\ ep.body.kind = "json" => ep.body.typed
         /\ ep.body.kind \in {"json", "form"} /\ r.path # <<>> =>
              /\ r.path[1] \in DOMAIN ep.body.fields
              /\ ep.body.fields[r.path[1]] \notin {"string", "json", "header"}
<1>1. ep.body.kind \in {"none", "string", "binary", "json", "form"}
  BY TypeAssumption
<1>2. ep.body.kind # "string"
  BY DEF CheckArgvSafety
<1>3. ASSUME ep.body.kind = "json" PROVE ep.body.typed
  <2>1. SUFFICES ASSUME ~ep.body.typed PROVE FALSE
    OBVIOUS
  <2> QED BY <1>3, <2>1 DEF CheckArgvSafety
<1>4. ASSUME ep.body.kind \in {"json", "form"}, r.path # <<>>
      PROVE  r.path[1] \in DOMAIN ep.body.fields
  BY <1>3, <1>4 DEF CheckRef
<1>5. ASSUME ep.body.kind \in {"json", "form"}, r.path # <<>>
      PROVE  Lookup(ep.body.fields, r.path[1]) \cap Unconstrained = {}
  BY <1>3, <1>5 DEF CheckArgvSafety
<1>6. ASSUME ep.body.kind \in {"json", "form"}, r.path # <<>>
      PROVE  ep.body.fields[r.path[1]] \notin {"string", "json", "header"}
  BY <1>4, <1>5, <1>6, TypeAssumption DEF Lookup, Unconstrained
<1> QED BY <1>1, <1>2, <1>3, <1>4, <1>6

LEMMA BodyValueIsSafe ==
  ASSUME ep \in Endpoints, ctx \in Contexts[ep],
         NEW r, r.from = "body", Listed(r.path), CheckRef(r), CheckArgvSafety(r),
         NEW v \in ResolveText(r)
  PROVE  v.kind = "text" /\ Safe(v)
<1>1. ctx.body.kind = ep.body.kind
  BY ContextAssumption
<1> DEFINE n == r.path[1]
<1>2. ep.body.kind \in {"json", "form"}
  BY <1>1, BodyArgument DEF ResolveText
<1>3. CASE r.path = <<>>
  <2>1. v = WholeBody
    BY <1>1, <1>2, <1>3 DEF ResolveText
  <2>2. v.kind = "text"
    BY <2>1 DEF WholeBody, Text
  <2> QED BY <1>2, <2>1, <2>2, BodyArgument DEF Safe
<1>4. CASE r.path # <<>> /\ ep.body.kind = "form"
  <2>1. v \in Lookup(ctx.body.fields, n) /\ v.kind = "text"
    BY <1>1, <1>4 DEF ResolveText
  <2>2. n \in DOMAIN ctx.body.fields /\ v = ctx.body.fields[n]
    BY <2>1 DEF Lookup
  <2>3. n \in DOMAIN ep.body.fields /\ ep.body.fields[n] \notin {"string", "json", "header"}
    BY <1>4, BodyArgument
  <2>4. v = Text(n, ep.body.fields[n])
    BY <1>4, <2>1, <2>2, <2>3, ContextAssumption
  <2> QED BY <2>3, <2>4 DEF Safe, WholeBody, Text
<1>5. CASE r.path # <<>> /\ ep.body.kind = "json"
  <2>1. /\ ep.body.typed /\ n \in DOMAIN ep.body.fields
        /\ ep.body.fields[n] \notin {"string", "json", "header"}
    BY <1>5, BodyArgument
  <2>2. /\ ctx.body.value.kind = "object"
        /\ n \in DOMAIN ctx.body.value.fields => ctx.body.value.fields[n] = Text(n, ep.body.fields[n])
    <3>1. ep.body.kind = "json" /\ ep.body.typed
      BY <1>5, <2>1
    <3>2. /\ ctx.body.value.kind = "object"
          /\ \A f \in DOMAIN ep.body.fields :
               f \in DOMAIN ctx.body.value.fields =>
                 \/ ctx.body.value.fields[f] = Text(f, ep.body.fields[f])
                 \/ ep.body.fields[f] \in {"string", "json"}
      BY <3>1, ContextAssumption
    <3> QED BY <2>1, <3>2
  <2>3. Get({ctx.body.value}, n) \subseteq {Text(n, ep.body.fields[n])}
    BY <2>2 DEF Get, Lookup
  <2>4. Walk(ctx.body.value, r.path) \subseteq {Text(n, ep.body.fields[n])}
    <3>1. ~\E w \in Get({ctx.body.value}, n) : w.kind = "object"
      BY <2>3 DEF Text
    <3>2. Walk(ctx.body.value, r.path) = {w \in Get({ctx.body.value}, n) : Len(r.path) = 1}
      BY <3>1 DEF Walk
    <3> QED BY <2>3, <3>2
  <2>5. PICK w \in Walk(ctx.body.value, r.path) : v = IF w.kind = "object" THEN Nested ELSE w
    BY <1>1, <1>5 DEF ResolveText
  <2>6. w = Text(n, ep.body.fields[n])
    BY <2>4, <2>5
  <2>7. v = Text(n, ep.body.fields[n])
    BY <2>5, <2>6 DEF Text
  <2> QED BY <2>1, <2>7 DEF Safe, WholeBody, Text
<1> QED BY <1>2, <1>3, <1>4, <1>5

\* Whatever an argument's reference resolves to has been validated.
LEMMA ValueIsSafe ==
  ASSUME ep \in Endpoints, NoErrors, ctx \in Contexts[ep],
         NEW r \in ArgvRefs, r.from \in Scopes \cup {"body"}, Listed(r.path),
         NEW v \in ResolveText(r)
  PROVE  v.kind = "text" /\ Safe(v)
<1>1. CheckRef(r) /\ CheckArgvSafety(r)
  BY DEF NoErrors
<1>2. CASE r.from = "body"
  BY <1>1, <1>2, BodyValueIsSafe
<1>3. CASE r.from # "body"
  <2> DEFINE n == r.path[1]
  <2>1. r.from \in Scopes
    BY <1>3
  <2>2. n \in DOMAIN ctx[r.from] /\ v = ctx[r.from][n]
    BY <1>3 DEF ResolveText, Lookup
  <2>3. n \in DOMAIN ep[r.from] /\ v = Text(n, ep[r.from][n])
    BY <2>1, <2>2, ContextAssumption
  <2>4. ep[r.from][n] \in Lookup(ep[r.from], n)
    BY <2>3 DEF Lookup
  <2>5. ep[r.from][n] \notin {"string", "json", "header"}
    <3>1. CASE r.from = "vars"
      <4>1. "header" \notin Lookup(ep.vars, n) /\ ep.vars[n] \in {"env", "literal", "header"}
        BY <1>1, <2>3, <3>1, TypeAssumption DEF CheckArgvSafety
      <4> QED BY <2>4, <3>1, <4>1
    <3>2. CASE r.from \in {"query", "headers", "path"}
      <4>1. Lookup(ep[r.from], n) \cap Unconstrained = {} /\ ep[r.from][n] # "header"
        BY <1>1, <2>3, <3>2, TypeAssumption DEF CheckArgvSafety
      <4> QED BY <2>4, <4>1 DEF Unconstrained
    <3> QED BY <2>1, <3>1, <3>2 DEF Scopes
  <2> QED BY <2>3, <2>5 DEF Safe, WholeBody, Text
<1> QED BY <1>2, <1>3

\* What a part puts into a word, besides the author's text.
LEMMA PartHas ==
  ASSUME Shape, Settled, AtCommand, t =< Len(ep.exec[s][g].tokens),
         NEW p \in DOMAIN Token.pieces, NEW k \in DOMAIN Token.pieces[p].parts,
         NEW v \in PartText(p, k), v.kind # "literal"
  PROVE  \/ v.kind = "text" /\ Safe(v)
         \/ dry /\ v = Marker
         \/ /\ ~dry
            /\ \E r \in Token.pieces[p].parts[k].ref : \E b \in BinaryAt(r) :
                 v = [kind |-> "temp", place |-> Place(p, k), of |-> b]
<1> DEFINE part == Token.pieces[p].parts[k]
<1>1. PICK r \in part.ref : v \in ResolveShellText(r, Place(p, k))
  BY DEF PartText
<1>2. r \in ArgvRefs /\ r.from \in Scopes \cup {"body"} /\ Listed(r.path)
  BY <1>1, TokenIs
<1>3. ep \in Endpoints /\ NoErrors /\ ctx \in Contexts[ep]
  BY DEF Shape, Settled, AtCommand, AtStage, InStatement
<1>4. CASE BinaryAt(r) = {}
  <2>1. v \in ResolveText(r)
    BY <1>1, <1>4 DEF ResolveShellText
  <2> QED BY <1>2, <1>3, <2>1, ValueIsSafe
<1>5. CASE BinaryAt(r) # {} /\ dry
  BY <1>1, <1>5 DEF ResolveShellText
<1>6. CASE BinaryAt(r) # {} /\ ~dry
  <2>1. PICK b \in BinaryAt(r) : v = [kind |-> "temp", place |-> Place(p, k), of |-> b]
    BY <1>1, <1>6 DEF ResolveShellText
  <2> QED BY <1>1, <1>6, <2>1
<1> QED BY <1>4, <1>5, <1>6

LEMMA WordHas ==
  ASSUME NEW p \in DOMAIN Token.pieces, NEW v \in Values(Word(p))
  PROVE  v.kind # "literal" /\ \E k \in DOMAIN Token.pieces[p].parts : v \in PartText(p, k)
<1>1. Word(p).parts = [k \in DOMAIN Token.pieces[p].parts |-> PartText(p, k)]
  BY DEF Word
<1> QED BY <1>1 DEF Values, SeqRange

Typed(w) == \A v \in Values(w) : v.kind = "text" => Safe(v)

LEMMA WordIsTyped ==
  ASSUME Shape, Settled, AtCommand, t =< Len(ep.exec[s][g].tokens), NEW p \in DOMAIN Token.pieces
  PROVE  Typed(Word(p))
<1>1. SUFFICES ASSUME NEW v \in Values(Word(p)), v.kind = "text" PROVE Safe(v)
  BY DEF Typed
<1>2. PICK k \in DOMAIN Token.pieces[p].parts : v \in PartText(p, k)
  BY WordHas
<1>3. v.kind # "literal" /\ v # Marker /\ \A b : v # [kind |-> "temp", place |-> Place(p, k), of |-> b]
  BY <1>1 DEF Marker
<1> QED BY <1>2, <1>3, PartHas

----------------------------------------------------------------------------
(* The program of a command is its author's. *)

Own(command) == Values(command[1]) = {}
Headed ==
  /\ \E C : commands \in Seq(C) /\ lines \in Seq(Seq(C)) /\ \A c \in C : Own(c)
  /\ t = 1 => words = <<>>
  /\ t # 1 => words # <<>> /\ Own(words)

LEMMA FirstToken ==
  ASSUME Shape, Settled, AtCommand, t =< Len(ep.exec[s][g].tokens), t = 1
  PROVE  TokenWords # <<>> /\ Own(TokenWords)
<1>1. ep.exec[s][g] \in Commands /\ Filled(Token.pieces)
  BY TokenIs
<1>2. Refs(Token) = {}
  BY <1>1 DEF Settled, NoErrors, CheckExecutable, AtCommand, AtStage, InStatement, Token
<1>3. ASSUME NEW p \in DOMAIN Token.pieces, NEW k \in DOMAIN Token.pieces[p].parts
      PROVE  Token.pieces[p].parts[k].ref = {}
  <2>1. UNION {Token.pieces[p].parts[j].ref : j \in DOMAIN Token.pieces[p].parts} \subseteq Refs(Token)
    BY DEF Refs
  <2> QED BY <1>2, <2>1
<1>4. ASSUME NEW p \in DOMAIN Token.pieces, NEW k \in DOMAIN Token.pieces[p].parts
      PROVE  PartText(p, k) = {[kind |-> "literal", text |-> Token.pieces[p].parts[k].text]}
  BY <1>3 DEF PartText
<1>5. \A p \in DOMAIN Token.pieces : Absent(p) = {}
  BY <1>4 DEF Absent
<1>6. \A p \in DOMAIN Token.pieces : Values(Word(p)) = {}
  <2>1. ASSUME NEW p \in DOMAIN Token.pieces, NEW v \in Values(Word(p)) PROVE FALSE
    BY <1>4, <2>1, WordHas
  <2> QED BY <2>1
<1>7. 1 \in DOMAIN Token.pieces /\ DOMAIN Token.pieces = 1..Len(Token.pieces) /\ Len(Token.pieces) \in Nat \ {0}
  BY <1>1 DEF Filled, Listed
<1>8. TokenWords = <<Word(1)>> \/ TokenWords = [p \in 1..Len(Token.pieces) |-> Word(p)]
  BY <1>5, <1>7 DEF TokenWords
<1>9. TokenWords # <<>> /\ TokenWords[1] = Word(1)
  <2>1. CASE TokenWords = <<Word(1)>>
    BY <2>1
  <2>2. CASE TokenWords = [p \in 1..Len(Token.pieces) |-> Word(p)]
    BY <1>7, <2>2
  <2> QED BY <1>8, <2>1, <2>2
<1> QED BY <1>6, <1>7, <1>9 DEF Own

LEMMA HeadedStays ==
  ASSUME Shape, Settled, NEW S, Written(S), Headed, Next \/ UNCHANGED renderVars
  PROVE  Headed'
<1>1. PICK C : commands \in Seq(C) /\ lines \in Seq(Seq(C)) /\ \A c \in C : Own(c)
  BY DEF Headed
<1>2. CASE Begin
  BY <1>2 DEF Begin, Headed
<1>3. CASE RenderToken
  <2>1. words' = words \o TokenWords /\ t' = t + 1 /\ commands' = commands /\ lines' = lines
    BY <1>3 DEF RenderToken
  <2>2. TokenWords \in Seq(S \cup {Word(p) : p \in DOMAIN Token.pieces})
    BY <1>3, TokenWordsIn DEF RenderToken
  <2>3. words \in Seq(S)
    BY DEF Written
  <2>4. t # 1 => words # <<>> /\ Own(words)
    BY DEF Headed
  <2>5. t = 1 => words = <<>> /\ TokenWords # <<>> /\ Own(TokenWords)
    BY <1>3, FirstToken DEF Headed, RenderToken
  <2> DEFINE tw == TokenWords
  <2> HIDE DEF tw
  <2>6. \A q \in Seq(S \cup {Word(p) : p \in DOMAIN Token.pieces}) :
          /\ words # <<>> => words \o q # <<>> /\ (words \o q)[1] = words[1]
          /\ words = <<>> => words \o q = q
    BY <2>3
  <2>7. words' # <<>> /\ Own(words')
    BY <2>1, <2>2, <2>4, <2>5, <2>6 DEF Own
  <2>8. t' # 1
    BY <2>1 DEF Shape
  <2> QED BY <1>1, <2>1, <2>7, <2>8 DEF Headed
<1>4. CASE CommandDone /\ commands' = Append(commands, words) /\ t' = 1 /\ words' = <<>> /\ lines' = lines
  <2>1. t # 1
    <3>1. /\ Filled(ep.exec) /\ \A n \in DOMAIN ep.exec : Filled(ep.exec[n])
          /\ \A n \in DOMAIN ep.exec : \A m \in DOMAIN ep.exec[n] :
               ep.exec[n][m].source = {} => Filled(ep.exec[n][m].tokens)
      BY ExecAssumption DEF Shape
    <3>2. /\ s =< Len(ep.exec) /\ g =< Len(ep.exec[s])
          /\ ep.exec[s][g].source = {} /\ t > Len(ep.exec[s][g].tokens)
      BY <1>4 DEF CommandDone, AtCommand, AtStage, InStatement
    <3>3. s \in DOMAIN ep.exec
      BY <3>1, <3>2 DEF Shape, Filled, Listed
    <3>4. g \in DOMAIN ep.exec[s]
      BY <3>1, <3>2, <3>3 DEF Shape, Filled, Listed
    <3>5. Filled(ep.exec[s][g].tokens)
      BY <3>1, <3>2, <3>3, <3>4
    <3> QED BY <3>2, <3>5 DEF Filled, Listed
  <2>2. Own(words)
    BY <2>1 DEF Headed
  <2> DEFINE D == C \cup {words}
  <2>3. commands \in Seq(D) /\ lines \in Seq(Seq(D))
    BY <1>1, SeqWider
  <2>4. commands' \in Seq(D)
    BY <1>4, <2>3, AppendProperties
  <2>5. \A c \in D : Own(c)
    BY <1>1, <2>2
  <2> HIDE DEF D
  <2> QED BY <1>4, <2>3, <2>4, <2>5 DEF Headed
<1>5. CASE StatementDone /\ lines' = Append(lines, commands) /\ commands' = <<>> /\ words' = words /\ t' = t
  <2>1. lines' \in Seq(Seq(C)) /\ commands' \in Seq(C)
    BY <1>1, <1>5, AppendProperties
  <2> QED BY <1>1, <1>5, <2>1 DEF Headed
<1>6. CASE words' = words /\ commands' = commands /\ lines' = lines /\ t' = t
  BY <1>1, <1>6 DEF Headed
<1>7. ASSUME NEW reason, Err(reason) PROVE words' = words /\ commands' = commands /\ lines' = lines /\ t' = t
  BY <1>7 DEF Err
<1>8. CASE Check \/ Source \/ TempFails \/ ScriptDone \/ UNCHANGED renderVars
  <2>1. words' = words /\ commands' = commands /\ lines' = lines /\ t' = t
    BY <1>7, <1>8 DEF Check, Source, TempFails, ScriptDone, renderVars
  <2> QED BY <1>6, <2>1
<1>9. CASE CommandDone
  BY <1>4, <1>6, <1>7, <1>9 DEF CommandDone
<1>10. CASE StatementDone
  BY <1>5, <1>6, <1>7, <1>10 DEF StatementDone
<1> QED BY <1>2, <1>3, <1>8, <1>9, <1>10 DEF Next

----------------------------------------------------------------------------
(* Every argument is typed. *)

Argv ==
  /\ Shape /\ Settled /\ Headed
  /\ \E S : Written(S) /\ \A w \in S : Typed(w)

LEMMA ArgvStays ==
  ASSUME Argv, Next \/ UNCHANGED renderVars
  PROVE  Argv'
<1>1. PICK S : Written(S) /\ \A w \in S : Typed(w)
  BY DEF Argv
<1>2. Shape' /\ Settled' /\ Headed'
  BY <1>1, ShapeStays, SettledStays, HeadedStays DEF Argv
<1> DEFINE AllTyped(T) == \A w \in T : Typed(w)
<1>5. \A T : AllTyped(T) => AllTyped(T)'
  <2>1. ep' = ep
    BY Moves
  <2> QED BY <2>1 DEF Typed, Safe
<1>3. CASE RenderToken
  <2>1. PICK T : T = S \cup {Word(p) : p \in DOMAIN Token.pieces}
    OBVIOUS
  <2>2. S \subseteq T /\ \A p \in DOMAIN Token.pieces : Word(p) \in T
    BY <2>1
  <2>3. Written(T)'
    BY <1>1, <2>2, WritesOn DEF Argv
  <2>4. \A p \in DOMAIN Token.pieces : Typed(Word(p))
    BY <1>3, WordIsTyped DEF Argv, RenderToken
  <2>5. \A w \in T : Typed(w)
    BY <1>1, <2>1, <2>4
  <2>6. (\A w \in T : Typed(w))'
    BY <1>5, <2>5
  <2> QED BY <1>2, <2>3, <2>6 DEF Argv
<1>4. CASE ~RenderToken
  <2>1. Written(S)'
    BY <1>1, <1>4, WritesOn DEF Argv
  <2>2. (\A w \in S : Typed(w))'
    BY <1>1, <1>5
  <2> QED BY <1>2, <2>1, <2>2 DEF Argv
<1> QED BY <1>3, <1>4

LEMMA ArgvStarts ==
  ASSUME Init
  PROVE  Argv
<1>1. Settled
  BY DEF Init, Settled
<1>2. Headed
  <2>1. commands \in Seq({}) /\ lines \in Seq(Seq({})) /\ t = 1 /\ words = <<>>
    BY DEF Init
  <2> QED BY <2>1 DEF Headed
<1> QED BY <1>1, <1>2, NothingWritten DEF Argv

\* For every endpoint the checker accepts, a value that becomes an argument was
\* validated against a constrained type or is the server's own, but for the whole of a
\* body, which is one of typed JSON or of a form and may hold any text; and the program's
\* name is the author's (check.rs:275-376).
THEOREM ArgvTypedAlways == Spec => []ArgvTyped
<1>1. Init => Argv
  BY ArgvStarts
<1>2. Argv /\ [Next]_renderVars => Argv'
  BY ArgvStays
<1>3. Argv => ArgvTyped
  <2>1. ASSUME Argv PROVE ArgvTyped
    <3>1. PICK S : Written(S) /\ \A w \in S : Typed(w)
      BY <2>1 DEF Argv
    <3>2. \A w \in ShownWords : Typed(w)
      BY <3>1, ShownIn
    <3>3. PICK C : lines \in Seq(Seq(C)) /\ \A c \in C : Own(c)
      BY <2>1 DEF Argv, Headed
    <3>4. \A line \in SeqRange(lines) : SeqRange(line) \subseteq C
      BY <3>3, RangeIn
    <3>5. ASSUME NEW c \in UNION {SeqRange(line) : line \in SeqRange(lines)} PROVE Own(c)
      <4>1. PICK line \in SeqRange(lines) : c \in SeqRange(line)
        BY <3>5
      <4> QED BY <3>3, <3>4, <4>1
    <3> QED BY <3>2, <3>5 DEF ArgvTyped, Typed, Safe, Own
  <2> QED BY <2>1
<1> QED BY <1>1, <1>2, <1>3, PTL DEF Spec

----------------------------------------------------------------------------
(* A source that resolves to nothing. *)

MayBeMissing(r) ==
  \/ <<r.from, r.path[1]>> \in ep.optional
  \/ r.from = "body" /\ ep.body.kind = "json" /\ (Len(r.path) > 1 \/ ~ep.body.typed)

LEMMA BodySourceResolves ==
  ASSUME ep \in Endpoints, ctx \in Contexts[ep],
         NEW r, r.from = "body", Listed(r.path), CheckRef(r), ResolveBytes(r) = {}
  PROVE  MayBeMissing(r)
<1> DEFINE n == r.path[1]
<1>1. ctx.body.kind = ep.body.kind
  BY ContextAssumption
<1>2. BinaryAt(r) = {} /\ ResolveText(r) = {}
  BY DEF ResolveBytes
<1>3. ep.body.kind \in {"none", "string", "binary", "json", "form"} /\ ep.body.kind # "none"
  BY TypeAssumption DEF CheckRef
<1>4. CASE ep.body.kind = "string"
  <2>1. r.path = <<>>
    BY <1>4 DEF CheckRef
  <2>2. ctx.body.value \in ResolveText(r)
    BY <1>1, <1>4, <2>1 DEF ResolveText
  <2> QED BY <1>2, <2>2
<1>5. CASE ep.body.kind = "binary"
  <2>1. r.path = <<>>
    BY <1>5 DEF CheckRef
  <2>2. ctx.body \in BinaryAt(r)
    BY <1>1, <1>5, <2>1 DEF BinaryAt
  <2> QED BY <1>2, <2>2
<1>6. r.path # <<>> \/ ep.body.kind \notin {"json", "form"}
  <2>1. ASSUME r.path = <<>>, ep.body.kind \in {"json", "form"} PROVE WholeBody \in ResolveText(r)
    BY <1>1, <2>1 DEF ResolveText
  <2> QED BY <1>2, <2>1
<1>7. CASE ep.body.kind = "json" /\ r.path # <<>>
  <2>1. SUFFICES ASSUME ~(Len(r.path) > 1 \/ ~ep.body.typed), <<"body", n>> \notin ep.optional
                 PROVE  FALSE
    BY <1>7 DEF MayBeMissing
  <2>2. Len(r.path) = 1 /\ ep.body.typed
    <3>1. Len(r.path) = 0 => r.path = <<>>
      BY DEF Listed
    <3>2. Len(r.path) = 1
      <4>1. Len(r.path) \in Nat /\ ~(Len(r.path) > 1) /\ Len(r.path) # 0
        BY <1>7, <2>1, <3>1 DEF Listed
      <4> DEFINE len == Len(r.path)
      <4>2. len \in Nat /\ ~(len > 1) /\ len # 0
        BY <4>1
      <4> HIDE DEF len
      <4>3. len = 1
        BY <4>2
      <4> QED BY <4>3 DEF len
    <3>3. ep.body.typed
      BY <2>1
    <3> QED BY <3>2, <3>3
  <2>3. n \in DOMAIN ep.body.fields
    BY <1>7, <2>2 DEF CheckRef
  <2>4. ep.body.kind = "json" /\ ep.body.typed
    BY <1>7, <2>2
  <2>5. /\ ctx.body.value.kind = "object"
        /\ \A f \in DOMAIN ep.body.fields :
             f \in DOMAIN ctx.body.value.fields \/ <<"body", f>> \in ep.optional
    BY <2>4, ContextAssumption
  <2>6. n \in DOMAIN ctx.body.value.fields
    BY <2>1, <2>3, <2>5
  <2> DEFINE v == ctx.body.value.fields[n]
  <2>7. v \in Get({ctx.body.value}, n)
    BY <2>5, <2>6 DEF Get, Lookup
  <2>8. v \in Walk(ctx.body.value, r.path)
    <3>1. ~(Len(r.path) > 1) /\ Len(r.path) = 1
      BY <2>2
    <3>2. Walk(ctx.body.value, r.path) = {w \in Get({ctx.body.value}, n) : Len(r.path) = 1}
      BY <3>1 DEF Walk
    <3> QED BY <2>7, <3>1, <3>2
  <2>9. \E w : w \in ResolveText(r)
    BY <1>1, <1>7, <2>8 DEF ResolveText
  <2> QED BY <1>2, <2>9
<1>8. CASE ep.body.kind = "form" /\ r.path # <<>>
  <2>1. SUFFICES ASSUME <<"body", n>> \notin ep.optional PROVE FALSE
    BY DEF MayBeMissing
  <2>2. Len(r.path) = 1 /\ n \in DOMAIN ep.body.fields
    BY <1>8 DEF CheckRef
  <2>3. /\ n \in DOMAIN ctx.body.fields
        /\ IF ep.body.fields[n] = "binary" THEN ctx.body.fields[n].kind = "binary"
           ELSE ctx.body.fields[n] = Text(n, ep.body.fields[n])
    BY <1>8, <2>1, <2>2, ContextAssumption
  <2>4. ctx.body.fields[n] \in Lookup(ctx.body.fields, n)
    BY <2>3 DEF Lookup
  <2>5. CASE ctx.body.fields[n].kind = "binary"
    <3>1. 1 \in DOMAIN r.path
      BY <2>2 DEF Listed
    <3>2. Lookup(ctx.body.fields, n) \in {Lookup(ctx.body.fields, f) : f \in {r.path[k] : k \in DOMAIN r.path}}
      BY <3>1
    <3>3. ctx.body.fields[n] \in BinaryAt(r)
      BY <1>1, <1>8, <2>2, <2>4, <2>5, <3>2 DEF BinaryAt
    <3> QED BY <1>2, <3>3
  <2>6. CASE ctx.body.fields[n].kind = "text"
    <3>1. ctx.body.fields[n] \in ResolveText(r)
      BY <1>1, <1>8, <2>2, <2>4, <2>6 DEF ResolveText
    <3> QED BY <1>2, <3>1
  <2> QED BY <2>3, <2>5, <2>6 DEF Text
<1> QED BY <1>3, <1>4, <1>5, <1>6, <1>7, <1>8

LEMMA SourceResolves ==
  ASSUME ep \in Endpoints, NoErrors, ctx \in Contexts[ep],
         NEW stage \in Stages, NEW r \in stage.source,
         r.from \in Scopes \cup {"body"}, Listed(r.path), ResolveBytes(r) = {}
  PROVE  MayBeMissing(r)
<1>1. CheckRef(r)
  BY DEF NoErrors
<1>2. CASE r.from = "body"
  BY <1>1, <1>2, BodySourceResolves
<1>3. CASE r.from # "body"
  <2> DEFINE n == r.path[1]
  <2>1. r.from \in Scopes /\ n \in DOMAIN ep[r.from]
    BY <1>1, <1>3 DEF CheckRef
  <2>2. ctx[r.from][n] \in ResolveText(r) \/ n \notin DOMAIN ctx[r.from]
    BY <1>3 DEF ResolveText, Lookup
  <2>3. n \notin DOMAIN ctx[r.from]
    BY <2>2 DEF ResolveBytes
  <2>4. <<r.from, n>> \in ep.optional
    BY <2>1, <2>3, ContextAssumption
  <2> QED BY <2>4 DEF MayBeMissing
<1> QED BY <1>2, <1>3

Excused ==
  /\ Argv
  /\ why # "none" => phase = "err"
  /\ UnresolvedIsOptional

LEMMA ExcusedStays ==
  ASSUME Excused, Next \/ UNCHANGED renderVars
  PROVE  Excused'
<1>1. Argv'
  BY ArgvStays DEF Excused
<1>2. ep' = ep
  BY Moves
<1>3. CASE why' = "none"
  BY <1>1, <1>3 DEF Excused, UnresolvedIsOptional
<1>4. ASSUME NEW reason, Err(reason)
      PROVE  phase' = "err" /\ why' = reason /\ s' = s /\ g' = g
  BY <1>4 DEF Err
<1>5. ASSUME NEW reason, Err(reason), reason \notin {"unresolved", "empty command"}
      PROVE  Excused'
  BY <1>1, <1>4, <1>5 DEF Excused, UnresolvedIsOptional
<1>6. CASE phase = "render" /\ why' = why
  <2>1. why = "none"
    BY <1>6 DEF Excused
  <2> QED BY <1>3, <1>6, <2>1
<1>7. CASE Source
  <2>1. CASE \E r \in ep.exec[s][g].source : ResolveBytes(r) = {} /\ Err("unresolved")
    <3>1. PICK r \in ep.exec[s][g].source : ResolveBytes(r) = {} /\ Err("unresolved")
      BY <2>1
    <3>2. /\ Listed(ep.exec) /\ \A m \in DOMAIN ep.exec : Listed(ep.exec[m])
          /\ \A m \in DOMAIN ep.exec : \A j \in DOMAIN ep.exec[m] :
               /\ AtMostOne(ep.exec[m][j].source)
               /\ \A q \in ep.exec[m][j].source : q.from \in Scopes \cup {"body"} /\ Listed(q.path)
      BY ExecAssumption DEF Excused, Argv, Shape, Filled
    <3>3. s =< Len(ep.exec) /\ g =< Len(ep.exec[s]) /\ phase = "render"
      BY <1>7 DEF Source, AtStage, InStatement
    <3>4. s \in DOMAIN ep.exec /\ g \in DOMAIN ep.exec[s]
      BY <3>2, <3>3 DEF Excused, Argv, Shape, Listed
    <3>5. ep.exec[s][g] \in Stages
      BY <3>4 DEF Stages
    <3>6. ep \in Endpoints /\ NoErrors /\ ctx \in Contexts[ep]
      BY <3>3 DEF Excused, Argv, Shape, Settled
    <3>7. MayBeMissing(r)
      BY <3>1, <3>2, <3>4, <3>5, <3>6, SourceResolves
    <3>8. \A q \in ep.exec[s][g].source : q = r
      BY <3>1, <3>2, <3>4 DEF AtMostOne
    <3>9. phase' = "err" /\ why' = "unresolved" /\ s' = s /\ g' = g
      BY <1>4, <3>1
    <3>10. UnresolvedIsOptional'
      BY <1>2, <3>7, <3>8, <3>9 DEF UnresolvedIsOptional, MayBeMissing
    <3> QED BY <1>1, <3>9, <3>10 DEF Excused
  <2>2. CASE Err("source after command")
    BY <1>5, <2>2
  <2>3. CASE why' = why
    BY <1>6, <1>7, <2>3 DEF Source, AtStage, InStatement
  <2> QED BY <1>7, <2>1, <2>2, <2>3 DEF Source
<1>8. CASE CommandDone
  <2>1. words = <<>> => t = 1
    BY DEF Excused, Argv, Headed
  <2>2. CASE Err("empty command") /\ words = <<>>
    <3>1. /\ Filled(ep.exec) /\ \A m \in DOMAIN ep.exec : Filled(ep.exec[m])
          /\ \A m \in DOMAIN ep.exec : \A j \in DOMAIN ep.exec[m] :
               ep.exec[m][j].source = {} => Filled(ep.exec[m][j].tokens)
      BY ExecAssumption DEF Excused, Argv, Shape
    <3>2. /\ s =< Len(ep.exec) /\ g =< Len(ep.exec[s])
          /\ ep.exec[s][g].source = {} /\ t > Len(ep.exec[s][g].tokens)
      BY <1>8 DEF CommandDone, AtCommand, AtStage, InStatement
    <3>3. s \in DOMAIN ep.exec
      BY <3>1, <3>2 DEF Excused, Argv, Shape, Filled, Listed
    <3>4. g \in DOMAIN ep.exec[s]
      BY <3>1, <3>2, <3>3 DEF Excused, Argv, Shape, Filled, Listed
    <3>5. Filled(ep.exec[s][g].tokens)
      BY <3>1, <3>2, <3>3, <3>4
    <3>6. t # 1
      BY <3>2, <3>5 DEF Filled, Listed
    <3> QED BY <2>1, <2>2, <3>6
  <2>3. CASE why' = why
    BY <1>6, <1>8, <2>3 DEF CommandDone, AtCommand, AtStage, InStatement
  <2> QED BY <1>8, <2>2, <2>3 DEF CommandDone
<1>9. CASE StatementDone
  <2>1. CASE Err("no command") \/ Err("stdin of a later statement")
    BY <1>5, <2>1
  <2>2. CASE why' = why
    BY <1>6, <1>9, <2>2 DEF StatementDone, InStatement
  <2> QED BY <1>9, <2>1, <2>2 DEF StatementDone
<1>10. CASE TempFails
  BY <1>5, <1>10 DEF TempFails
<1>11. CASE RenderToken \/ ScriptDone
  <2>1. phase = "render" /\ why' = why
    BY <1>11 DEF RenderToken, ScriptDone, AtCommand, AtStage, InStatement
  <2> QED BY <1>6, <2>1
<1>12. CASE Begin
  BY <1>3, <1>12 DEF Begin
<1>13. CASE Check
  <2>1. why' = "none"
    BY <1>13 DEF Check, Excused, Argv, Settled
  <2> QED BY <1>3, <2>1
<1>14. CASE UNCHANGED renderVars
  BY <1>1, <1>14 DEF renderVars, Excused, UnresolvedIsOptional
<1> QED BY <1>7, <1>8, <1>9, <1>10, <1>11, <1>12, <1>13, <1>14 DEF Next

\* A checked endpoint fails to resolve a source only where its declaration leaves the
\* value out, and none of its commands comes out empty (exec.rs:378-380, 302-304).
THEOREM UnresolvedAlwaysOptional == Spec => []UnresolvedIsOptional
<1>1. Init => Excused
  <2>1. ASSUME Init PROVE why = "none"
    BY <2>1 DEF Init
  <2> QED BY <2>1, ArgvStarts DEF Excused, UnresolvedIsOptional
<1>2. Excused /\ [Next]_renderVars => Excused'
  BY ExcusedStays
<1>3. Excused => UnresolvedIsOptional
  BY DEF Excused
<1> QED BY <1>1, <1>2, <1>3, PTL DEF Spec

----------------------------------------------------------------------------
(* The temporary files. *)

Held(w, files) == \A v \in Values(w) : v.kind = "temp" => v \in files

\* A place the renderer has passed.
Past(q) ==
  /\ q[1] \in Nat /\ q[2] \in Nat /\ q[3] \in Nat
  /\ q[1] < s \/ (q[1] = s /\ (q[2] < g \/ (q[2] = g /\ q[3] < t)))

OneEach(files) == \A v, w \in files : v.place = w.place => v = w

Backed ==
  /\ Argv
  /\ phase \in {"render", "ok"} => \E S : Written(S) /\ \A w \in S : Held(w, temps)
  /\ dry => temps = {}
  /\ \A v \in temps : Past(v.place)
  /\ OneEach(temps)

LEMMA OneBinary ==
  ASSUME NEW r
  PROVE  AtMostOne(BinaryAt(r))
<1>1. CASE r.from = "body" /\ ctx.body.kind = "binary"
  BY <1>1 DEF BinaryAt, AtMostOne
<1>2. CASE r.from = "body" /\ ctx.body.kind = "form"
  <2>1. SUFFICES ASSUME NEW v \in BinaryAt(r), NEW w \in BinaryAt(r) PROVE v = w
    BY DEF AtMostOne
  <2>2. Len(r.path) = 1 /\ \A b \in BinaryAt(r) :
          \E k \in DOMAIN r.path : b = ctx.body.fields[r.path[k]]
    BY <1>2, <2>1 DEF BinaryAt, Lookup
  <2> QED BY <2>2
<1>3. CASE ~(r.from = "body" /\ ctx.body.kind \in {"binary", "form"})
  BY <1>3 DEF BinaryAt, AtMostOne
<1> QED BY <1>1, <1>2, <1>3

LEMMA NewTempIs ==
  ASSUME Shape, Settled, AtCommand, t =< Len(ep.exec[s][g].tokens), NEW v \in NewTemps
  PROVE  ~dry /\ \E p \in DOMAIN Token.pieces : \E k \in DOMAIN Token.pieces[p].parts :
           \E r \in Token.pieces[p].parts[k].ref : \E b \in BinaryAt(r) :
             v = [kind |-> "temp", place |-> Place(p, k), of |-> b]
<1>1. PICK p \in DOMAIN Token.pieces : \E k \in DOMAIN Token.pieces[p].parts : v \in PartText(p, k) /\ v.kind = "temp"
  BY DEF NewTemps
<1>2. PICK k \in DOMAIN Token.pieces[p].parts : v \in PartText(p, k) /\ v.kind = "temp"
  BY <1>1
<1>3. v.kind # "literal" /\ v.kind # "text" /\ v # Marker
  BY <1>2 DEF Marker
<1> QED BY <1>2, <1>3, PartHas

\* A token's words name the files it has just written.
LEMMA TokenHeld ==
  ASSUME Shape, AtCommand, t =< Len(ep.exec[s][g].tokens)
  PROVE  TokenWords = <<>> \/ \A p \in DOMAIN Token.pieces : Held(Word(p), NewTemps)
<1>1. SUFFICES ASSUME TokenWords # <<>>, NEW p \in DOMAIN Token.pieces, NEW v \in Values(Word(p)), v.kind = "temp"
               PROVE  v \in NewTemps
  BY DEF Held
<1>2. PICK k \in DOMAIN Token.pieces[p].parts : v \in PartText(p, k)
  BY WordHas
<1>3. Token.group => \A q \in DOMAIN Token.pieces : Absent(q) = {}
  BY <1>1 DEF TokenWords
<1>4. Reached(p, k)
  BY <1>3 DEF Reached
<1>5. v \in UNION {{u \in PartText(p, j) : u.kind = "temp" /\ Reached(p, j)} : j \in DOMAIN Token.pieces[p].parts}
  BY <1>1, <1>2, <1>4
<1> QED BY <1>5 DEF NewTemps

LEMMA NewTempsDiffer ==
  ASSUME Shape, Settled, AtCommand, t =< Len(ep.exec[s][g].tokens)
  PROVE  OneEach(NewTemps) /\ \A v \in NewTemps : v.place[1] = s /\ v.place[2] = g /\ v.place[3] = t
<1>1. ASSUME NEW v \in NewTemps
      PROVE  v.place[1] = s /\ v.place[2] = g /\ v.place[3] = t
  <2>1. PICK p, k, b : v = [kind |-> "temp", place |-> Place(p, k), of |-> b]
    BY NewTempIs
  <2> QED BY <2>1 DEF Place
<1>2. ASSUME NEW v \in NewTemps, NEW w \in NewTemps, v.place = w.place
      PROVE  v = w
  <2>1. PICK p, k :
          /\ p \in DOMAIN Token.pieces /\ k \in DOMAIN Token.pieces[p].parts
          /\ \E r \in Token.pieces[p].parts[k].ref : \E f \in BinaryAt(r) :
               v = [kind |-> "temp", place |-> Place(p, k), of |-> f]
    BY NewTempIs
  <2>2. PICK q, j :
          /\ q \in DOMAIN Token.pieces /\ j \in DOMAIN Token.pieces[q].parts
          /\ \E r \in Token.pieces[q].parts[j].ref : \E f \in BinaryAt(r) :
               w = [kind |-> "temp", place |-> Place(q, j), of |-> f]
    BY NewTempIs
  <2>3. p = q /\ k = j
    BY <1>2, <2>1, <2>2 DEF Place
  <2>4. AtMostOne(Token.pieces[p].parts[k].ref)
    BY <2>1, TokenIs
  <2>5. PICK r \in Token.pieces[p].parts[k].ref : \E b \in BinaryAt(r) :
          v = [kind |-> "temp", place |-> Place(p, k), of |-> b]
    BY <2>1
  <2>6. \E b \in BinaryAt(r) : w = [kind |-> "temp", place |-> Place(p, k), of |-> b]
    BY <2>2, <2>3, <2>4, <2>5 DEF AtMostOne
  <2> QED BY <2>5, <2>6, OneBinary DEF AtMostOne
<1> QED BY <1>1, <1>2 DEF OneEach

LEMMA PastStays ==
  ASSUME Shape, Next \/ UNCHANGED renderVars, ~Begin, NEW q, Past(q)
  PROVE  Past(q)'
<1>1. CASE Check \/ ScriptDone
  BY <1>1 DEF Check, ScriptDone, Past
<1>2. ASSUME NEW reason, Err(reason) PROVE s' = s /\ g' = g /\ t' = t
  BY <1>2 DEF Err
<1>3. CASE Source
  <2>1. s' = s /\ t' = t /\ g' \in {g, g + 1}
    BY <1>2, <1>3 DEF Source
  <2> QED BY <2>1 DEF Past, Shape
<1>4. CASE RenderToken
  <2>1. s' = s /\ g' = g /\ t' = t + 1
    BY <1>4 DEF RenderToken
  <2> QED BY <2>1 DEF Past, Shape
<1>5. CASE TempFails
  <2>1. s' = s /\ g' = g /\ t' = t
    BY <1>2, <1>5 DEF TempFails
  <2> QED BY <2>1 DEF Past
<1>6. CASE CommandDone
  <2>1. s' = s /\ ((g' = g /\ t' = t) \/ g' = g + 1)
    BY <1>2, <1>6 DEF CommandDone
  <2> QED BY <2>1 DEF Past, Shape
<1>7. CASE StatementDone
  <2>1. (s' = s /\ g' = g /\ t' = t) \/ s' = s + 1
    BY <1>2, <1>7 DEF StatementDone
  <2> QED BY <2>1 DEF Past, Shape
<1>8. CASE UNCHANGED renderVars
  BY <1>8 DEF renderVars, Past
<1> QED BY <1>1, <1>3, <1>4, <1>5, <1>6, <1>7, <1>8 DEF Next

LEMMA BackedStays ==
  ASSUME Backed, Next \/ UNCHANGED renderVars
  PROVE  Backed'
<1>1. Argv' /\ dry' = dry /\ Shape /\ Settled
  BY ArgvStays, Moves DEF Backed, Argv
<1>2. CASE temps' = {} /\ phase' \notin {"render", "ok"}
  BY <1>1, <1>2 DEF Backed, OneEach
<1>3. CASE Begin
  <2>1. Written({})' /\ temps' = {}
    BY <1>3 DEF Begin, Written
  <2> QED BY <1>1, <2>1 DEF Backed, OneEach
<1>4. CASE RenderToken
  <2>1. AtCommand /\ t =< Len(ep.exec[s][g].tokens) /\ temps' = temps \cup NewTemps
    BY <1>4 DEF RenderToken
  <2>2. phase = "render" /\ s' = s /\ g' = g /\ t' = t + 1
    BY <1>4 DEF RenderToken, AtCommand, AtStage, InStatement
  <2>3. PICK S : Written(S) /\ \A w \in S : Held(w, temps)
    BY <2>2 DEF Backed
  <2>4. PICK T : T = S \cup {w \in {Word(p) : p \in DOMAIN Token.pieces} : Held(w, NewTemps)}
    OBVIOUS
  <2>5. TokenWords = <<>> \/ \A p \in DOMAIN Token.pieces : Word(p) \in T
    BY <1>1, <2>1, <2>4, TokenHeld
  <2>6. Written(T)'
    BY <1>1, <2>3, <2>4, <2>5, WritesOn
  <2>7. \A w \in T : Held(w, temps')
    BY <2>1, <2>3, <2>4 DEF Held
  <2>8. dry => temps' = {}
    BY <1>1, <2>1, NewTempIs DEF Backed
  <2>9. OneEach(NewTemps) /\ \A v \in NewTemps : v.place[1] = s /\ v.place[2] = g /\ v.place[3] = t
    BY <1>1, <2>1, NewTempsDiffer
  <2>10. \A v \in temps : Past(v.place)
    BY DEF Backed
  <2>11. \A v \in temps' : Past(v.place)'
    BY <1>1, <2>1, <2>2, <2>9, <2>10 DEF Past, Shape
  <2>12. \A v \in temps : \A w \in NewTemps : v.place # w.place
    BY <1>1, <2>9, <2>10 DEF Past, Shape
  <2>13. OneEach(temps')
    BY <2>1, <2>9, <2>12 DEF OneEach, Backed
  <2> QED BY <1>1, <2>6, <2>7, <2>8, <2>11, <2>13 DEF Backed
<1>5. ASSUME NEW reason, Err(reason) PROVE temps' = {} /\ phase' = "err"
  BY <1>5 DEF Err
<1>6. CASE temps' = temps /\ ~Begin /\ ~RenderToken
        /\ (phase' \in {"render", "ok"} => phase \in {"render", "ok"})
  <2>1. \A v \in temps' : Past(v.place)'
    BY <1>1, <1>6, PastStays DEF Backed
  <2>2. ASSUME phase' \in {"render", "ok"} PROVE \E S : Written(S)' /\ \A w \in S : Held(w, temps')
    <3>1. PICK S : Written(S) /\ \A w \in S : Held(w, temps)
      BY <1>6, <2>2 DEF Backed
    <3>2. Written(S)'
      BY <1>1, <1>6, <3>1, WritesOn
    <3> QED BY <1>6, <3>1, <3>2
  <2>3. (dry' => temps' = {}) /\ OneEach(temps')
    BY <1>1, <1>6 DEF Backed
  <2> QED BY <1>1, <2>1, <2>2, <2>3 DEF Backed
<1>7. CASE (Check \/ Source \/ TempFails \/ CommandDone \/ StatementDone \/ ScriptDone \/ UNCHANGED renderVars)
            /\ ~Begin /\ ~RenderToken
  <2>1. CASE Check
    BY <1>6, <1>7, <2>1 DEF Check
  <2>2. CASE Source
    BY <1>2, <1>5, <1>6, <1>7, <2>2 DEF Source, AtStage, InStatement
  <2>3. CASE TempFails
    BY <1>2, <1>5, <2>3 DEF TempFails
  <2>4. CASE CommandDone
    BY <1>2, <1>5, <1>6, <1>7, <2>4 DEF CommandDone, AtCommand, AtStage, InStatement
  <2>5. CASE StatementDone
    BY <1>2, <1>5, <1>6, <1>7, <2>5 DEF StatementDone, InStatement
  <2>6. CASE ScriptDone
    BY <1>6, <1>7, <2>6 DEF ScriptDone
  <2>7. CASE UNCHANGED renderVars
    BY <1>6, <1>7, <2>7 DEF renderVars
  <2> QED BY <1>7, <2>1, <2>2, <2>3, <2>4, <2>5, <2>6, <2>7
<1> QED BY <1>3, <1>4, <1>7 DEF Next

\* Every temporary file a script names is held by the result, one per use, and a
\* preview writes none (exec.rs:243-272).
THEOREM TempFilesAlwaysBacked == Spec => []TempFilesBacked
<1>1. Init => Backed
  <2>1. ASSUME Init PROVE temps = {} /\ phase = "check"
    BY <2>1 DEF Init
  <2> QED BY <2>1, ArgvStarts DEF Backed, OneEach
<1>2. Backed /\ [Next]_renderVars => Backed'
  BY BackedStays
<1>3. Backed => TempFilesBacked
  <2>1. ASSUME Backed, phase \in {"render", "ok"}
        PROVE  \A w \in ShownWords : \A v \in Values(w) : v.kind = "temp" => v \in temps
    <3>1. PICK S : Written(S) /\ \A w \in S : Held(w, temps)
      BY <2>1 DEF Backed
    <3> QED BY <3>1, ShownIn DEF Held
  <2> QED BY <2>1 DEF Backed, OneEach, TempFilesBacked
<1> QED BY <1>1, <1>2, <1>3, PTL DEF Spec
----------------------------------------------------------------------------
(* The script. *)

Below == {pair \in Nat \X Nat : pair[1] < pair[2]}

\* A set of numbers has a least member.
LEMMA Least ==
  ASSUME NEW T, T \subseteq Nat, T # {}
  PROVE  \E m \in T : \A k \in T : m =< k
<1>1. IsWellFoundedOn(Below, Nat)
  BY NatLessThanWellFounded DEF OpToRel, Below
<1>2. PICK m \in T : \A k \in T : ~(<<k, m>> \in Below)
  BY <1>1, WFMin
<1>3. ASSUME NEW k \in T PROVE m =< k
  <2>1. k < m => <<k, m>> \in Below
    BY DEF Below
  <2> QED BY <1>2, <2>1
<1> QED BY <1>3

\* A group with a missing value, and what a token adds to build_argv's list.
Left(token) ==
  token.group /\ \E p \in DOMAIN token.pieces : \E j \in DOMAIN token.pieces[p].parts :
                    Shown(token.pieces[p].parts[j], TRUE) = {}
ShownToken(token) == [p \in DOMAIN token.pieces |-> ShownPiece(token.pieces[p], TRUE)]
Round(tokens, argv, k) ==
  IF k = 0 THEN <<>>
  ELSE IF Left(tokens[k]) THEN argv[k - 1]
  ELSE argv[k - 1] \o ShownToken(tokens[k])

Loop(tokens, n, argv) == argv = [k \in 0..n |-> Round(tokens, argv, k)]

LEMMA LoopEnds ==
  ASSUME NEW tokens
  PROVE  \A n \in Nat : \E argv : Loop(tokens, n, argv)
<1> DEFINE Stuck == {n \in Nat : ~\E argv : Loop(tokens, n, argv)}
<1>1. SUFFICES ASSUME Stuck # {} PROVE FALSE
  OBVIOUS
<1>2. PICK m \in Stuck : \A k \in Stuck : m =< k
  <2> HIDE DEF Loop
  <2>1. Stuck \subseteq Nat
    OBVIOUS
  <2> HIDE DEF Stuck
  <2> QED BY <1>1, <2>1, Least
<1>3. m # 0
  <2>1. Loop(tokens, 0, [k \in 0..0 |-> <<>>])
    BY DEF Loop, Round
  <2> QED BY <2>1
<1>4. m \in Nat /\ m - 1 \in Nat
  BY <1>3
<1>5. PICK argv : Loop(tokens, m - 1, argv)
  BY <1>2, <1>4
<1> DEFINE more == [k \in 0..m |-> IF k = m THEN Round(tokens, argv, m) ELSE argv[k]]
<1>6. ASSUME NEW k \in 0..m PROVE more[k] = Round(tokens, more, k)
  <2>1. CASE k = m
    <3>1. more[k - 1] = argv[k - 1]
      BY <1>3, <1>4, <2>1
    <3> QED BY <2>1, <3>1 DEF Round
  <2>2. CASE k # m
    <3>1. k \in 0..(m - 1) /\ more[k] = argv[k]
      BY <1>4, <2>2
    <3>2. argv[k] = Round(tokens, argv, k)
      BY <1>5, <3>1 DEF Loop
    <3>3. k # 0 => more[k - 1] = argv[k - 1]
      BY <1>4, <3>1
    <3> QED BY <3>1, <3>2, <3>3 DEF Round
  <2> QED BY <2>1, <2>2
<1>7. Loop(tokens, m, more)
  BY <1>6 DEF Loop
<1> QED BY <1>2, <1>7

\* build_argv's list after each of the tokens.
ArgvTo(tokens) == CHOOSE argv : Loop(tokens, Len(tokens), argv)

LEMMA ArgvIs ==
  ASSUME NEW tokens, Len(tokens) \in Nat
  PROVE  /\ ScriptArgv(tokens) = ArgvTo(tokens)[Len(tokens)]
         /\ ArgvTo(tokens)[0] = <<>>
         /\ \A k \in 1..Len(tokens) : ArgvTo(tokens)[k] = Round(tokens, ArgvTo(tokens), k)
<1>1. ScriptArgv(tokens) = ArgvTo(tokens)[Len(tokens)]
  BY DEF ScriptArgv, ArgvOf, ArgvTo, Loop, Round, Left, ShownToken
<1>2. Loop(tokens, Len(tokens), ArgvTo(tokens))
  BY LoopEnds DEF ArgvTo
<1>3. \A k \in 0..Len(tokens) : ArgvTo(tokens)[k] = Round(tokens, ArgvTo(tokens), k)
  <2> DEFINE f == ArgvTo(tokens)
  <2>1. f = [k \in 0..Len(tokens) |-> Round(tokens, f, k)]
    BY <1>2 DEF Loop
  <2> HIDE DEF f
  <2>2. \A k \in 0..Len(tokens) : f[k] = Round(tokens, f, k)
    BY <2>1
  <2> QED BY <2>2 DEF f
<1>4. ArgvTo(tokens)[0] = <<>>
  BY <1>3 DEF Round
<1> QED BY <1>1, <1>3, <1>4

\* Where no reference is to a binary value, build_argv's list is the script's.
LEMMA SameArgv ==
  ASSUME NEW tokens, Len(tokens) \in Nat, DOMAIN tokens = 1..Len(tokens), ~NamesFile(tokens)
  PROVE  ScriptArgv(tokens) = BuildArgv(tokens)
<1> DEFINE n == Len(tokens)
           Gone(k) == tokens[k].group
                        /\ \E p \in DOMAIN tokens[k].pieces : \E j \in DOMAIN tokens[k].pieces[p].parts :
                             Shown(tokens[k].pieces[p].parts[j], FALSE) = {}
           Bare(k) == [p \in DOMAIN tokens[k].pieces |-> ShownPiece(tokens[k].pieces[p], FALSE)]
           BareRound(argv, k) ==
             IF k = 0 THEN <<>> ELSE IF Gone(k) THEN argv[k - 1] ELSE argv[k - 1] \o Bare(k)
           BareLoop(argv) == argv = [k \in 0..n |-> BareRound(argv, k)]
<1>1. BuildArgv(tokens) = (CHOOSE argv : BareLoop(argv))[n]
  BY DEF BuildArgv, ArgvOf
<1>2. ScriptArgv(tokens) = (CHOOSE argv : Loop(tokens, n, argv))[n]
  BY DEF ScriptArgv, ArgvOf, Loop, Round, Left, ShownToken
<1>3. ASSUME NEW k \in 1..n
      PROVE  (Left(tokens[k]) <=> Gone(k)) /\ ShownToken(tokens[k]) = Bare(k)
  <2>1. ASSUME NEW p \in DOMAIN tokens[k].pieces, NEW j \in DOMAIN tokens[k].pieces[p].parts
        PROVE  Shown(tokens[k].pieces[p].parts[j], TRUE) = Shown(tokens[k].pieces[p].parts[j], FALSE)
    <3>1. ASSUME NEW r \in tokens[k].pieces[p].parts[j].ref PROVE BinaryAt(r) = {}
      <4>1. r \in UNION {tokens[k].pieces[p].parts[i].ref : i \in DOMAIN tokens[k].pieces[p].parts}
        OBVIOUS
      <4>2. r \in Refs(tokens[k])
        BY <4>1 DEF Refs
      <4> QED BY <4>2 DEF NamesFile
    <3> QED BY <3>1 DEF Shown
  <2> HIDE DEF Shown
  <2>2. \A p \in DOMAIN tokens[k].pieces :
          ShownPiece(tokens[k].pieces[p], TRUE) = ShownPiece(tokens[k].pieces[p], FALSE)
    BY <2>1 DEF ShownPiece
  <2> QED BY <2>1, <2>2 DEF Left, ShownToken
<1> HIDE DEF Gone, Bare
<1>4. ASSUME NEW argv, NEW k \in 0..n PROVE Round(tokens, argv, k) = BareRound(argv, k)
  <2>1. k # 0 => k \in 1..n
    OBVIOUS
  <2> QED BY <1>3, <2>1 DEF Round
<1> HIDE DEF BareRound
<1>5. \A argv : Loop(tokens, n, argv) <=> BareLoop(argv)
  BY <1>4 DEF Loop
<1>6. (CHOOSE argv : Loop(tokens, n, argv)) = (CHOOSE argv : BareLoop(argv))
  BY <1>5
<1> QED BY <1>1, <1>2, <1>6

----------------------------------------------------------------------------
(* One token. *)

\* A part shows what it would show in build_argv, up to the files' names.
LEMMA PartIsShown ==
  ASSUME Shape, Settled, AtCommand, t =< Len(ep.exec[s][g].tokens),
         NEW p \in DOMAIN Token.pieces, NEW k \in DOMAIN Token.pieces[p].parts
  PROVE  {Masked(v) : v \in PartText(p, k)} = Shown(Token.pieces[p].parts[k], TRUE)
<1> DEFINE part == Token.pieces[p].parts[k]
<1>1. AtMostOne(part.ref) /\ \A r \in part.ref :
        r \in ArgvRefs /\ r.from \in Scopes \cup {"body"} /\ Listed(r.path)
  BY TokenIs
<1>2. ep \in Endpoints /\ NoErrors /\ ctx \in Contexts[ep]
  BY DEF Shape, Settled, AtCommand, AtStage, InStatement
<1>3. CASE part.ref = {}
  <2>1. PartText(p, k) = {[kind |-> "literal", text |-> part.text]}
    BY <1>3 DEF PartText
  <2>2. Shown(part, TRUE) = {[kind |-> "literal", text |-> part.text]}
    BY <1>3 DEF Shown
  <2>3. Masked([kind |-> "literal", text |-> part.text]) = [kind |-> "literal", text |-> part.text]
    BY DEF Masked
  <2> QED BY <2>1, <2>2, <2>3
<1>4. CASE part.ref # {}
  <2>1. PICK r : part.ref = {r}
    BY <1>1, <1>4 DEF AtMostOne
  <2>2. PartText(p, k) = ResolveShellText(r, Place(p, k))
    BY <2>1 DEF PartText
  <2>3. Shown(part, TRUE) = IF BinaryAt(r) # {} THEN {Marker} ELSE ResolveText(r)
    BY <2>1 DEF Shown
  <2>4. CASE BinaryAt(r) = {}
    <3>1. PartText(p, k) = ResolveText(r) /\ Shown(part, TRUE) = ResolveText(r)
      BY <2>2, <2>3, <2>4 DEF ResolveShellText
    <3>2. \A v \in ResolveText(r) : v.kind = "text"
      BY <1>1, <1>2, <2>1, ValueIsSafe
    <3>3. \A v \in ResolveText(r) : Masked(v) = v
      BY <3>2 DEF Masked
    <3> HIDE DEF ResolveText
    <3> QED BY <3>1, <3>3
  <2>5. CASE BinaryAt(r) # {} /\ dry
    <3>1. PartText(p, k) = {Marker} /\ Shown(part, TRUE) = {Marker}
      BY <2>2, <2>3, <2>5 DEF ResolveShellText
    <3>2. Masked(Marker) = Marker
      BY DEF Masked
    <3> QED BY <3>1, <3>2
  <2>6. CASE BinaryAt(r) # {} /\ ~dry
    <3>1. /\ PartText(p, k) = {[kind |-> "temp", place |-> Place(p, k), of |-> b] : b \in BinaryAt(r)}
          /\ Shown(part, TRUE) = {Marker}
      BY <2>2, <2>3, <2>6 DEF ResolveShellText
    <3>2. \A b : Masked([kind |-> "temp", place |-> Place(p, k), of |-> b]) = Marker
      BY DEF Masked
    <3> QED BY <2>6, <3>1, <3>2
  <2> QED BY <2>4, <2>5, <2>6
<1> QED BY <1>3, <1>4

LEMMA WordIsShown ==
  ASSUME Shape, Settled, AtCommand, t =< Len(ep.exec[s][g].tokens), NEW p \in DOMAIN Token.pieces
  PROVE  MaskedWord(Word(p)) = ShownPiece(Token.pieces[p], TRUE)
<1> DEFINE piece == Token.pieces[p]
           quoted == piece.quote \/ \E k \in DOMAIN piece.parts : piece.parts[k].ref # {}
           texts == [k \in DOMAIN piece.parts |-> PartText(p, k)]
           shown == [k \in DOMAIN piece.parts |-> Shown(piece.parts[k], TRUE)]
<1>1. Word(p) = [parts |-> texts, quoted |-> quoted]
  BY DEF Word
<1>2. ShownPiece(piece, TRUE) = [parts |-> shown, quoted |-> quoted]
  BY DEF ShownPiece
<1>3. [k \in DOMAIN texts |-> {Masked(v) : v \in texts[k]}] = shown
  BY PartIsShown
<1> HIDE DEF texts, shown, quoted
<1>4. MaskedWord(Word(p)) = [parts |-> [k \in DOMAIN texts |-> {Masked(v) : v \in texts[k]}], quoted |-> quoted]
  BY <1>1 DEF MaskedWord
<1> QED BY <1>2, <1>3, <1>4

LEMMA TokenIsShown ==
  ASSUME Shape, Settled, AtCommand, t =< Len(ep.exec[s][g].tokens)
  PROVE  MaskedCommand(TokenWords) = IF Left(Token) THEN <<>> ELSE ShownToken(Token)
<1>1. Filled(Token.pieces) /\ (~Token.group => Len(Token.pieces) = 1)
  BY TokenIs
<1>2. ASSUME NEW p \in DOMAIN Token.pieces
      PROVE  Absent(p) # {} <=> \E j \in DOMAIN Token.pieces[p].parts : Shown(Token.pieces[p].parts[j], TRUE) = {}
  <2>1. \A k \in DOMAIN Token.pieces[p].parts :
          PartText(p, k) = {} <=> Shown(Token.pieces[p].parts[k], TRUE) = {}
    <3>1. ASSUME NEW k \in DOMAIN Token.pieces[p].parts
          PROVE  PartText(p, k) = {} <=> Shown(Token.pieces[p].parts[k], TRUE) = {}
      <4>1. {Masked(v) : v \in PartText(p, k)} = Shown(Token.pieces[p].parts[k], TRUE)
        BY PartIsShown
      <4> HIDE DEF PartText, Shown, Masked, Token
      <4> QED BY <4>1
    <3> QED BY <3>1
  <2> QED BY <2>1 DEF Absent
<1>3. Left(Token) <=> Token.group /\ \E p \in DOMAIN Token.pieces : Absent(p) # {}
  BY <1>2 DEF Left
<1>4. CASE Left(Token)
  <2>1. TokenWords = <<>>
    BY <1>3, <1>4 DEF TokenWords
  <2> QED BY <1>4, <2>1 DEF MaskedCommand
<1>5. CASE ~Left(Token)
  <2>1. DOMAIN Token.pieces = 1..Len(Token.pieces) /\ Len(Token.pieces) \in Nat \ {0}
    BY <1>1 DEF Filled, Listed
  <2>2. TokenWords = [p \in DOMAIN Token.pieces |-> Word(p)]
    <3>1. CASE Token.group
      BY <1>3, <1>5, <3>1 DEF TokenWords
    <3>2. CASE ~Token.group
      <4>1. TokenWords = <<Word(1)>> /\ DOMAIN Token.pieces = 1..1
        BY <1>1, <2>1, <3>2 DEF TokenWords
      <4> HIDE DEF Word
      <4> QED BY <4>1
    <3> QED BY <3>1, <3>2
  <2>3. \A p \in DOMAIN Token.pieces : MaskedWord(Word(p)) = ShownPiece(Token.pieces[p], TRUE)
    BY WordIsShown
  <2> HIDE DEF Word, MaskedWord, ShownPiece, Token
  <2> QED BY <1>5, <2>2, <2>3 DEF MaskedCommand, ShownToken
<1> QED BY <1>4, <1>5
----------------------------------------------------------------------------
(* The renderer's place in a script that is right so far. *)

\* The first n of the stages before the g-th are the sources, and their commands are
\* written.
Begun(n) ==
  LET statement == ep.exec[s] IN
  /\ \A k \in 1..(g - 1) : statement[k].source # {} <=> k =< n
  /\ Len(commands) = g - 1 - n
  /\ \A c \in 1..(g - 1 - n) : MaskedCommand(commands[c]) = ScriptArgv(statement[n + c].tokens)
  /\ pending = SourceInput(statement, n) /\ (n # 0 => pending # {})

LineRight(x) ==
  \E n \in 0..Len(ep.exec[x]) :
    /\ Sources(ep.exec[x]) = 1..n
    /\ [c \in DOMAIN lines[x] |-> MaskedCommand(lines[x][c])] = Argvs(ep.exec[x], n)
    /\ x # 1 => n = 0
    /\ x = 1 => stdin = SourceInput(ep.exec[1], n)

LinesRight ==
  /\ Len(lines) = s - 1 /\ s =< Len(ep.exec) + 1
  /\ \A x \in 1..(s - 1) : LineRight(x)

Scripted ==
  /\ Argv
  /\ phase \in {"render", "ok"} => LinesRight
  /\ phase = "ok" => s > Len(ep.exec)
  /\ phase = "render" =>
       /\ s = 1 => stdin = {}
       /\ s =< Len(ep.exec) =>
            g =< Len(ep.exec[s]) + 1 /\ \E n \in 0..(g - 1) : Begun(n)
       /\ AtCommand =>
            /\ t =< Len(ep.exec[s][g].tokens) + 1
            /\ t # 1 => MaskedCommand(words) = ArgvTo(ep.exec[s][g].tokens)[t - 1]
       /\ ~AtCommand => t = 1

\* What the request's values decide changes with the request only.
LEMMA ShownStays ==
  ASSUME ctx' = ctx
  PROVE  /\ \A r : (ResolveBytes(r)' = ResolveBytes(r))
         /\ \A part : Shown(part, TRUE)' = Shown(part, TRUE)
<1>1. \A r : BinaryAt(r)' = BinaryAt(r)
  BY DEF BinaryAt
<1>2. \A r : ResolveText(r)' = ResolveText(r)
  BY DEF ResolveText
<1>3. \A r : ResolveBytes(r)' = ResolveBytes(r)
  BY <1>1, <1>2 DEF ResolveBytes
<1>4. \A part : Shown(part, TRUE)' = Shown(part, TRUE)
  BY <1>1, <1>2 DEF Shown
<1> QED BY <1>3, <1>4

LEMMA ArgvStaysSame ==
  ASSUME ctx' = ctx
  PROVE  \A tokens : ArgvTo(tokens)' = ArgvTo(tokens) /\ ScriptArgv(tokens)' = ScriptArgv(tokens)
<1>1. \A part : Shown(part, TRUE)' = Shown(part, TRUE)
  BY ShownStays
<1>2. \A token : (Left(token)' <=> Left(token)) /\ ShownToken(token)' = ShownToken(token)
  BY <1>1 DEF Left, ShownToken, ShownPiece
<1>3. \A tokens, argv, k : Round(tokens, argv, k)' = Round(tokens, argv, k)
  BY <1>2 DEF Round
<1>4. \A tokens, n, argv : Loop(tokens, n, argv)' <=> Loop(tokens, n, argv)
  BY <1>3 DEF Loop
<1>5. \A tokens : ArgvTo(tokens)' = ArgvTo(tokens)
  BY <1>4 DEF ArgvTo
<1>6. \A tokens : ScriptArgv(tokens)' = ScriptArgv(tokens)
  <2>1. \A tokens : ScriptArgv(tokens) = ArgvTo(tokens)[Len(tokens)]
    BY DEF ScriptArgv, ArgvOf, ArgvTo, Loop, Round, Left, ShownToken
  <2>2. \A tokens : ScriptArgv(tokens)' = ArgvTo(tokens)'[Len(tokens)]
    BY DEF ScriptArgv, ArgvOf, ArgvTo, Loop, Round, Left, ShownToken
  <2> QED BY <1>5, <2>1, <2>2
<1> QED BY <1>5, <1>6

LEMMA ExecIs ==
  ASSUME Shape
  PROVE  /\ Len(ep.exec) \in Nat \ {0} /\ DOMAIN ep.exec = 1..Len(ep.exec)
         /\ \A x \in DOMAIN ep.exec :
              /\ Len(ep.exec[x]) \in Nat \ {0} /\ DOMAIN ep.exec[x] = 1..Len(ep.exec[x])
              /\ \A k \in DOMAIN ep.exec[x] :
                   /\ AtMostOne(ep.exec[x][k].source)
                   /\ ep.exec[x][k].source = {} => Len(ep.exec[x][k].tokens) \in Nat \ {0}
         /\ InStatement => s \in DOMAIN ep.exec
         /\ AtStage => g \in DOMAIN ep.exec[s]
<1>1. ep \in Endpoints /\ s \in Nat \ {0} /\ g \in Nat \ {0}
  BY DEF Shape
<1>2. Len(ep.exec) \in Nat \ {0} /\ DOMAIN ep.exec = 1..Len(ep.exec)
  BY <1>1, ExecAssumption DEF Filled, Listed
<1>3. ASSUME NEW x \in DOMAIN ep.exec
      PROVE  Len(ep.exec[x]) \in Nat \ {0} /\ DOMAIN ep.exec[x] = 1..Len(ep.exec[x])
  <2>1. Filled(ep.exec[x])
    BY <1>1, ExecAssumption
  <2> QED BY <2>1 DEF Filled, Listed
<1>4. ASSUME NEW x \in DOMAIN ep.exec, NEW k \in DOMAIN ep.exec[x]
      PROVE  /\ AtMostOne(ep.exec[x][k].source)
             /\ ep.exec[x][k].source = {} => Len(ep.exec[x][k].tokens) \in Nat \ {0}
  <2>1. /\ AtMostOne(ep.exec[x][k].source)
        /\ ep.exec[x][k].source = {} => Filled(ep.exec[x][k].tokens)
    BY <1>1, ExecAssumption
  <2> QED BY <2>1 DEF Filled, Listed
<1>5. InStatement => s \in DOMAIN ep.exec
  BY <1>1, <1>2 DEF InStatement
<1>6. AtStage => g \in DOMAIN ep.exec[s]
  BY <1>1, <1>3, <1>5 DEF AtStage
<1> QED BY <1>2, <1>3, <1>4, <1>5, <1>6

LEMMA JoinIs ==
  ASSUME NEW W, NEW c \in Seq(W), NEW d \in Seq(W), NEW e \in Seq(W),
         Len(e) = Len(c) + Len(d),
         \A k \in 1..Len(c) : e[k] = c[k], \A k \in 1..Len(d) : e[Len(c) + k] = d[k]
  PROVE  e = c \o d
<1>1. ASSUME NEW k \in 1..Len(e) PROVE e[k] = (c \o d)[k]
  <2>1. CASE k =< Len(c)
    BY <2>1
  <2>2. CASE k > Len(c)
    <3>1. k - Len(c) \in 1..Len(d) /\ k = Len(c) + (k - Len(c))
      BY <2>2
    <3> QED BY <3>1
  <2> QED BY <2>1, <2>2
<1> QED BY <1>1, SeqEqual

LEMMA MaskedJoins ==
  ASSUME NEW S, NEW a \in Seq(S), NEW b \in Seq(S)
  PROVE  MaskedCommand(a \o b) = MaskedCommand(a) \o MaskedCommand(b)
<1> DEFINE W == {MaskedWord(w) : w \in S}
           c == MaskedCommand(a)
           d == MaskedCommand(b)
           e == MaskedCommand(a \o b)
<1>1. ASSUME NEW q \in Seq(S)
      PROVE  /\ MaskedCommand(q) \in Seq(W) /\ Len(MaskedCommand(q)) = Len(q)
             /\ \A k \in 1..Len(q) : MaskedCommand(q)[k] = MaskedWord(q[k])
  BY DEF MaskedCommand
<1>2. /\ a \o b \in Seq(S) /\ Len(a \o b) = Len(a) + Len(b)
      /\ \A k \in 1..(Len(a) + Len(b)) : (a \o b)[k] = IF k =< Len(a) THEN a[k] ELSE b[k - Len(a)]
  BY ConcatProperties
<1>3. /\ c \in Seq(W) /\ d \in Seq(W) /\ e \in Seq(W)
      /\ Len(c) = Len(a) /\ Len(d) = Len(b) /\ Len(e) = Len(a) + Len(b)
  BY <1>1, <1>2
<1>4. /\ \A k \in 1..Len(a) : c[k] = MaskedWord(a[k])
      /\ \A k \in 1..Len(b) : d[k] = MaskedWord(b[k])
      /\ \A k \in 1..(Len(a) + Len(b)) : e[k] = MaskedWord((a \o b)[k])
  BY <1>1, <1>2
<1> HIDE DEF MaskedWord, W, c, d, e
<1>5. \A k \in 1..Len(c) : e[k] = c[k]
  BY <1>2, <1>3, <1>4
<1>6. ASSUME NEW k \in 1..Len(d) PROVE e[Len(c) + k] = d[k]
  <2>1. Len(a) + k \in 1..(Len(a) + Len(b)) /\ ~(Len(a) + k =< Len(a)) /\ (Len(a) + k) - Len(a) = k
    BY <1>3
  <2> QED BY <1>2, <1>3, <1>4, <2>1
<1>7. e = c \o d
  <2>1. Len(e) = Len(c) + Len(d)
    BY <1>3
  <2>2. c \in Seq(W) /\ d \in Seq(W) /\ e \in Seq(W)
    BY <1>3
  <2>3. \A k \in 1..Len(d) : e[Len(c) + k] = d[k]
    BY <1>6
  <2> QED BY <1>5, <2>1, <2>2, <2>3, JoinIs, Zenon
<1> QED BY <1>7 DEF c, d, e

\* The start of a command, or of any other stage.
LEMMA StageStarts ==
  ASSUME Shape, Shape', ep' = ep, t' = 1
  PROVE  AtCommand' => t' =< Len((ep.exec[s][g].tokens)') + 1
<1>1. SUFFICES ASSUME AtCommand' PROVE Len((ep.exec[s][g].tokens)') \in Nat
  OBVIOUS
<1>2. s' =< Len(ep.exec) /\ g' =< Len(ep.exec[s']) /\ ep.exec[s'][g'].source = {}
  BY <1>1 DEF AtCommand, AtStage, InStatement
<1>3. s' \in Nat \ {0} /\ g' \in Nat \ {0}
  BY DEF Shape
<1>4. s' \in DOMAIN ep.exec
  BY <1>2, <1>3, ExecIs
<1>5. g' \in DOMAIN ep.exec[s']
  BY <1>2, <1>3, <1>4, ExecIs
<1> QED BY <1>2, <1>4, <1>5, ExecIs

\* A line stays right as long as the request, the line and the first line's input stay.
LEMMA LineStays ==
  ASSUME ctx' = ctx, ep' = ep, NEW x, lines'[x] = lines[x], x = 1 => stdin' = stdin, LineRight(x)
  PROVE  LineRight(x)'
<1>1. PICK n \in 0..Len(ep.exec[x]) :
        /\ Sources(ep.exec[x]) = 1..n
        /\ [c \in DOMAIN lines[x] |-> MaskedCommand(lines[x][c])] = Argvs(ep.exec[x], n)
        /\ x # 1 => n = 0
        /\ x = 1 => stdin = SourceInput(ep.exec[1], n)
  BY DEF LineRight
<1>2. Argvs(ep.exec[x], n)' = Argvs(ep.exec[x], n)
  BY ArgvStaysSame DEF Argvs
<1>3. SourceInput(ep.exec[1], n)' = SourceInput(ep.exec[1], n)
  BY ShownStays DEF SourceInput
<1>4. x = 1 => stdin' = SourceInput(ep.exec[1], n)'
  BY <1>1, <1>3
<1>5. [c \in DOMAIN lines'[x] |-> MaskedCommand(lines'[x][c])] = Argvs(ep.exec[x], n)'
  BY <1>1, <1>2
<1>6. Sources(ep'.exec[x]) = 1..n
  BY <1>1
<1> QED BY <1>1, <1>4, <1>5, <1>6 DEF LineRight

\* What holds of a script in the making whatever the step: the rest is the step's own.
LEMMA ScriptedSteps ==
  ASSUME Scripted, Next \/ UNCHANGED renderVars
  PROVE  /\ Argv' /\ Shape /\ Shape' /\ Settled /\ ep' = ep
         /\ phase = "render" => s =< Len(ep.exec) + 1 /\ Len(lines) = s - 1
  BY ArgvStays, Moves DEF Scripted, Argv, LinesRight

LEMMA LinesStay ==
  ASSUME Scripted, phase = "render", ctx' = ctx, ep' = ep, UNCHANGED <<s, lines, stdin>>
  PROVE  LinesRight'
<1>1. LinesRight
  BY DEF Scripted
<1>2. ASSUME NEW x \in 1..(s - 1) PROVE LineRight(x)'
  BY <1>1, LineStays DEF LinesRight
<1> QED BY <1>1, <1>2 DEF LinesRight

LEMMA BegunStays ==
  ASSUME ctx' = ctx, ep' = ep, UNCHANGED <<s, g, commands, pending>>, NEW n, Begun(n)
  PROVE  Begun(n)'
<1>1. \A tokens : ScriptArgv(tokens)' = ScriptArgv(tokens)
  BY ArgvStaysSame
<1>2. SourceInput(ep.exec[s], n)' = SourceInput(ep.exec[s], n)
  BY ShownStays DEF SourceInput
<1> HIDE DEF ScriptArgv, ArgvOf, SourceInput, MaskedCommand
<1> QED BY <1>1, <1>2 DEF Begun

LEMMA SourceKeeps ==
  ASSUME Scripted, Source, phase' = "render"
  PROVE  Scripted'
<1>1. PICK r \in ep.exec[s][g].source :
        /\ commands = <<>> /\ ResolveBytes(r) # {} /\ pending' = ResolveBytes(r) /\ g' = g + 1
        /\ UNCHANGED <<phase, ep, ctx, dry, s, t, words, commands, stdin, lines, temps, why>>
  BY DEF Source, Err
<1>2. Argv' /\ Shape /\ Shape' /\ ep' = ep /\ phase = "render" /\ AtStage /\ ~AtCommand /\ t = 1
  BY ScriptedSteps, <1>1 DEF Next, Source, AtStage, InStatement, AtCommand, Scripted
<1>3. s \in DOMAIN ep.exec /\ g \in DOMAIN ep.exec[s] /\ g \in 1..Len(ep.exec[s]) /\ s =< Len(ep.exec)
  BY <1>2, ExecIs DEF AtStage, InStatement
<1>4. LinesRight'
  BY <1>1, <1>2, LinesStay
<1>5. PICK m : m = g
  OBVIOUS
<1>9. Begun(m)'
  <2>1. PICK n \in 0..(g - 1) : Begun(n)
    BY <1>2, <1>3 DEF Scripted
  <2>2. n = g - 1
    BY <1>1, <1>3, <2>1 DEF Begun
  <2>3. \A k \in 1..m : ep.exec[s][k].source # {} <=> k =< m
    <3>1. \A k \in 1..(g - 1) : ep.exec[s][k].source # {}
      BY <1>3, <2>1, <2>2 DEF Begun
    <3>2. ep.exec[s][g].source # {} /\ g \in Nat
      BY <1>1, <1>3
    <3>3. \A k \in 1..m : k \in 1..(g - 1) \/ k = g
      BY <1>5, <3>2
    <3>4. \A k \in 1..m : ep.exec[s][k].source # {} /\ k =< m
      BY <3>1, <3>2, <3>3
    <3> QED BY <3>4
  <2>4. ep.exec[s][m].source = {r}
    <3>1. r \in ep.exec[s][g].source
      BY <1>1
    <3>2. AtMostOne(ep.exec[s][g].source)
      BY <1>2, <1>3, ExecIs
    <3> QED BY <1>5, <3>1, <3>2 DEF AtMostOne
  <2>5. SourceInput(ep.exec[s], m)' = ResolveBytes(r)
    <3>1. ResolveBytes(r)' = ResolveBytes(r)
      BY <1>1, ShownStays
    <3>2. m # 0 /\ ep'.exec[s'][m].source = {r}
      BY <1>1, <1>3, <1>5, <2>4
    <3> HIDE DEF ResolveBytes
    <3> QED BY <3>1, <3>2 DEF SourceInput
  <2>6. g' - 1 = m /\ g' - 1 - m = 0 /\ Len(commands') = 0
    BY <1>1, <1>3, <1>5
  <2> HIDE DEF ResolveBytes, SourceInput
  <2>7. \A k \in 1..(g' - 1) : ep'.exec[s'][k].source # {} <=> k =< m
    BY <1>1, <2>3, <2>6
  <2> QED BY <1>1, <2>5, <2>6, <2>7 DEF Begun
<1>6. AtCommand' => t' =< Len((ep.exec[s][g].tokens)') + 1
  BY <1>1, <1>2, StageStarts
<1>7. g' =< Len(ep'.exec[s']) + 1 /\ m \in 0..(g' - 1)
  BY <1>1, <1>3, <1>5, ExecIs
<1>8. s' = 1 => stdin' = {}
  BY <1>1, <1>2 DEF Scripted
<1>10. t' = 1 /\ phase' = "render"
  BY <1>1, <1>2
<1> HIDE DEF MaskedCommand, LinesRight, Begun
<1> QED BY <1>2, <1>4, <1>6, <1>7, <1>8, <1>9, <1>10 DEF Scripted

LEMMA TokenKeeps ==
  ASSUME Scripted, RenderToken
  PROVE  Scripted'
<1>1. /\ AtCommand /\ t =< Len(ep.exec[s][g].tokens) /\ words' = words \o TokenWords /\ t' = t + 1
      /\ UNCHANGED <<phase, ep, ctx, dry, s, g, commands, pending, stdin, lines, why>>
  BY DEF RenderToken
<1>2. Argv' /\ Shape /\ Settled /\ phase = "render" /\ AtStage /\ InStatement
  BY <1>1, ScriptedSteps DEF Next, AtStage, InStatement, AtCommand
<1>3. /\ s \in DOMAIN ep.exec /\ g \in DOMAIN ep.exec[s] /\ ep.exec[s][g].source = {}
      /\ s =< Len(ep.exec) /\ g =< Len(ep.exec[s])
  BY <1>1, <1>2, ExecIs DEF AtCommand, AtStage, InStatement
<1> DEFINE tokens == ep.exec[s][g].tokens
<1>4. Len(tokens) \in Nat \ {0} /\ t \in 1..Len(tokens) /\ t \in Nat \ {0}
  BY <1>1, <1>2, <1>3, ExecIs DEF Shape
<1>5. MaskedCommand(words) = ArgvTo(tokens)[t - 1]
  <2>1. CASE t = 1
    <3>1. words = <<>>
      BY <2>1 DEF Scripted, Argv, Headed
    <3>2. MaskedCommand(words) = <<>>
      BY <3>1 DEF MaskedCommand
    <3>3. ArgvTo(tokens)[0] = <<>>
      BY <1>4, ArgvIs
    <3> QED BY <2>1, <3>2, <3>3
  <2>2. CASE t # 1
    BY <1>1, <1>2, <2>2 DEF Scripted
  <2> QED BY <2>1, <2>2
<1>6. MaskedCommand(TokenWords) = IF Left(tokens[t]) THEN <<>> ELSE ShownToken(tokens[t])
  BY <1>1, <1>2, TokenIsShown DEF Token
<1>7. PICK S : words \in Seq(S) /\ TokenWords \in Seq(S)
  <2>1. PICK R : Written(R)
    BY DEF Scripted, Argv
  <2>2. PICK T : T = R \cup {Word(p) : p \in DOMAIN Token.pieces}
    OBVIOUS
  <2>3. TokenWords \in Seq(T)
    BY <1>1, <1>2, <2>2, TokenWordsIn
  <2>4. words \in Seq(T)
    BY <2>1, <2>2, WrittenWider DEF Written
  <2> QED BY <2>3, <2>4
<1>8. MaskedCommand(words') = MaskedCommand(words) \o MaskedCommand(TokenWords)
  BY <1>1, <1>7, MaskedJoins
<1>9. ArgvTo(tokens)[t] = MaskedCommand(words')
  <2>1. ArgvTo(tokens)[t] = Round(tokens, ArgvTo(tokens), t)
    BY <1>4, ArgvIs
  <2>2. CASE ~Left(tokens[t])
    BY <1>4, <1>5, <1>6, <1>8, <2>1, <2>2 DEF Round
  <2>3. CASE Left(tokens[t])
    <3>1. ArgvTo(tokens)[t] = MaskedCommand(words)
      BY <1>4, <1>5, <2>1, <2>3 DEF Round
    <3>2. MaskedCommand(words) \in Seq({MaskedWord(w) : w \in S})
      BY <1>7 DEF MaskedCommand
    <3>3. MaskedCommand(TokenWords) = <<>>
      BY <1>6, <2>3
    <3>4. MaskedCommand(words) \o <<>> = MaskedCommand(words)
      BY <3>2
    <3> QED BY <1>8, <3>1, <3>3, <3>4
  <2> QED BY <2>2, <2>3
<1>10. ArgvTo(tokens)' = ArgvTo(tokens)
  BY <1>1, ArgvStaysSame
<1>11. LinesRight'
  BY <1>1, <1>2, LinesStay
<1>12. g' =< Len(ep'.exec[s']) + 1 /\ \E n \in 0..(g' - 1) : Begun(n)'
  <2>1. g =< Len(ep.exec[s]) + 1 /\ \E n \in 0..(g - 1) : Begun(n)
    BY <1>2, <1>3 DEF Scripted
  <2> QED BY <1>1, <2>1, BegunStays
<1>13. AtCommand' /\ (s' = 1 => stdin' = {}) /\ phase' = "render"
  BY <1>1, <1>2 DEF AtCommand, AtStage, InStatement, Scripted
<1>14. t' =< Len(tokens') + 1 /\ MaskedCommand(words') = ArgvTo(tokens)'[t' - 1] /\ tokens' = tokens
  <2>1. t' - 1 = t /\ tokens' = tokens
    BY <1>1, <1>4
  <2> QED BY <1>1, <1>4, <1>9, <1>10, <2>1
<1> HIDE DEF MaskedCommand, LinesRight, Begun
<1> QED BY <1>2, <1>11, <1>12, <1>13, <1>14 DEF Scripted

LEMMA CommandKeeps ==
  ASSUME Scripted, CommandDone, phase' = "render"
  PROVE  Scripted'
<1>1. /\ AtCommand /\ t > Len(ep.exec[s][g].tokens) /\ words # <<>>
      /\ commands' = Append(commands, words) /\ g' = g + 1 /\ t' = 1 /\ words' = <<>>
      /\ UNCHANGED <<phase, ep, ctx, dry, s, pending, stdin, lines, temps, why>>
  BY DEF CommandDone, Err
<1>2. Argv' /\ Shape /\ Shape' /\ phase = "render" /\ AtStage /\ InStatement
  BY <1>1, ScriptedSteps DEF Next, AtStage, InStatement, AtCommand
<1>3. /\ s \in DOMAIN ep.exec /\ g \in DOMAIN ep.exec[s] /\ ep.exec[s][g].source = {}
      /\ s =< Len(ep.exec) /\ g \in 1..Len(ep.exec[s]) /\ Len(ep.exec[s]) \in Nat
  BY <1>1, <1>2, ExecIs DEF AtCommand, AtStage, InStatement
<1> DEFINE tokens == ep.exec[s][g].tokens
<1>4. MaskedCommand(words) = ScriptArgv(tokens)
  <2>1. Len(tokens) \in Nat \ {0} /\ t \in Nat \ {0} /\ t =< Len(tokens) + 1
    BY <1>1, <1>2, <1>3, ExecIs DEF Shape, Scripted
  <2>2. t - 1 = Len(tokens) /\ t # 1
    BY <1>1, <2>1
  <2>3. MaskedCommand(words) = ArgvTo(tokens)[t - 1]
    BY <1>1, <1>2, <2>2 DEF Scripted
  <2> QED BY <2>1, <2>2, <2>3, ArgvIs
<1>5. PICK n \in 0..(g - 1) : Begun(n)
  BY <1>2, <1>3 DEF Scripted
<1>6. PICK S : commands \in Seq(Seq(S)) /\ words \in Seq(S)
  BY DEF Scripted, Argv, Written
<1>7. PICK m : m = g
  OBVIOUS
<1>8. /\ m \in Nat \ {0} /\ n \in Nat /\ n =< m - 1 /\ g' - 1 = m
      /\ Len(commands) = (m - n) - 1 /\ m - n \in Nat \ {0}
  <2>1. Len(commands) = g - 1 - n
    BY <1>5 DEF Begun
  <2>2. g \in Nat \ {0} /\ n \in Nat /\ n =< g - 1 /\ g' = g + 1
    BY <1>1, <1>3, <1>5
  <2> QED BY <1>7, <2>1, <2>2
<1>9. /\ Len(commands') = m - n /\ commands'[m - n] = words
      /\ \A c \in 1..(m - n - 1) : commands'[c] = commands[c]
  <2>1. Len(commands') = Len(commands) + 1 /\ commands'[Len(commands) + 1] = words
        /\ \A c \in 1..Len(commands) : commands'[c] = commands[c]
    BY <1>1, <1>6, AppendProperties
  <2>2. Len(commands) + 1 = m - n
    BY <1>8
  <2> QED BY <1>8, <2>1, <2>2
<1>10. \A c \in 1..(m - n) : MaskedCommand(commands'[c]) = ScriptArgv(ep.exec[s][n + c].tokens)
  <2>1. ASSUME NEW c \in 1..(m - n) PROVE MaskedCommand(commands'[c]) = ScriptArgv(ep.exec[s][n + c].tokens)
    <3>1. CASE c = m - n
      <4>1. n + c = g
        BY <1>7, <1>8, <3>1
      <4> QED BY <1>4, <1>9, <3>1, <4>1
    <3>2. CASE c # m - n
      <4>1. c \in 1..(m - n - 1) /\ c \in 1..(g - 1 - n)
        BY <1>7, <1>8, <3>2
      <4>2. MaskedCommand(commands[c]) = ScriptArgv(ep.exec[s][n + c].tokens)
        BY <1>5, <1>7, <4>1 DEF Begun
      <4> QED BY <1>9, <4>1, <4>2
    <3> QED BY <3>1, <3>2
  <2> QED BY <2>1
<1>11. \A k \in 1..m : ep.exec[s][k].source # {} <=> k =< n
  <2>1. ASSUME NEW k \in 1..m PROVE ep.exec[s][k].source # {} <=> k =< n
    <3>1. CASE k = g
      BY <1>3, <1>5, <3>1
    <3>2. CASE k # g
      <4>1. k \in 1..(g - 1)
        BY <1>3, <1>7, <3>2
      <4> QED BY <1>5, <4>1 DEF Begun
    <3> QED BY <3>1, <3>2
  <2> QED BY <2>1
<1>12. SourceInput(ep.exec[s], n)' = SourceInput(ep.exec[s], n) /\ \A q : ScriptArgv(q)' = ScriptArgv(q)
  BY <1>1, ShownStays, ArgvStaysSame DEF SourceInput
<1>13. Begun(n)'
  <2>1. pending' = SourceInput(ep.exec[s], n)' /\ (n # 0 => pending' # {})
    BY <1>1, <1>5, <1>12 DEF Begun
  <2>2. g' - 1 = m /\ g' - 1 - n = m - n
    BY <1>8
  <2> HIDE DEF MaskedCommand, ScriptArgv, SourceInput
  <2>3. \A c \in 1..(g' - 1 - n) : MaskedCommand(commands'[c]) = ScriptArgv(ep.exec[s][n + c].tokens)'
    <3>1. \A c : ScriptArgv(ep.exec[s][n + c].tokens)' = ScriptArgv(ep.exec[s][n + c].tokens)
      BY <1>1, <1>12
    <3> QED BY <1>10, <2>2, <3>1
  <2>4. \A k \in 1..(g' - 1) : ep'.exec[s'][k].source # {} <=> k =< n
    BY <1>1, <1>11, <2>2
  <2> QED BY <1>9, <2>1, <2>2, <2>3, <2>4, <1>1 DEF Begun
<1>14. g' =< Len(ep'.exec[s']) + 1 /\ n \in 0..(g' - 1)
  BY <1>1, <1>3, <1>5
<1>15. LinesRight' /\ (s' = 1 => stdin' = {}) /\ phase' = "render" /\ t' = 1
  BY <1>1, <1>2, LinesStay DEF Scripted
<1>16. AtCommand' => t' =< Len((ep.exec[s][g].tokens)') + 1
  BY <1>1, <1>2, StageStarts
<1> HIDE DEF MaskedCommand, LinesRight, Begun
<1> QED BY <1>2, <1>13, <1>14, <1>15, <1>16 DEF Scripted

LEMMA StatementKeeps ==
  ASSUME Scripted, StatementDone, phase' = "render"
  PROVE  Scripted'
<1>1. /\ InStatement /\ g > Len(ep.exec[s]) /\ (pending # {} => s = 1)
      /\ stdin' = (IF pending # {} THEN pending ELSE stdin) /\ lines' = Append(lines, commands)
      /\ s' = s + 1 /\ g' = 1 /\ commands' = <<>> /\ pending' = {}
      /\ UNCHANGED <<phase, ep, ctx, dry, t, words, temps, why>>
  BY DEF StatementDone, Err
<1>2. Argv' /\ Shape /\ Shape' /\ phase = "render" /\ LinesRight /\ s \in Nat \ {0}
  BY <1>1, ScriptedSteps DEF Next, InStatement, Scripted, Shape
<1>3. /\ s \in DOMAIN ep.exec /\ s =< Len(ep.exec) /\ g \in Nat \ {0}
      /\ Len(ep.exec[s]) \in Nat /\ DOMAIN ep.exec[s] = 1..Len(ep.exec[s]) /\ Len(ep.exec) \in Nat
  BY <1>1, <1>2, ExecIs DEF InStatement, Shape
<1>4. g = Len(ep.exec[s]) + 1 /\ ~AtCommand
  BY <1>1, <1>2, <1>3 DEF Scripted, AtCommand, AtStage
<1>5. t = 1
  BY <1>2, <1>4 DEF Scripted
<1>6. PICK n \in 0..Len(ep.exec[s]) : Begun(n)
  BY <1>2, <1>3, <1>4 DEF Scripted
<1>7. PICK S : commands \in Seq(S) /\ lines \in Seq(Seq(S))
  BY DEF Scripted, Argv, Written
<1>8. PICK x : x = s
  OBVIOUS
<1>9. /\ Len(lines) = x - 1 /\ Len(lines') = x /\ lines'[x] = commands
      /\ \A y \in 1..(x - 1) : lines'[y] = lines[y]
  BY <1>1, <1>2, <1>7, <1>8, AppendProperties DEF LinesRight
<1>10. Sources(ep.exec[x]) = 1..n
  <2>1. \A k \in 1..Len(ep.exec[s]) : ep.exec[s][k].source # {} <=> k =< n
    BY <1>3, <1>4, <1>6 DEF Begun
  <2>2. Sources(ep.exec[s]) = {k \in 1..Len(ep.exec[s]) : k =< n}
    BY <1>3, <2>1 DEF Sources
  <2> QED BY <1>3, <1>8, <2>2
<1>11. x # 1 => n = 0
  BY <1>1, <1>6, <1>8 DEF Begun
<1>12. x = 1 => stdin' = SourceInput(ep.exec[1], n)
  <2>1. pending = SourceInput(ep.exec[s], n) /\ (n # 0 => pending # {})
    BY <1>6 DEF Begun
  <2>2. n = 0 => SourceInput(ep.exec[s], n) = {}
    BY DEF SourceInput
  <2>3. s = 1 => stdin = {}
    BY <1>2 DEF Scripted
  <2> HIDE DEF SourceInput
  <2> QED BY <1>1, <1>8, <2>1, <2>2, <2>3
<1>13. [c \in DOMAIN commands |-> MaskedCommand(commands[c])] = Argvs(ep.exec[x], n)
  <2>1. Len(commands) = Len(ep.exec[s]) - n /\ DOMAIN commands = 1..Len(commands)
    BY <1>3, <1>4, <1>6, <1>7 DEF Begun
  <2>2. \A c \in 1..(Len(ep.exec[s]) - n) : MaskedCommand(commands[c]) = ScriptArgv(ep.exec[s][n + c].tokens)
    BY <1>3, <1>4, <1>6 DEF Begun
  <2> HIDE DEF MaskedCommand, ScriptArgv
  <2> QED BY <1>8, <2>1, <2>2 DEF Argvs
<1>14. LineRight(x)'
  <2>1. Argvs(ep.exec[x], n)' = Argvs(ep.exec[x], n)
    <3>1. \A q : ScriptArgv(q)' = ScriptArgv(q)
      BY <1>1, ArgvStaysSame
    <3> HIDE DEF ScriptArgv
    <3> QED BY <1>1, <3>1 DEF Argvs
  <2>2. SourceInput(ep.exec[1], n)' = SourceInput(ep.exec[1], n)
    BY <1>1, ShownStays DEF SourceInput
  <2>3. [c \in DOMAIN lines'[x] |-> MaskedCommand(lines'[x][c])] = Argvs(ep.exec[x], n)'
    BY <1>9, <1>13, <2>1
  <2>4. Sources(ep.exec[x])' = 1..n /\ n \in 0..Len(ep'.exec[x])
    BY <1>1, <1>6, <1>8, <1>10 DEF Sources
  <2> HIDE DEF MaskedCommand, Argvs, SourceInput, Sources
  <2> QED BY <1>11, <1>12, <2>2, <2>3, <2>4 DEF LineRight
<1>15. ASSUME NEW y \in 1..(x - 1) PROVE LineRight(y)'
  <2>1. LineRight(y)
    BY <1>2, <1>8, <1>15 DEF LinesRight
  <2>2. y = 1 => stdin' = stdin
    BY <1>1, <1>2, <1>8
  <2> QED BY <1>1, <1>9, <2>1, <2>2, LineStays
<1>16. LinesRight'
  <2>1. Len(lines') = s' - 1 /\ s' =< Len(ep'.exec) + 1 /\ s' - 1 = x
    BY <1>1, <1>2, <1>3, <1>8, <1>9
  <2>2. \A y \in 1..x : LineRight(y)'
    BY <1>2, <1>8, <1>14, <1>15
  <2> HIDE DEF LineRight
  <2> QED BY <2>1, <2>2 DEF LinesRight
<1>17. ASSUME s' =< Len(ep'.exec) PROVE g' =< Len(ep'.exec[s']) + 1 /\ Begun(0)' /\ 0 \in 0..(g' - 1)
  <2>1. Len(ep.exec[s']) \in Nat
    BY <1>1, <1>2, <1>3, <1>17, ExecIs
  <2>2. SourceInput(ep.exec[s], 0)' = {}
    BY DEF SourceInput
  <2> HIDE DEF SourceInput
  <2>3. Begun(0)'
    BY <1>1, <2>2 DEF Begun
  <2> QED BY <1>1, <2>1, <2>3
<1>18. AtCommand' => t' =< Len((ep.exec[s][g].tokens)') + 1
  BY <1>1, <1>2, <1>5, StageStarts
<1>19. s' # 1 /\ t' = 1 /\ phase' = "render"
  BY <1>1, <1>2, <1>5
<1> HIDE DEF MaskedCommand, LinesRight, Begun
<1> QED BY <1>2, <1>16, <1>17, <1>18, <1>19 DEF Scripted

LEMMA ScriptStarts ==
  ASSUME Scripted, Begin
  PROVE  Scripted'
<1>1. /\ phase' = "render" /\ s' = 1 /\ g' = 1 /\ t' = 1 /\ words' = <<>> /\ commands' = <<>>
      /\ pending' = {} /\ stdin' = {} /\ lines' = <<>> /\ ep' = ep
  BY DEF Begin
<1>2. Argv' /\ Shape /\ Shape'
  BY ScriptedSteps DEF Next
<1>3. LinesRight'
  BY <1>1, <1>2, ExecIs DEF LinesRight
<1>4. g' =< Len(ep'.exec[s']) + 1 /\ 0 \in 0..(g' - 1)
  BY <1>1, <1>2, ExecIs
<1>5. SourceInput(ep.exec[s], 0)' = {}
  BY DEF SourceInput
<1> HIDE DEF SourceInput
<1>6. Begun(0)'
  BY <1>1, <1>5 DEF Begun
<1>7. AtCommand' => t' =< Len((ep.exec[s][g].tokens)') + 1
  BY <1>1, <1>2, StageStarts
<1> HIDE DEF MaskedCommand, LinesRight, Begun
<1> QED BY <1>1, <1>2, <1>3, <1>4, <1>6, <1>7 DEF Scripted

LEMMA ScriptedStays ==
  ASSUME Scripted, Next \/ UNCHANGED renderVars
  PROVE  Scripted'
<1>1. Argv'
  BY ScriptedSteps
<1>2. CASE phase' \notin {"render", "ok"}
  BY <1>1, <1>2 DEF Scripted
<1>3. CASE Begin
  BY <1>3, ScriptStarts
<1>4. CASE Source \/ RenderToken \/ CommandDone \/ StatementDone
  <2>1. phase = "render" /\ phase' \in {"render", "err"}
    BY <1>4 DEF Source, RenderToken, CommandDone, StatementDone, AtCommand, AtStage, InStatement, Err
  <2> QED BY <1>2, <1>4, <2>1, SourceKeeps, TokenKeeps, CommandKeeps, StatementKeeps
<1>5. CASE TempFails
  <2>1. phase' = "err"
    BY <1>5 DEF TempFails, Err
  <2> QED BY <1>2, <2>1
<1>6. CASE Check
  <2>1. phase' \in {"idle", "rejected"}
    BY <1>6 DEF Check
  <2> QED BY <1>2, <2>1
<1>7. CASE ScriptDone
  <2>1. /\ phase = "render" /\ s > Len(ep.exec) /\ phase' = "ok"
        /\ UNCHANGED <<ep, ctx, dry, s, g, t, words, commands, pending, stdin, lines, temps, why>>
    BY <1>7 DEF ScriptDone
  <2>2. LinesRight'
    BY <2>1, LinesStay
  <2> QED BY <1>1, <2>1, <2>2 DEF Scripted
<1>8. CASE UNCHANGED renderVars
  <2>1. UNCHANGED <<phase, ep, ctx, dry, s, g, t, words, commands, pending, stdin, lines>>
    BY <1>8 DEF renderVars
  <2>2. \A x : LineRight(x) => LineRight(x)'
    BY <2>1, LineStays
  <2>3. LinesRight => LinesRight'
    BY <2>1, <2>2 DEF LinesRight
  <2>4. \A n : Begun(n) => Begun(n)'
    BY <2>1, BegunStays
  <2>5. ArgvTo(ep.exec[s][g].tokens)' = ArgvTo(ep.exec[s][g].tokens) /\ (AtCommand' <=> AtCommand)
    BY <2>1, ArgvStaysSame DEF AtCommand, AtStage, InStatement
  <2>6. MaskedCommand(words') = MaskedCommand(words)
    BY <2>1
  <2> HIDE DEF MaskedCommand, LinesRight, Begun, AtCommand
  <2> QED BY <1>1, <2>1, <2>3, <2>4, <2>5, <2>6 DEF Scripted
<1> QED BY <1>3, <1>4, <1>5, <1>6, <1>7, <1>8 DEF Next

\* For every endpoint the checker accepts and every request, a script that is rendered has
\* each word of each command behind the sources of its first statement, and a command
\* that names no file is build_argv's argument list (exec.rs:161-188, 243-299, 392-401).
THEOREM ScriptAlwaysArgv == Spec => []ScriptIsArgv
<1>1. Init => Scripted
  <2>1. ASSUME Init PROVE phase = "check"
    BY <2>1 DEF Init
  <2> QED BY <2>1, ArgvStarts DEF Scripted
<1>2. Scripted /\ [Next]_renderVars => Scripted'
  BY ScriptedStays
<1>3. Scripted => ScriptIsArgv
  <2>1. SUFFICES ASSUME Scripted, phase = "ok" PROVE ScriptIsArgv
    BY DEF ScriptIsArgv
  <2>2. Shape /\ LinesRight /\ s > Len(ep.exec)
    BY <2>1 DEF Scripted, Argv
  <2>3. s = Len(ep.exec) + 1 /\ Len(lines) = Len(ep.exec)
    BY <2>2, ExecIs DEF LinesRight, Shape
  <2>4. DOMAIN lines = 1..(s - 1)
    <3>1. PICK S : lines \in Seq(S)
      BY <2>1 DEF Scripted, Argv, Written
    <3> QED BY <2>2, <3>1 DEF LinesRight
  <2>5. \A x \in DOMAIN lines : LineRight(x)
    BY <2>2, <2>4 DEF LinesRight
  <2>6. ASSUME NEW x \in DOMAIN lines, NEW n \in 0..Len(ep.exec[x]),
               Sources(ep.exec[x]) = 1..n,
               [c \in DOMAIN lines[x] |-> MaskedCommand(lines[x][c])] = Argvs(ep.exec[x], n),
               NEW c \in DOMAIN lines[x], ~NamesFile(ep.exec[x][n + c].tokens)
        PROVE  MaskedCommand(lines[x][c]) = BuildArgv(ep.exec[x][n + c].tokens)
    <3> DEFINE tokens == ep.exec[x][n + c].tokens
    <3>1. c \in 1..(Len(ep.exec[x]) - n) /\ MaskedCommand(lines[x][c]) = ScriptArgv(tokens)
      <4> HIDE DEF MaskedCommand, ScriptArgv
      <4>1. DOMAIN lines[x] = 1..(Len(ep.exec[x]) - n)
        BY <2>6 DEF Argvs
      <4>2. \A d \in DOMAIN lines[x] : MaskedCommand(lines[x][d]) = ScriptArgv(ep.exec[x][n + d].tokens)
        BY <2>6, <4>1 DEF Argvs
      <4> QED BY <4>1, <4>2
    <3>2. x \in DOMAIN ep.exec
      BY <2>2, <2>3, <2>4, ExecIs
    <3>3. n + c \in DOMAIN ep.exec[x] /\ n + c \notin Sources(ep.exec[x])
      BY <2>2, <2>6, <3>1, <3>2, ExecIs
    <3>4. Len(tokens) \in Nat /\ DOMAIN tokens = 1..Len(tokens)
      <4>1. ep.exec[x][n + c].source = {}
        BY <3>3 DEF Sources
      <4>2. Filled(tokens)
        BY <2>2, <3>2, <3>3, <4>1, ExecAssumption DEF Shape
      <4> HIDE DEF tokens
      <4> QED BY <4>2 DEF Filled, Listed
    <3> HIDE DEF MaskedCommand, ScriptArgv, BuildArgv, tokens
    <3>5. ScriptArgv(tokens) = BuildArgv(tokens)
      BY <2>6, <3>4, SameArgv DEF tokens
    <3> QED BY <3>1, <3>5 DEF tokens
  <2> HIDE DEF MaskedCommand, BuildArgv, Argvs, Sources, SourceInput, NamesFile
  <2>7. ASSUME NEW x \in DOMAIN lines
        PROVE  \E n \in 0..Len(ep.exec[x]) :
                 /\ Sources(ep.exec[x]) = 1..n
                 /\ [c \in DOMAIN lines[x] |-> MaskedCommand(lines[x][c])] = Argvs(ep.exec[x], n)
                 /\ \A c \in DOMAIN lines[x] :
                      LET tokens == ep.exec[x][n + c].tokens IN
                      ~NamesFile(tokens) => MaskedCommand(lines[x][c]) = BuildArgv(tokens)
                 /\ x # 1 => n = 0
                 /\ x = 1 => stdin = SourceInput(ep.exec[1], n)
    <3>1. PICK n \in 0..Len(ep.exec[x]) :
            /\ Sources(ep.exec[x]) = 1..n
            /\ [c \in DOMAIN lines[x] |-> MaskedCommand(lines[x][c])] = Argvs(ep.exec[x], n)
            /\ x # 1 => n = 0
            /\ x = 1 => stdin = SourceInput(ep.exec[1], n)
      BY <2>5 DEF LineRight
    <3> QED BY <2>6, <3>1
  <2> QED BY <2>3, <2>7 DEF ScriptIsArgv
<1> QED BY <1>1, <1>2, <1>3, PTL DEF Spec
=============================================================================
