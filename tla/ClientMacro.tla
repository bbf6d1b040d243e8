---------------------------- MODULE ClientMacro ----------------------------
(***************************************************************************)
(* The `client!` macro: at compile time it reads the invocation and the    *)
(* spec, walks the mapping lines once, and yields either a client with one *)
(* method per line or a compile error that combines what it found.         *)
(*                                                                         *)
(* An identifier or a wire name is a sequence of characters, a path a      *)
(* sequence of lexemes, a mapping line a sequence of tokens.               *)
(***************************************************************************)
EXTENDS Naturals, Sequences, SequencesExt, Multipart

CONSTANTS
  Inputs,      \* invocations: the spec file and what it holds, the mapping lines
  LowerOf,     \* ASCII letter or digit -> its lower case
  Digits,      \* those that are digits
  Keywords,    \* is_keyword
  NameTokens   \* the tokens that are identifiers

ASSUME InputAssumption ==
  \A x \in Inputs :
    /\ x.file \in {"missing", "unparsed", "unchecked", "good"}
    /\ Len(x.lines) \in Nat /\ x.lines = [k \in 1..Len(x.lines) |-> x.lines[k]]
    /\ \A k \in DOMAIN x.lines : x.lines[k] # <<>>

VARIABLES
  input,      \* the invocation (fixed)
  phase,      \* parse, spec, map, then client or error
  line,       \* the mapping line whose turn it is
  taken,      \* method_names
  mapped,     \* mapped_endpoints
  methods,    \* what was generated
  faults      \* the lines an error was pushed for; 0 is the whole invocation

macroVars == <<input, phase, line, taken, mapped, methods, faults>>

Methods == {"GET", "POST", "PUT", "DELETE", "PATCH"}

----------------------------------------------------------------------------
(* Names and types. *)

Joined(pieces, mark) ==
  FlattenSeq([k \in DOMAIN pieces |-> (IF k = 1 THEN <<>> ELSE <<mark>>) \o pieces[k]])

\* sanitize_ident: runs of other characters become one underscore, none at the ends.
SanitizeIdent(raw) ==
  LET lower == [k \in DOMAIN raw |-> IF raw[k] \in DOMAIN LowerOf THEN LowerOf[raw[k]] ELSE "_"]
      words == SelectSeq(SplitAtAny(lower, {"_"}), LAMBDA w : w # <<>>)
      plain == IF words = <<>> THEN <<"v", "a", "l", "u", "e">> ELSE Joined(words, "_")
      begun == IF Head(plain) \in Digits THEN <<"_">> \o plain ELSE plain
  IN IF begun \in Keywords THEN Append(begun, "_") ELSE begun

BodyName == <<"b", "o", "d", "y">>

\* path_fields, input_field: what the request struct of an endpoint has, in order.
Field(f, source) ==
  [wire |-> f.name, rust |-> SanitizeIdent(f.name), ty |-> f.ty, source |-> source,
   optional |-> source # "path" /\ f.optional]
RequestFields(ep) ==
  [k \in DOMAIN ep.path |-> Field(ep.path[k], "path")]
    \o [k \in DOMAIN ep.query |-> Field(ep.query[k], "query")]
    \o [k \in DOMAIN ep.headers |-> Field(ep.headers[k], "header")]

HasFields(ep) == ep.body.kind = "form" \/ (ep.body.kind = "json" /\ ep.body.typed)
BodyFields(ep) ==
  IF HasFields(ep) THEN [k \in DOMAIN ep.body.fields |-> Field(ep.body.fields[k], "body")] ELSE <<>>
IsMultipart(ep) ==
  ep.body.kind = "form" /\ \E k \in DOMAIN ep.body.fields : ep.body.fields[k].ty = "binary"

RustNames(fields) == {fields[k].rust : k \in DOMAIN fields}
Collide(fields) == Cardinality(RustNames(fields)) < Len(fields)

OutputKind(output) ==
  CASE output \in {"String", "std::string::String"} -> "text"
    [] output \in {"Bytes", "mii_http_client::Bytes"} -> "bytes"
    [] output \in {"Vec<u8>"} -> "bytes"
    [] output \in {"ByteStream", "mii_http_client::ByteStream"} -> "stream"
    [] OTHER -> "json"

----------------------------------------------------------------------------
(* The invocation. *)

\* A path segment is [param, name, type]: the text of a route with its types, or not.
Segment(s, typed) ==
  CASE ~s.param            -> <<"/">> \o s.name
    [] s.param /\ typed    -> <<"/", ":">> \o s.name \o s.type
    [] s.param /\ ~typed   -> <<"/", ":">> \o s.name
PathText(ep, typed) ==
  IF ep.segs = <<>> THEN <<"/">> ELSE FlattenSeq([k \in DOMAIN ep.segs |-> Segment(ep.segs[k], typed)])

\* EndpointMapping::parse: the path ends at the first `as`, inside of the path too.
CutAt(tokens) == {k \in 2..Len(tokens) : tokens[k] = "as" /\ \A j \in 2..(k - 1) : tokens[j] # "as"}
PathTokens(tokens) == SubSeq(tokens, 2, (CHOOSE k \in CutAt(tokens) : TRUE) - 1)
PathOk(t) == (Len(t) = 1 /\ Head(t) \in DOMAIN input.literals) \/ (t # <<>> /\ Head(t) = "/")
Readable(tokens) ==
  \E k \in CutAt(tokens) :
    /\ Len(tokens) = k + 3 /\ tokens[k + 1] \in NameTokens /\ tokens[k + 2] = "=>"
    /\ PathOk(PathTokens(tokens))

\* A line that was read; a lone string literal stands for the text it holds.
Mapping(tokens) ==
  LET t == PathTokens(tokens) IN
  [method |-> Head(tokens), fn |-> tokens[Len(tokens) - 2], output |-> Last(tokens),
   path |-> IF Head(t) \in DOMAIN input.literals THEN input.literals[Head(t)] ELSE t]

Matching(m) ==
  {k \in DOMAIN input.endpoints :
     /\ input.endpoints[k].method = m.method
     /\ m.path \in {PathText(input.endpoints[k], TRUE), PathText(input.endpoints[k], FALSE)}}

\* generate_endpoint's errors.
Ungenerable(ep, output) ==
  \/ ~ep.responds
  \/ ep.stream # (OutputKind(output) = "stream")
  \/ Collide(RequestFields(ep)) \/ Collide(BodyFields(ep))
  \/ ep.body.kind # "none" /\ BodyName \in RustNames(RequestFields(ep))

Generated(m, k) ==
  [fn |-> m.fn, endpoint |-> k, fields |-> RequestFields(input.endpoints[k]),
   body |-> BodyFields(input.endpoints[k]), multipart |-> IsMultipart(input.endpoints[k]),
   decode |-> OutputKind(m.output)]

----------------------------------------------------------------------------
(* Actions. *)

MacroInit ==
  /\ input \in Inputs /\ phase = "parse" /\ line = 1
  /\ taken = {} /\ mapped = {} /\ methods = <<>> /\ faults = {}

Fail ==
  /\ phase' = "error" /\ faults' = faults \cup {0}
  /\ UNCHANGED <<input, line, taken, mapped, methods>>

\* ClientInput::parse reads every line before anything else happens.
ParseInput ==
  /\ phase = "parse"
  /\ IF \A k \in DOMAIN input.lines : Readable(input.lines[k])
     THEN phase' = "spec" /\ UNCHANGED <<input, line, taken, mapped, methods, faults>>
     ELSE Fail

\* The spec is read, parsed and checked; an error in it ends the expansion, no line at
\* all is an error to be told with the others.
ReadSpec ==
  /\ phase = "spec"
  /\ IF input.file = "good"
     THEN /\ phase' = "map"
          /\ faults' = {0 : k \in {1} \ DOMAIN input.lines}
          /\ UNCHANGED <<input, line, taken, mapped, methods>>
     ELSE Fail

Turn == Mapping(input.lines[line])
InTurn == phase = "map" /\ line =< Len(input.lines)
NextLine == line' = line + 1 /\ UNCHANGED <<input, phase>>

\* A name that was there already: nothing else of the line is looked at.
DuplicateName ==
  /\ InTurn /\ Turn.fn \in taken
  /\ faults' = faults \cup {line}
  /\ NextLine /\ UNCHANGED <<taken, mapped, methods>>

\* No such method, or not exactly one endpoint.
NoEndpoint ==
  /\ InTurn /\ Turn.fn \notin taken
  /\ Turn.method \notin Methods \/ Cardinality(Matching(Turn)) # 1
  /\ taken' = taken \cup {Turn.fn} /\ faults' = faults \cup {line}
  /\ NextLine /\ UNCHANGED <<mapped, methods>>

MappedTwice ==
  /\ InTurn /\ Turn.fn \notin taken /\ Turn.method \in Methods
  /\ \E k \in mapped : Matching(Turn) = {k}
  /\ taken' = taken \cup {Turn.fn} /\ faults' = faults \cup {line}
  /\ NextLine /\ UNCHANGED <<mapped, methods>>

\* Mutant: an endpoint may be mapped by several lines.
GenerateAgain ==
  /\ InTurn /\ Turn.fn \notin taken /\ Turn.method \in Methods
  /\ \E k \in DOMAIN input.endpoints :
       /\ Matching(Turn) = {k}
       /\ mapped' = mapped \cup {k}
       /\ methods' = Append(methods, Generated(Turn, k)) /\ faults' = faults
  /\ taken' = taken \cup {Turn.fn}
  /\ NextLine

\* The endpoint counts as mapped whether or not its method can be generated.
Generate ==
  /\ InTurn /\ Turn.fn \notin taken /\ Turn.method \in Methods
  /\ \E k \in DOMAIN input.endpoints \ mapped :
       /\ Matching(Turn) = {k}
       /\ mapped' = mapped \cup {k}
       /\ IF Ungenerable(input.endpoints[k], Turn.output)
          THEN faults' = faults \cup {line} /\ methods' = methods
          ELSE methods' = Append(methods, Generated(Turn, k)) /\ faults' = faults
  /\ taken' = taken \cup {Turn.fn}
  /\ NextLine

Emit ==
  /\ phase = "map" /\ line > Len(input.lines)
  /\ phase' = IF faults = {} THEN "client" ELSE "error"
  /\ UNCHANGED <<input, line, taken, mapped, methods, faults>>

MacroNext ==
  ParseInput \/ ReadSpec \/ DuplicateName \/ NoEndpoint \/ MappedTwice \/ Generate \/ Emit

----------------------------------------------------------------------------
(* Properties. *)

\* An invocation that can be taken as it is, whatever the order of its lines.
Sound ==
  /\ input.file = "good" /\ input.lines # <<>>
  /\ \A k \in DOMAIN input.lines : Readable(input.lines[k])
  /\ \A j, k \in DOMAIN input.lines :
       LET a == Mapping(input.lines[j])
           b == Mapping(input.lines[k])
       IN j # k => a.fn # b.fn /\ Matching(a) \cap Matching(b) = {}
  /\ \A k \in DOMAIN input.lines :
       LET m == Mapping(input.lines[k]) IN
       /\ m.method \in Methods /\ Cardinality(Matching(m)) = 1
       /\ \A e \in Matching(m) : ~Ungenerable(input.endpoints[e], m.output)

\* There is a client exactly for a sound invocation: its methods have the names of the
\* lines, each line binds one endpoint and no endpoint is bound twice, a stream endpoint
\* alone is bound to a byte stream, and no two inputs share a field (README of the
\* client: each mapping line binds exactly one endpoint; lib.rs:144-228).
ClientIffSound ==
  phase \in {"client", "error"} =>
    /\ phase = "client" <=> Sound
    /\ phase = "client" =>
         /\ Len(methods) = Len(input.lines)
         /\ \A k \in DOMAIN methods :
              LET ep == input.endpoints[methods[k].endpoint] IN
              /\ Matching(Mapping(input.lines[k])) = {methods[k].endpoint}
              /\ methods[k].decode = "stream" <=> ep.stream
              /\ Cardinality(RustNames(methods[k].fields)) = Len(methods[k].fields)
              /\ Cardinality(RustNames(methods[k].body)) = Len(methods[k].body)
         /\ \A j, k \in DOMAIN methods :
              j # k => methods[j].endpoint # methods[k].endpoint /\ methods[j].fn # methods[k].fn
=============================================================================
