--------------------------- MODULE Parsers_proofs ---------------------------
(***************************************************************************)
(* The two parsers, on every file and on every line.                       *)
(*                                                                         *)
(* The outer parser: as long as nothing is reported, its mode is what the  *)
(* lines before the cursor say by themselves, and each of those lines has  *)
(* been read by the endpoint it belongs to.                                *)
(*                                                                         *)
(* An Exec line: the pieces the parser reads hold no quote character but   *)
(* where the author quoted, so that the renderer's words can be written;   *)
(* and at every moment sh, if it read on to the end of what is written,    *)
(* would have read the words begun and be where the writer is.             *)
(*                                                                         *)
(* And the parser is always where the line before it says, well formed so  *)
(* far, and has read the stretches before that place, in their order, each *)
(* with the text its author sees; or nothing but an error can follow.      *)
(***************************************************************************)
EXTENDS SpecParser, ExecLine, SequenceTheorems, FiniteSetTheorems, WellFoundedInduction, TLAPS

Endpoint ==
  [first : Nat, last : Nat, fields : SUBSET Nat, body : Nat, bodyFields : SUBSET Nat,
   opener : Nat, statements : Seq(Nat)]

Typed ==
  /\ lines \in Seq(Classes) /\ cursor \in 1..(Len(lines) + 1)
  /\ mode \in {"setup", "endpoints", "endpoint", "brace", "block", "done"}
  /\ current \in Endpoint /\ endpoints \in Seq(Endpoint)
  /\ mode \in {"endpoint", "brace"} => current.statements = <<>>
  /\ mode = "done" => cursor = Len(lines) + 1

LEMMA NewIs ==
  ASSUME NEW l \in Nat
  PROVE  NewEndpoint(l) \in Endpoint /\ NewEndpoint(l).first = l /\ NewEndpoint(l).statements = <<>>
  BY DEF NewEndpoint, Endpoint

LEMMA FinishDoes ==
  ASSUME endpoints \in Seq(Endpoint), NEW ep \in Endpoint, NEW errs, Finish(ep, errs)
  PROVE  /\ endpoints' \in Seq(Endpoint) /\ endpoints' = Append(endpoints, ep) /\ mode' = "endpoints"
         /\ current' \in Endpoint /\ current'.statements = <<>>
         /\ errors \subseteq errors' /\ errs \subseteq errors'
         /\ ep.statements = <<>> => errors' # {}
<1>1. <<ep.last, "missing Exec">> \in {<<x, "missing Exec">> : x \in {y \in {ep.last} : ep.statements = <<>>}}
        \/ ep.statements # <<>>
  OBVIOUS
<1>2. Append(endpoints, ep) \in Seq(Endpoint)
  OBVIOUS
<1>3. NewEndpoint(0) \in Endpoint /\ NewEndpoint(0).statements = <<>>
  BY NewIs
<1>4. /\ endpoints' = Append(endpoints, ep) /\ mode' = "endpoints" /\ current' = NewEndpoint(0)
      /\ errors' = errors \cup errs \cup {<<x, "missing Exec">> : x \in {y \in {ep.last} : ep.statements = <<>>}}
  BY DEF Finish
<1>5. errors \subseteq errors' /\ errs \subseteq errors'
  BY <1>4, Zenon
<1>6. ASSUME ep.statements = <<>> PROVE errors' # {}
  BY <1>1, <1>4, <1>6, Zenon
<1> QED BY <1>2, <1>3, <1>4, <1>5, <1>6

\* A field of the body, or of one that a later BODY replaced.
Covers(ep, l) == l \in ep.bodyFields \/ l < ep.body

\* What b holds of what a holds.
Grows(a, b) ==
  /\ b \in Endpoint /\ b.first = a.first /\ a.fields \subseteq b.fields
  /\ \A l \in 1..(cursor - 1) : Covers(a, l) => Covers(b, l)
  /\ Range(a.statements) \subseteq Range(b.statements)

----------------------------------------------------------------------------
(* What a step without a report does. *)

\* The loops that end without a line.
Still ==
  /\ cursor' = cursor /\ UNCHANGED <<endpoints, current, setup>>
  /\ \/ mode = "setup" /\ mode' = "endpoints"
     \/ mode = "endpoints" /\ mode' = "done" /\ AtEnd

Skips == Line = "blank" /\ mode # "done" /\ UNCHANGED <<mode, endpoints, current, setup>>

Sets ==
  /\ mode = "setup" /\ mode' = "setup" /\ Line = "VERSION"
  /\ setup' = setup \cup {cursor} /\ UNCHANGED <<endpoints, current>>

Begins ==
  /\ mode = "endpoints" /\ mode' = "endpoint" /\ Line = "GET"
  /\ current' = NewEndpoint(cursor) /\ UNCHANGED <<endpoints, setup>>

Gathers ==
  /\ \/ mode = "endpoint" /\ mode' = "endpoint" /\ Line \in {"QUERY", "Response-Type"} /\ cursor \in current'.fields
     \/ mode = "endpoint" /\ mode' = "endpoint" /\ Line = "BODY"
     \/ mode = "endpoint" /\ mode' = "brace" /\ Line \in Openers
     \/ /\ mode = "brace" /\ mode' = "brace" /\ Line \notin {"}", "Exec<<<"}
        /\ cursor \in current'.bodyFields
     \/ mode = "brace" /\ mode' = "endpoint" /\ Line = "}"
     \/ mode = "endpoint" /\ mode' = "block" /\ Line = "Exec<<<"
     \/ mode = "block" /\ mode' = "block" /\ Line # ">>>" /\ cursor \in Range(current'.statements)
  /\ Grows(current, current') /\ UNCHANGED <<endpoints, setup>>

Ends ==
  /\ (mode = "endpoint" /\ Line = "Exec") \/ (mode = "block" /\ Line = ">>>")
  /\ mode' = "endpoints" /\ UNCHANGED setup
  /\ \E ep : /\ Grows(current, ep) /\ ep.last = cursor /\ ep.statements # <<>>
             /\ endpoints' = Append(endpoints, ep)

Takes ==
  /\ ~AtEnd /\ cursor' = cursor + 1
  /\ Skips \/ Sets \/ Begins \/ Gathers \/ Ends

LEMMA Holds ==
  ASSUME Typed
  PROVE  /\ Len(lines) \in Nat /\ cursor \in Nat /\ DOMAIN lines = 1..Len(lines)
         /\ ~AtEnd => cursor \in 1..Len(lines) /\ Line \in Classes
         /\ AtEnd => cursor = Len(lines) + 1
  BY DEF Typed, AtEnd, Line

\* What the steps leave alone is typed still.
LEMMA StaysTyped ==
  ASSUME Typed, lines' = lines, cursor' \in 1..(Len(lines) + 1), current' \in Endpoint,
         endpoints' \in Seq(Endpoint),
         mode' \in {"setup", "endpoints", "endpoint", "brace", "block", "done"},
         mode' \in {"endpoint", "brace"} => current'.statements = <<>>,
         mode' = "done" => cursor' = Len(lines) + 1
  PROVE  Typed'
  BY DEF Typed

\* A line that is reported, and one whose endpoint stays as it was.
LEMMA ReportDoes ==
  ASSUME Typed, ~AtEnd, NEW what, Reported(what)
  PROVE  cursor' = cursor + 1 /\ cursor' \in 1..(Len(lines) + 1) /\ errors' # {} /\ errors \subseteq errors'
<1>1. cursor' = cursor + 1 /\ errors' = errors \cup {<<cursor, what>>}
  BY DEF Reported
<1>2. errors' # {} /\ errors \subseteq errors'
  BY <1>1
<1> QED BY <1>1, <1>2, Holds

LEMMA TakenIs ==
  ASSUME Typed, ~AtEnd, cursor' = cursor + 1
  PROVE  cursor' \in 1..(Len(lines) + 1)
  BY Holds

LEMMA SetupDoes ==
  ASSUME Typed, SkipBlank \/ SetupDirective \/ SetupDone \/ SpecDone \/ Header \/ NoHeader
  PROVE  Typed' /\ lines' = lines /\ errors \subseteq errors' /\ (errors' = {} => Still \/ Takes)
<1> USE Holds, StaysTyped
<1>1. Typed /\ current \in Endpoint /\ endpoints \in Seq(Endpoint)
  BY DEF Typed
<1>2. CASE SkipBlank
  <2>1. /\ ~AtEnd /\ cursor' = cursor + 1 /\ Skips /\ cursor' \in 1..(Len(lines) + 1)
        /\ UNCHANGED <<lines, mode, current, endpoints, errors>>
    BY <1>2 DEF SkipBlank, On, Skips
  <2> QED BY <1>1, <2>1 DEF Takes, Typed, Skips
<1>3. CASE SetupDirective
  <2>1. ~AtEnd /\ mode = "setup" /\ UNCHANGED <<lines, mode, current, endpoints>>
    BY <1>3 DEF SetupDirective
  <2>2. CASE Line = "VERSION" /\ Sets /\ cursor' = cursor + 1 /\ errors' = errors
    BY <1>1, <2>1, <2>2 DEF Takes
  <2>3. CASE Reported("setup")
    BY <1>1, <2>1, <2>3, ReportDoes
  <2> QED BY <1>3, <2>1, <2>2, <2>3 DEF SetupDirective, Sets
<1>4. CASE SetupDone
  <2>1. mode = "setup" /\ mode' = "endpoints" /\ UNCHANGED <<lines, cursor, current, endpoints, setup, errors>>
    BY <1>4 DEF SetupDone
  <2> QED BY <1>1, <2>1 DEF Still, Typed
<1>5. CASE SpecDone
  <2>1. /\ mode = "endpoints" /\ mode' = "done" /\ AtEnd
        /\ UNCHANGED <<lines, cursor, current, endpoints, setup, errors>>
    BY <1>5 DEF SpecDone
  <2> QED BY <1>1, <2>1 DEF Still, Typed
<1>6. CASE Header
  <2>1. /\ ~AtEnd /\ mode = "endpoints" /\ mode' = "endpoint" /\ Line \in {"GET", "GET?"}
        /\ current' = NewEndpoint(cursor) /\ UNCHANGED <<lines, endpoints, setup>>
    BY <1>6 DEF Header, On, Methods
  <2>2. current' \in Endpoint /\ current'.statements = <<>>
    BY <2>1, NewIs
  <2>3. CASE Reported("path")
    BY <1>1, <2>1, <2>2, <2>3, ReportDoes
  <2>4. CASE Line # "GET?" /\ cursor' = cursor + 1 /\ errors' = errors
    BY <1>1, <2>1, <2>2, <2>4 DEF Takes, Begins
  <2> QED BY <1>6, <2>3, <2>4 DEF Header
<1>7. CASE NoHeader
  <2>1. /\ ~AtEnd /\ mode = "endpoints" /\ UNCHANGED <<lines, mode, current, endpoints>>
        /\ cursor' \in 1..(Len(lines) + 1)
    BY <1>7 DEF NoHeader
  <2>2. errors' = errors \cup {<<cursor, "method">>}
    BY <1>7 DEF NoHeader
  <2>3. errors' # {} /\ errors \subseteq errors'
    BY <2>2
  <2> QED BY <1>1, <2>1, <2>3
<1> QED BY <1>2, <1>3, <1>4, <1>5, <1>6, <1>7

\* An endpoint of which only some fields change.
LEMMA ChangedGrows ==
  ASSUME NEW a \in Endpoint, NEW b \in Endpoint, b.first = a.first, a.fields \subseteq b.fields,
         b.statements = a.statements,
         (a.bodyFields \subseteq b.bodyFields /\ b.body = a.body) \/ (b.body = cursor /\ cursor \in Nat)
  PROVE  Grows(a, b)
  BY DEF Grows, Covers

LEMMA DirectivesDo ==
  ASSUME Typed, EndpointDone \/ Field \/ Body \/ BadDirective \/ BraceOpens \/ BraceLine \/ BraceCloses
  PROVE  Typed' /\ lines' = lines /\ errors \subseteq errors' /\ (errors' = {} => Takes)
<1> USE Holds, StaysTyped
<1>1. /\ Typed /\ current \in Endpoint /\ endpoints \in Seq(Endpoint) /\ cursor \in Nat
      /\ mode \in {"endpoint", "brace"} => current.statements = <<>>
  BY DEF Typed
\* The changes they make of the endpoint.
<1>2. \A b : \/ b = [current EXCEPT !.last = cursor]
             \/ b = [[current EXCEPT !.fields = @ \cup {cursor}] EXCEPT !.last = cursor]
             \/ b = [[current EXCEPT !.body = cursor, !.bodyFields = {}] EXCEPT !.last = cursor]
             \/ b = [current EXCEPT !.body = cursor, !.bodyFields = {}, !.last = cursor]
             \/ b = [current EXCEPT !.bodyFields = @ \cup {cursor}]
             \/ b = current
             => b \in Endpoint /\ b.statements = current.statements /\ Grows(current, b)
  <2>1. ASSUME NEW b, b = [current EXCEPT !.last = cursor]
        PROVE  b \in Endpoint /\ b.statements = current.statements /\ Grows(current, b)
    <3>1. /\ b \in Endpoint /\ b.statements = current.statements
          /\ b.first = current.first /\ b.fields = current.fields
          /\ b.bodyFields = current.bodyFields /\ b.body = current.body
      BY <1>1, <2>1 DEF Endpoint
    <3> QED BY <1>1, <3>1, ChangedGrows
  <2>2. ASSUME NEW b, b = [[current EXCEPT !.fields = @ \cup {cursor}] EXCEPT !.last = cursor]
        PROVE  b \in Endpoint /\ b.statements = current.statements /\ Grows(current, b)
    <3>1. /\ b \in Endpoint /\ b.statements = current.statements
          /\ b.first = current.first /\ b.fields = current.fields \cup {cursor}
          /\ b.bodyFields = current.bodyFields /\ b.body = current.body
      BY <1>1, <2>2 DEF Endpoint
    <3> QED BY <1>1, <3>1, ChangedGrows
  <2>3. ASSUME NEW b,
               \/ b = [[current EXCEPT !.body = cursor, !.bodyFields = {}] EXCEPT !.last = cursor]
               \/ b = [current EXCEPT !.body = cursor, !.bodyFields = {}, !.last = cursor]
        PROVE  b \in Endpoint /\ b.statements = current.statements /\ Grows(current, b)
    <3>1. /\ b \in Endpoint /\ b.statements = current.statements
          /\ b.first = current.first /\ b.fields = current.fields /\ b.body = cursor
      BY <1>1, <2>3 DEF Endpoint
    <3> QED BY <1>1, <3>1, ChangedGrows
  <2>4. ASSUME NEW b, b = [current EXCEPT !.bodyFields = @ \cup {cursor}]
        PROVE  b \in Endpoint /\ b.statements = current.statements /\ Grows(current, b)
    <3>1. /\ b \in Endpoint /\ b.statements = current.statements
          /\ b.first = current.first /\ b.fields = current.fields
          /\ b.bodyFields = current.bodyFields \cup {cursor} /\ b.body = current.body
      BY <1>1, <2>4 DEF Endpoint
    <3> QED BY <1>1, <3>1, ChangedGrows
  <2>5. Grows(current, current)
    BY <1>1, ChangedGrows
  <2> QED BY <1>1, <2>1, <2>2, <2>3, <2>4, <2>5
<1>3. CASE EndpointDone
  <2>1. mode = "endpoint" /\ Finish(current, {}) /\ UNCHANGED <<lines, cursor>>
    BY <1>3 DEF EndpointDone
  <2>2. /\ endpoints' \in Seq(Endpoint) /\ mode' = "endpoints" /\ current' \in Endpoint
        /\ errors \subseteq errors' /\ errors' # {}
    BY <1>1, <2>1, FinishDoes
  <2> QED BY <1>1, <2>1, <2>2 DEF Typed
<1>4. CASE Field \/ Body \/ BraceOpens
  <2>1. /\ ~AtEnd /\ mode = "endpoint" /\ cursor' = cursor + 1
        /\ UNCHANGED <<lines, endpoints, setup, errors>>
        /\ \/ Line \in {"QUERY", "Response-Type"} /\ mode' = "endpoint"
           \/ Line = "BODY" /\ mode' = "endpoint"
           \/ Line \in Openers /\ mode' = "brace"
    <3>1. CASE Field
      BY <3>1 DEF Field, Directive, On
    <3>2. CASE Body
      BY <3>2 DEF Body, Directive, On
    <3>3. CASE BraceOpens
      BY <3>3 DEF BraceOpens, On
    <3> QED BY <1>4, <3>1, <3>2, <3>3
  <2>2. current' \in Endpoint /\ current'.statements = current.statements /\ Grows(current, current')
    BY <1>1, <1>2, <1>4 DEF Field, Body, BraceOpens, Directive
  <2>3. ASSUME Line \in {"QUERY", "Response-Type"} PROVE cursor \in current'.fields
    <3>1. current' = [[current EXCEPT !.fields = @ \cup {cursor}] EXCEPT !.last = cursor]
      BY <1>4, <2>3 DEF Field, Body, BraceOpens, Directive, On, Openers
    <3> QED BY <1>1, <3>1 DEF Endpoint
  <2>4. Gathers
    BY <2>1, <2>2, <2>3 DEF Gathers
  <2>5. Takes
    BY <2>1, <2>4 DEF Takes
  <2>6. cursor' \in 1..(Len(lines) + 1)
    BY <2>1, TakenIs
  <2>7. current'.statements = <<>>
    BY <1>1, <2>1, <2>2
  <2>8. Typed'
    BY <1>1, <2>1, <2>2, <2>6, <2>7
  <2> QED BY <2>1, <2>5, <2>8
<1>5. CASE BadDirective
  <2>1. /\ ~AtEnd /\ mode = "endpoint" /\ current' = [current EXCEPT !.last = cursor]
        /\ Reported("directive") /\ UNCHANGED <<lines, mode, endpoints>>
    BY <1>5 DEF BadDirective, On
  <2> QED BY <1>1, <1>2, <2>1, ReportDoes
<1>6. CASE BraceLine
  <2>1. ~AtEnd /\ mode = "brace" /\ UNCHANGED <<lines, mode, endpoints, setup>>
    BY <1>6 DEF BraceLine
  <2>2. CASE Reported("field") /\ current' = current
    BY <1>1, <2>1, <2>2, ReportDoes
  <2>3. CASE /\ Line \notin NoField /\ cursor' = cursor + 1 /\ errors' = errors
             /\ current' = [current EXCEPT !.bodyFields = @ \cup {cursor}]
    <3>1. Line \notin {"}", "Exec<<<"}
      BY <1>6, <2>3 DEF BraceLine, NoField
    <3>2. current' \in Endpoint /\ current'.statements = current.statements /\ Grows(current, current')
      BY <1>2, <2>3
    <3>3. cursor \in current'.bodyFields
      BY <1>1, <2>3 DEF Endpoint
    <3>4. Gathers
      BY <2>1, <3>1, <3>2, <3>3 DEF Gathers
    <3>5. cursor' \in 1..(Len(lines) + 1)
      BY <2>1, <2>3, TakenIs
    <3> QED BY <1>1, <2>1, <2>3, <3>2, <3>4, <3>5 DEF Takes
  <2> QED BY <1>6, <2>2, <2>3 DEF BraceLine
<1>7. CASE BraceCloses
  <2>1. mode = "brace" /\ mode' = "endpoint" /\ UNCHANGED <<lines, current, endpoints, setup>>
    BY <1>7 DEF BraceCloses
  <2>2. CASE AtEnd
    <3>1. cursor' = cursor /\ errors' = errors \cup {<<0, "unterminated brace">>}
      BY <1>7, <2>2 DEF BraceCloses
    <3>2. errors' # {} /\ errors \subseteq errors'
      BY <3>1
    <3> QED BY <1>1, <2>1, <3>1, <3>2 DEF Typed
  <2>3. CASE ~AtEnd
    <3>1. cursor' = cursor + 1 /\ errors' = errors /\ Line = "}"
      BY <1>7, <2>3 DEF BraceCloses, On
    <3>2. Grows(current, current') /\ Gathers
      BY <1>2, <2>1, <3>1 DEF Gathers
    <3>3. Takes
      BY <2>3, <3>1, <3>2 DEF Takes
    <3>4. cursor' \in 1..(Len(lines) + 1)
      BY <2>3, <3>1, TakenIs
    <3>5. current'.statements = <<>>
      BY <1>1, <2>1
    <3> QED BY <1>1, <2>1, <3>1, <3>3, <3>4, <3>5
  <2> QED BY <2>2, <2>3
<1> QED BY <1>3, <1>4, <1>5, <1>6, <1>7

LEMMA ExecDoes ==
  ASSUME Typed, Exec \/ BlockOpens \/ BlockLine \/ BlockCloses
  PROVE  Typed' /\ lines' = lines /\ errors \subseteq errors' /\ (errors' = {} => Takes)
<1>1. CASE Exec
  <2> DEFINE full == [current EXCEPT !.last = cursor, !.statements = <<cursor>>]
             bare == [current EXCEPT !.last = cursor]
  <2>0. /\ cursor \in 1..Len(lines) /\ cursor' = cursor + 1 /\ current \in Endpoint /\ cursor \in Nat
        /\ <<cursor>> \in Seq(Nat)
    BY <1>1, Holds DEF Exec, On, Typed
  <2>1. full \in Endpoint /\ bare \in Endpoint /\ cursor \in 1..Len(lines) /\ cursor' = cursor + 1
    BY <2>0 DEF Endpoint
  <2>2. mode' = "endpoints" /\ Typed' /\ lines' = lines /\ errors \subseteq errors'
    BY <1>1, <2>1, Holds, FinishDoes DEF Exec, On, Typed
  <2>3. CASE Line # "Exec"
    <3>1. errors' # {}
      BY <1>1, <2>1, <2>3, FinishDoes DEF Exec, Typed
    <3> QED BY <2>2, <3>1
  <2>4. CASE Line = "Exec"
    <3>1. endpoints' = Append(endpoints, full)
      BY <1>1, <2>1, <2>4, FinishDoes DEF Exec, Typed
    <3>2. Grows(current, full) /\ full.last = cursor /\ full.statements # <<>>
      <4>1. /\ full.first = current.first /\ full.fields = current.fields /\ full.last = cursor
            /\ full.statements = <<cursor>> /\ full.body = current.body /\ full.bodyFields = current.bodyFields
        BY <2>0 DEF Endpoint
      <4>2. current.statements = <<>>
        BY <1>1 DEF Exec, Typed
      <4>3. Range(current.statements) = {} /\ full.statements # <<>>
        BY <4>1, <4>2 DEF Range
      <4> HIDE DEF full
      <4> QED BY <2>1, <4>1, <4>3 DEF Grows, Covers
    <3>3. Ends
      BY <1>1, <2>2, <2>4, <3>1, <3>2 DEF Exec, Ends
    <3> QED BY <1>1, <2>1, <2>2, <3>3 DEF Exec, On, Takes
  <2> QED BY <2>3, <2>4
<1>2. CASE BlockOpens
  <2>1. /\ ~AtEnd /\ mode = "endpoint" /\ mode' = "block" /\ cursor' = cursor + 1
        /\ Line \in {"Exec<<<", "Exec<<<x"} /\ UNCHANGED <<lines, endpoints, setup>>
        /\ current' = [current EXCEPT !.opener = cursor, !.last = cursor]
    BY <1>2 DEF BlockOpens, On
  <2>2. current \in Endpoint /\ cursor \in Nat /\ endpoints \in Seq(Endpoint)
    BY Holds DEF Typed
  <2>3. /\ current' \in Endpoint /\ current'.statements = current.statements
        /\ current'.first = current.first /\ current'.fields = current.fields
        /\ current'.body = current.body /\ current'.bodyFields = current.bodyFields
    BY <2>1, <2>2 DEF Endpoint
  <2>4. Grows(current, current')
    BY <2>2, <2>3, ChangedGrows
  <2>5. Typed'
    BY <2>1, <2>2, <2>3, Holds, StaysTyped
  <2>6. CASE Line = "Exec<<<"
    <3>1. errors' = errors /\ Gathers
      BY <1>2, <2>1, <2>4, <2>6 DEF BlockOpens, Gathers
    <3> QED BY <2>1, <2>5, <3>1 DEF Takes
  <2>7. CASE Line = "Exec<<<x"
    <3>1. errors' = errors \cup {<<cursor, "text after opener">>}
      BY <1>2, <2>7 DEF BlockOpens
    <3>2. errors' # {} /\ errors \subseteq errors'
      BY <3>1
    <3> QED BY <2>1, <2>5, <3>2
  <2> QED BY <2>1, <2>6, <2>7
<1>3. CASE BlockLine
  <2>1. cursor \in 1..Len(lines) /\ mode = "block" /\ mode' = "block" /\ lines' = lines /\ cursor' = cursor + 1
        /\ errors \subseteq errors'
    BY <1>3, Holds DEF BlockLine, Reported
  <2>2. CASE Reported("exec") /\ current' = current
    <3>1. ~AtEnd /\ Reported("exec") /\ UNCHANGED <<current, endpoints>>
      BY <1>3, <2>2 DEF BlockLine
    <3>2. current \in Endpoint /\ endpoints \in Seq(Endpoint)
      BY DEF Typed
    <3> QED BY <2>1, <3>1, <3>2, ReportDoes, StaysTyped
  <2>3. CASE /\ current' = [current EXCEPT !.statements = Append(@, cursor), !.last = cursor]
             /\ cursor' = cursor + 1 /\ UNCHANGED errors
    <3> DEFINE list == Append(current.statements, cursor)
    <3>1. current.statements \in Seq(Nat) /\ cursor \in Nat
      BY <2>1 DEF Typed, Endpoint
    <3>2. list \in Seq(Nat) /\ Range(current.statements) \subseteq Range(list) /\ cursor \in Range(list)
      <4>1. /\ list \in Seq(Nat) /\ DOMAIN list = 1..(Len(current.statements) + 1)
            /\ list[Len(current.statements) + 1] = cursor
            /\ \A x \in DOMAIN current.statements : x \in DOMAIN list /\ list[x] = current.statements[x]
        BY <3>1
      <4> QED BY <3>1, <4>1 DEF Range
    <3> HIDE DEF list
    <3>3. current' = [current EXCEPT !.statements = list, !.last = cursor]
      BY <1>3, <2>3 DEF BlockLine, list
    <3>4. current' \in Endpoint /\ Grows(current, current') /\ current'.statements = list
      BY <2>1, <3>1, <3>2, <3>3 DEF Typed, Endpoint, Grows, Covers
    <3>5. ~AtEnd /\ Line # ">>>" /\ UNCHANGED <<endpoints, setup>>
      BY <1>3 DEF BlockLine
    <3>6. Gathers
      BY <2>1, <3>2, <3>4, <3>5 DEF Gathers
    <3>7. Typed'
      BY <2>1, <3>4, <3>5, TakenIs, StaysTyped DEF Typed
    <3> QED BY <2>1, <2>3, <3>5, <3>6, <3>7 DEF Takes
  <2> QED BY <1>3, <2>2, <2>3 DEF BlockLine
<1>4. CASE BlockCloses
  <2> DEFINE errs == {<<current.opener, "unterminated Exec">> : x \in {y \in {1} : AtEnd}}
             ep == [current EXCEPT !.last = IF AtEnd THEN Len(lines) ELSE cursor]
  <2>1. ep \in Endpoint /\ Finish(ep, errs) /\ lines' = lines
    BY <1>4, Holds DEF BlockCloses, Typed, Endpoint
  <2>2. Typed' /\ errors \subseteq errors'
    <3> HIDE DEF ep, errs
    <3>1. /\ endpoints' \in Seq(Endpoint) /\ mode' = "endpoints" /\ current' \in Endpoint
          /\ errors \subseteq errors'
      BY <2>1, FinishDoes DEF Typed
    <3>2. cursor' = IF AtEnd THEN cursor ELSE cursor + 1
      BY <1>4 DEF BlockCloses
    <3>3. cursor' \in 1..(Len(lines) + 1)
      BY <3>2, Holds
    <3> QED BY <2>1, <3>1, <3>3, StaysTyped
  <2>3. CASE AtEnd
    <3>1. <<current.opener, "unterminated Exec">> \in errs
      BY <2>3
    <3>2. errors' # {}
      <4> HIDE DEF errs
      <4> QED BY <2>1, <3>1, FinishDoes DEF Typed
    <3> QED BY <2>1, <2>2, <3>2
  <2>4. CASE ~AtEnd
    <3>1. ep.last = cursor /\ Grows(current, ep)
      BY <2>1, <2>4 DEF Grows, Covers, Endpoint, Typed
    <3>2. /\ endpoints' = Append(endpoints, ep) /\ mode' = "endpoints"
          /\ errors' = {} => ep.statements # <<>>
      <4> HIDE DEF errs, ep
      <4> QED BY <2>1, FinishDoes DEF Typed
    <3>3. mode = "block" /\ Line = ">>>" /\ cursor' = cursor + 1 /\ setup' = setup
      BY <1>4, <2>4 DEF BlockCloses, On
    <3> HIDE DEF ep
    <3> QED BY <2>1, <2>2, <2>4, <3>1, <3>2, <3>3 DEF Takes, Ends
  <2> QED BY <2>3, <2>4
<1> QED BY <1>1, <1>2, <1>3, <1>4

----------------------------------------------------------------------------
(* What the lines say by themselves. *)

LEMMA Unbroken ==
  ASSUME NEW n \in Nat \ {0}, NEW o \in 1..n, NEW no
  PROVE  (\A k \in o..((n + 1) - 1) : lines[k] # no) <=> (\A k \in o..(n - 1) : lines[k] # no) /\ lines[n] # no
<1>1. o..((n + 1) - 1) = (o..(n - 1)) \cup {n}
  OBVIOUS
<1> QED BY <1>1, Zenon

LEMMA NestingStep ==
  ASSUME NEW n \in Nat \ {0}
  PROVE  /\ InExec(n + 1) <=> lines[n] = "Exec<<<" \/ (InExec(n) /\ lines[n] # ">>>")
         /\ InBrace(n + 1) <=> (lines[n] \in Openers /\ ~InExec(n)) \/ (InBrace(n) /\ lines[n] # "}")
<1>1. 1..((n + 1) - 1) = (1..(n - 1)) \cup {n} /\ n..(n - 1) = {} /\ n \in 1..n /\ 1..(n - 1) \subseteq 1..n
  OBVIOUS
<1>2. InExec(n + 1) <=>
        \E o \in (1..(n - 1)) \cup {n} :
          lines[o] = "Exec<<<" /\ (\A k \in o..(n - 1) : lines[k] # ">>>") /\ lines[n] # ">>>"
  BY <1>1, Unbroken DEF InExec
<1>3. InBrace(n + 1) <=>
        \E o \in (1..(n - 1)) \cup {n} :
          lines[o] \in Openers /\ ~InExec(o) /\ (\A k \in o..(n - 1) : lines[k] # "}") /\ lines[n] # "}"
  <2> HIDE DEF InExec
  <2>1. InBrace(n + 1) <=>
          \E o \in (1..(n - 1)) \cup {n} :
            lines[o] \in Openers /\ ~InExec(o) /\ \A k \in o..((n + 1) - 1) : lines[k] # "}"
    BY <1>1, Zenon DEF InBrace
  <2>2. \A o \in (1..(n - 1)) \cup {n} :
          (\A k \in o..((n + 1) - 1) : lines[k] # "}") <=> (\A k \in o..(n - 1) : lines[k] # "}") /\ lines[n] # "}"
    <3>1. ASSUME NEW o \in (1..(n - 1)) \cup {n}
          PROVE  (\A k \in o..((n + 1) - 1) : lines[k] # "}") <=>
                   (\A k \in o..(n - 1) : lines[k] # "}") /\ lines[n] # "}"
      <4>1. o \in 1..n
        BY <1>1
      <4> QED BY <4>1, Unbroken
    <3> QED BY <3>1
  <2> QED BY <2>1, <2>2
<1>4. InExec(n + 1) <=> lines[n] = "Exec<<<" \/ (InExec(n) /\ lines[n] # ">>>")
  BY <1>1, <1>2 DEF InExec
<1>5. InBrace(n + 1) <=> (lines[n] \in Openers /\ ~InExec(n)) \/ (InBrace(n) /\ lines[n] # "}")
  <2> HIDE DEF InExec
  <2> DEFINE from(o) == lines[o] \in Openers /\ ~InExec(o) /\ \A k \in o..(n - 1) : lines[k] # "}"
  <2>1. InBrace(n + 1) <=> \E o \in (1..(n - 1)) \cup {n} : from(o) /\ lines[n] # "}"
    BY <1>3
  <2>2. InBrace(n) <=> \E o \in 1..(n - 1) : from(o)
    BY DEF InBrace
  <2>3. from(n) <=> lines[n] \in Openers /\ ~InExec(n)
    BY <1>1
  <2>4. lines[n] \in Openers => lines[n] # "}"
    BY DEF Openers
  <2> HIDE DEF from
  <2> QED BY <2>1, <2>2, <2>3, <2>4
<1> QED BY <1>4, <1>5

\* The parser is in a block exactly where the lines are.
Nested == (mode = "block" <=> InExec(cursor)) /\ (mode = "brace" <=> InBrace(cursor))

LEMMA NestingStays ==
  ASSUME lines' = lines
  PROVE  \A l : (InExec(l)' <=> InExec(l)) /\ (InBrace(l)' <=> InBrace(l))
  BY DEF InExec, InBrace

LEMMA NestedStays ==
  ASSUME Typed, Nested, lines' = lines, Still \/ Takes
  PROVE  Nested'
<1>1. \A l : (InExec(l)' <=> InExec(l)) /\ (InBrace(l)' <=> InBrace(l))
  BY NestingStays
<1>2. CASE Still
  <2>1. cursor' = cursor /\ mode \notin {"block", "brace"} /\ mode' \notin {"block", "brace"}
    BY <1>2 DEF Still
  <2>2. ~InExec(cursor)' /\ ~InBrace(cursor)'
    BY <1>1, <2>1 DEF Nested
  <2> QED BY <2>1, <2>2 DEF Nested, InExec, InBrace
<1>3. CASE Takes
  <2>1. cursor' = cursor + 1 /\ cursor \in Nat \ {0} /\ lines[cursor] = Line
    BY <1>3, Holds DEF Takes, Line
  <2>2. /\ InExec(cursor + 1) <=> Line = "Exec<<<" \/ (mode = "block" /\ Line # ">>>")
        /\ InBrace(cursor + 1) <=> (Line \in Openers /\ mode # "block") \/ (mode = "brace" /\ Line # "}")
    BY <2>1, NestingStep DEF Nested
  <2>3. /\ mode' = "block" <=> InExec(cursor + 1)
        /\ mode' = "brace" <=> InBrace(cursor + 1)
    BY <1>3, <2>2 DEF Takes, Skips, Sets, Begins, Gathers, Ends, Typed, Openers
  <2>4. (InExec(cursor + 1) <=> InExec(cursor)') /\ (InBrace(cursor + 1) <=> InBrace(cursor)')
    BY <2>1, NestingStays DEF InExec, InBrace
  <2> QED BY <2>3, <2>4 DEF Nested
<1> QED BY <1>2, <1>3

----------------------------------------------------------------------------
(* The endpoints the lines belong to. *)

ReadSoFar == {endpoints[k] : k \in DOMAIN endpoints}
Open == {ep \in {current} : mode \in {"endpoint", "brace", "block"}}

LEMMA OpenIs ==
        /\ mode \in {"endpoint", "brace", "block"} => Open = {current}
        /\ mode \notin {"endpoint", "brace", "block"} => Open = {}
  BY DEF Open

LEMMA AppendReads ==
  ASSUME endpoints \in Seq(Endpoint), NEW ep \in Endpoint, endpoints' = Append(endpoints, ep)
  PROVE  ReadSoFar' = ReadSoFar \cup {ep}
<1>1. /\ DOMAIN endpoints' = 1..(Len(endpoints) + 1) /\ DOMAIN endpoints = 1..Len(endpoints)
      /\ endpoints'[Len(endpoints) + 1] = ep /\ Len(endpoints) \in Nat
      /\ \A k \in 1..Len(endpoints) : endpoints'[k] = endpoints[k]
  OBVIOUS
<1>2. 1..(Len(endpoints) + 1) = (1..Len(endpoints)) \cup {Len(endpoints) + 1}
  BY <1>1
<1>3. ASSUME NEW x \in ReadSoFar' PROVE x \in ReadSoFar \cup {ep}
  <2>1. PICK k \in DOMAIN endpoints' : x = endpoints'[k]
    BY DEF ReadSoFar
  <2> QED BY <1>1, <1>2, <2>1 DEF ReadSoFar
<1>4. ASSUME NEW x \in ReadSoFar \cup {ep} PROVE x \in ReadSoFar'
  <2>1. CASE x = ep
    BY <1>1, <1>2, <2>1 DEF ReadSoFar
  <2>2. CASE x \in ReadSoFar
    <3>1. PICK k \in DOMAIN endpoints : x = endpoints[k]
      BY <2>2 DEF ReadSoFar
    <3> QED BY <1>1, <1>2, <3>1 DEF ReadSoFar
  <2> QED BY <2>1, <2>2
<1> QED BY <1>3, <1>4

\* An open endpoint grows, stays open or is read whole; one is opened by its method.
LEMMA OwnersMove ==
  ASSUME Typed, Still \/ Takes
  PROVE  /\ ReadSoFar \subseteq ReadSoFar'
         /\ \A a \in Open : (\E b \in Open' : Grows(a, b)) \/ (\E b \in ReadSoFar' : Grows(a, b) /\ b.last = cursor)
         /\ \A b \in ReadSoFar' \ ReadSoFar :
              Open' = {} /\ b.last = cursor /\ b.statements # <<>> /\ \E a \in Open : Grows(a, b)
         /\ \A b \in Open' : (\E a \in Open : Grows(a, b)) \/ (Begins /\ ~AtEnd /\ cursor' = cursor + 1 /\ b.first = cursor)
<1>1. Grows(current, current) /\ endpoints \in Seq(Endpoint) /\ cursor \in Nat
  BY Holds, ChangedGrows DEF Typed
<1>2. CASE UNCHANGED <<endpoints, current>> /\ (mode' = mode \/ Still)
  <2>1. ReadSoFar' = ReadSoFar /\ Open' = Open
    BY <1>2 DEF ReadSoFar, Open, Still
  <2>2. \A a \in Open : a = current
    BY DEF Open
  <2> QED BY <1>1, <2>1, <2>2
<1>3. CASE Begins /\ Takes
  <2>1. ReadSoFar' = ReadSoFar /\ Open = {} /\ \A b \in Open' : b = NewEndpoint(cursor)
    BY <1>3 DEF Begins, ReadSoFar, Open
  <2> QED BY <1>1, <1>3, <2>1, NewIs DEF Takes
<1>4. CASE Gathers
  <2>1. ReadSoFar' = ReadSoFar /\ Open = {current} /\ Open' = {current'} /\ Grows(current, current')
    BY <1>4 DEF Gathers, ReadSoFar, Open
  <2> QED BY <2>1
<1>5. CASE Ends
  <2>1. PICK ep : /\ Grows(current, ep) /\ ep.last = cursor /\ ep.statements # <<>>
                  /\ endpoints' = Append(endpoints, ep)
    BY <1>5 DEF Ends
  <2>2. Open = {current} /\ Open' = {}
    BY <1>5 DEF Ends, Open
  <2>3. ReadSoFar' = ReadSoFar \cup {ep}
    BY <1>1, <2>1, AppendReads DEF Grows
  <2> QED BY <2>1, <2>2, <2>3
<1> QED BY <1>2, <1>3, <1>4, <1>5 DEF Takes, Skips, Sets, Still

Owned ==
  /\ \A ep \in ReadSoFar \cup Open : ep.first \in 1..(cursor - 1) /\ lines[ep.first] = "GET"
       /\ ~InExec(ep.first) /\ ~InBrace(ep.first)
  /\ \A ep \in ReadSoFar : ep.statements # <<>> /\ ep.last \in Nat /\ ep.last < cursor
  /\ \A ep \in ReadSoFar, a \in Open : ep.last < a.first
  /\ \A j, k \in DOMAIN endpoints : j < k => endpoints[j].last < endpoints[k].first

LEMMA CursorMoves ==
  ASSUME Typed, Still \/ Takes
  PROVE  cursor \in Nat \ {0} /\ cursor' \in {cursor, cursor + 1}
  BY Holds DEF Typed, Still, Takes

LEMMA OwnedStays ==
  ASSUME Typed, Nested, Owned, lines' = lines, Still \/ Takes
  PROVE  Owned'
<1>1. \A l : (InExec(l)' <=> InExec(l)) /\ (InBrace(l)' <=> InBrace(l))
  BY NestingStays
<1>2. cursor \in Nat \ {0} /\ cursor' \in {cursor, cursor + 1}
  BY CursorMoves
<1>3. \A ep \in ReadSoFar \cup Open : ep.first \in 1..(cursor' - 1) /\ lines'[ep.first] = "GET"
        /\ ~InExec(ep.first)' /\ ~InBrace(ep.first)'
  BY <1>1, <1>2 DEF Owned
<1>4. ASSUME NEW b \in ReadSoFar' \cup Open'
      PROVE  b.first \in 1..(cursor' - 1) /\ lines'[b.first] = "GET"
             /\ ~InExec(b.first)' /\ ~InBrace(b.first)'
  <2>1. CASE b \in ReadSoFar
    BY <1>3, <2>1
  <2>2. CASE \E a \in Open : Grows(a, b)
    BY <1>3, <2>2 DEF Grows
  <2>3. CASE Begins /\ ~AtEnd /\ cursor' = cursor + 1 /\ b.first = cursor
    <3>1. lines[cursor] = "GET" /\ ~InExec(cursor) /\ ~InBrace(cursor)
      BY <2>3 DEF Begins, Line, Nested
    <3>2. cursor \in 1..(cursor' - 1)
      BY <1>2, <2>3
    <3> QED BY <1>1, <2>3, <3>1, <3>2
  <2> QED BY <2>1, <2>2, <2>3, OwnersMove
<1>5. ASSUME NEW b \in ReadSoFar' PROVE b.statements # <<>> /\ b.last \in Nat /\ b.last < cursor'
  <2>1. CASE b \in ReadSoFar
    BY <1>2, <2>1 DEF Owned
  <2>2. CASE b \notin ReadSoFar
    <3>1. Ends
      BY <2>2, OwnersMove DEF Takes, Skips, Sets, Begins, Gathers, Still, ReadSoFar
    <3>2. cursor' = cursor + 1
      BY <3>1 DEF Ends, Takes, Still
    <3> QED BY <1>2, <2>2, <3>2, OwnersMove
  <2> QED BY <2>1, <2>2
<1>6. ASSUME NEW b \in ReadSoFar', NEW a \in Open' PROVE b.last < a.first
  <2>1. b \in ReadSoFar
    BY OwnersMove
  <2>2. CASE \E c \in Open : Grows(c, a)
    BY <2>1, <2>2 DEF Owned, Grows
  <2>3. CASE a.first = cursor
    BY <2>1, <2>3 DEF Owned
  <2> QED BY <2>2, <2>3, OwnersMove
<1>7. ASSUME NEW j \in DOMAIN endpoints', NEW k \in DOMAIN endpoints', j < k
      PROVE  endpoints'[j].last < endpoints'[k].first
  <2>1. CASE endpoints' = endpoints
    BY <1>7, <2>1 DEF Owned
  <2>2. CASE Ends
    <3>1. PICK ep : Grows(current, ep) /\ endpoints' = Append(endpoints, ep)
      BY <2>2 DEF Ends
    <3>2. /\ endpoints \in Seq(Endpoint) /\ Len(endpoints) \in Nat /\ DOMAIN endpoints = 1..Len(endpoints)
          /\ DOMAIN endpoints' = 1..(Len(endpoints) + 1) /\ endpoints'[Len(endpoints) + 1] = ep
          /\ \A x \in DOMAIN endpoints : endpoints'[x] = endpoints[x]
      BY <3>1 DEF Typed, Grows
    <3>3. j \in DOMAIN endpoints /\ endpoints[j] \in ReadSoFar /\ current \in Open
      BY <1>7, <2>2, <3>2 DEF ReadSoFar, Open, Ends
    <3>4. endpoints[j].last < ep.first
      BY <3>1, <3>3 DEF Owned, Grows
    <3>5. k \in DOMAIN endpoints \/ k = Len(endpoints) + 1
      BY <3>2
    <3> QED BY <1>7, <3>2, <3>3, <3>4, <3>5 DEF Owned
  <2> QED BY <2>1, <2>2 DEF Takes, Skips, Sets, Begins, Gathers, Still
<1> HIDE DEF InExec, InBrace
<1> QED BY <1>4, <1>5, <1>6, <1>7 DEF Owned

----------------------------------------------------------------------------
(* Every line read. *)

\* A directive, or a line of its body's braces, that the endpoint has read.
Has(ep, l) == ep.first < l /\ IF InBrace(l) THEN Covers(ep, l) ELSE l \in ep.fields
Owing(l) ==
  \/ lines[l] \in {"QUERY", "Response-Type"} /\ ~InExec(l)
  \/ lines[l] \notin {"blank", "}"} /\ InBrace(l)

\* What the line's own words ask for has happened.
ReadRight(l) ==
  /\ lines[l] = "GET" /\ ~InExec(l) /\ ~InBrace(l) => \E ep \in ReadSoFar \cup Open : ep.first = l
  /\ lines[l] = "VERSION" /\ ~InExec(l) /\ ~InBrace(l) => l \in setup
  /\ Owing(l) => (\E ep \in ReadSoFar : Has(ep, l) /\ l < ep.last) \/ (\E ep \in Open : Has(ep, l))
  /\ lines[l] \notin {"blank", ">>>"} /\ InExec(l) => \E ep \in ReadSoFar \cup Open : l \in Range(ep.statements)

LEMMA EarlierStayRight ==
  ASSUME Typed, lines' = lines, Still \/ Takes, NEW l \in 1..(cursor - 1), ReadRight(l)
  PROVE  ReadRight(l)'
<1>1. (InExec(l)' <=> InExec(l)) /\ (InBrace(l)' <=> InBrace(l)) /\ lines'[l] = lines[l]
  BY NestingStays DEF InExec, InBrace
<1>2. cursor \in Nat \ {0} /\ l < cursor
  BY CursorMoves
<1> HIDE DEF InExec, InBrace
<1>3. \A ep \in ReadSoFar \cup Open : \E b \in ReadSoFar' \cup Open' : ep = b \/ Grows(ep, b)
  BY OwnersMove
<1>4. ASSUME lines[l] = "GET", ~InExec(l), ~InBrace(l) PROVE \E ep \in ReadSoFar' \cup Open' : ep.first = l
  BY <1>3, <1>4 DEF ReadRight, Grows
<1>5. ASSUME lines[l] = "VERSION", ~InExec(l), ~InBrace(l) PROVE l \in setup'
  BY <1>5 DEF ReadRight, Still, Takes, Skips, Sets, Begins, Gathers, Ends
<1>0. Owing(l)' <=> Owing(l)
  BY <1>1 DEF Owing
<1>6. ASSUME Owing(l)
      PROVE  (\E ep \in ReadSoFar' : Has(ep, l)' /\ l < ep.last) \/ (\E ep \in Open' : Has(ep, l)')
  <2>1. \A ep : Has(ep, l)' <=> Has(ep, l)
    BY <1>1 DEF Has, Covers
  <2>2. \A a, b : Has(a, l) /\ Grows(a, b) => Has(b, l)
    BY <1>2 DEF Has, Grows
  <2>3. CASE \E ep \in ReadSoFar : Has(ep, l) /\ l < ep.last
    BY <2>1, <2>3, OwnersMove
  <2>4. CASE \E ep \in Open : Has(ep, l)
    <3>1. PICK a \in Open : Has(a, l)
      BY <2>4
    <3>2. (\E b \in Open' : Grows(a, b)) \/ (\E b \in ReadSoFar' : Grows(a, b) /\ b.last = cursor)
      BY <3>1, OwnersMove
    <3> QED BY <1>2, <2>1, <2>2, <3>1, <3>2
  <2> QED BY <1>6, <2>3, <2>4 DEF ReadRight
<1>7. ASSUME lines[l] \notin {"blank", ">>>"}, InExec(l)
      PROVE  \E ep \in ReadSoFar' \cup Open' : l \in Range(ep.statements)
  BY <1>3, <1>7 DEF ReadRight, Grows
<1> QED BY <1>0, <1>1, <1>4, <1>5, <1>6, <1>7 DEF ReadRight

LEMMA TakenIsRight ==
  ASSUME Typed, Nested, Owned, lines' = lines, Takes, NEW l, l = cursor
  PROVE  ReadRight(l)'
<1>1. cursor \in Nat /\ Line = lines[l] /\ lines'[l] = lines[l]
  BY Holds DEF Line
<1>2. /\ InExec(l)' <=> mode = "block"
      /\ InBrace(l)' <=> mode = "brace"
  <2>1. (InExec(l)' <=> InExec(l)) /\ (InBrace(l)' <=> InBrace(l))
    BY NestingStays
  <2>2. (InExec(cursor) <=> mode = "block") /\ (InBrace(cursor) <=> mode = "brace")
    BY DEF Nested
  <2>3. (InExec(l) <=> InExec(cursor)) /\ (InBrace(l) <=> InBrace(cursor))
    OBVIOUS
  <2> QED BY <2>1, <2>2, <2>3
<1>3. mode' \in {"endpoint", "brace", "block"} => current' \in Open'
  BY DEF Open
<1>4. ASSUME lines[l] = "GET", mode \notin {"block", "brace"} PROVE \E ep \in ReadSoFar' \cup Open' : ep.first = l
  <2>1. Begins
    BY <1>1, <1>4 DEF Takes, Skips, Sets, Gathers, Ends, Openers
  <2> QED BY <1>1, <1>3, <2>1, NewIs DEF Begins
<1>5. ASSUME lines[l] = "VERSION", mode \notin {"block", "brace"} PROVE l \in setup'
  BY <1>1, <1>5 DEF Takes, Skips, Sets, Begins, Gathers, Ends, Openers
<1>6. ASSUME Owing(l) PROVE \E ep \in Open' : Has(ep, l)'
  <2>0. \/ lines[l] \in {"QUERY", "Response-Type"} /\ mode # "block"
        \/ lines[l] \notin {"blank", "}"} /\ mode = "brace"
    BY <1>6, <1>2, NestingStays DEF Owing
  <2>1. /\ Grows(current, current') /\ mode' \in {"endpoint", "brace"} /\ mode \in {"endpoint", "brace"}
        /\ IF mode = "brace" THEN l \in current'.bodyFields ELSE l \in current'.fields
    BY <1>1, <2>0 DEF Takes, Skips, Sets, Begins, Gathers, Ends, Openers
  <2>2. current \in Open
    BY <2>1 DEF Open
  <2>3. current'.first < l
    BY <1>1, <2>1, <2>2 DEF Owned, Grows
  <2>4. Has(current', l)
    <3>1. mode = "brace" <=> InBrace(l)
      BY DEF Nested
    <3> QED BY <2>1, <2>3, <3>1 DEF Has, Covers
  <2>5. \A ep : Has(ep, l)' <=> Has(ep, l)
    BY NestingStays DEF Has, Covers
  <2> QED BY <1>3, <2>1, <2>4, <2>5
<1>8. Owing(l)' <=> Owing(l)
  BY <1>1, NestingStays DEF Owing
<1>7. ASSUME lines[l] \notin {"blank", ">>>"}, mode = "block"
      PROVE  \E ep \in ReadSoFar' \cup Open' : l \in Range(ep.statements)
  <2>1. mode' = "block" /\ l \in Range(current'.statements)
    BY <1>1, <1>7 DEF Takes, Skips, Sets, Begins, Gathers, Ends
  <2> QED BY <1>3, <2>1
<1> QED BY <1>1, <1>2, <1>4, <1>5, <1>6, <1>7, <1>8 DEF ReadRight

----------------------------------------------------------------------------
(* The invariant. *)

IInv ==
  /\ Typed
  /\ errors = {} => Nested /\ Owned /\ \A l \in 1..(cursor - 1) : ReadRight(l)

LEMMA IInvStarts ==
  ASSUME Init
  PROVE  IInv
<1>1. lines \in Seq(Classes) /\ cursor = 1 /\ mode = "setup" /\ current = NewEndpoint(0) /\ endpoints = <<>>
  BY FilesAssumption DEF Init
<1>2. Typed
  BY <1>1, NewIs DEF Typed
<1>3. ~InExec(1) /\ ~InBrace(1)
  BY DEF InExec, InBrace
<1>4. Nested
  BY <1>1, <1>3 DEF Nested
<1>5. ReadSoFar = {} /\ Open = {} /\ DOMAIN endpoints = {}
  BY <1>1 DEF ReadSoFar, Open
<1>6. Owned
  BY <1>5 DEF Owned
<1>7. 1..(cursor - 1) = {}
  BY <1>1
<1> QED BY <1>2, <1>4, <1>6, <1>7 DEF IInv

LEMMA NextDoes ==
  ASSUME Typed, Next
  PROVE  Typed' /\ lines' = lines /\ errors \subseteq errors' /\ (errors' = {} => Still \/ Takes)
  BY SetupDoes, DirectivesDo, ExecDoes DEF Next

LEMMA IInvStays ==
  ASSUME IInv, Next \/ UNCHANGED parserVars
  PROVE  IInv'
<1>1. CASE UNCHANGED parserVars
  <2>1. /\ UNCHANGED <<lines, cursor, mode, current, endpoints, setup, errors>>
    BY <1>1 DEF parserVars
  <2>2. Typed' <=> Typed
    BY <2>1 DEF Typed
  <2>3. \A l : (InExec(l)' <=> InExec(l)) /\ (InBrace(l)' <=> InBrace(l))
    BY <2>1, NestingStays
  <2>4. Nested' <=> Nested
    BY <2>1 DEF Nested, InExec, InBrace
  <2>5. ReadSoFar' = ReadSoFar /\ Open' = Open
    BY <2>1 DEF ReadSoFar, Open
  <2> HIDE DEF InExec, InBrace
  <2>6. Owned' <=> Owned
    BY <2>1, <2>3, <2>5 DEF Owned
  <2>7. ASSUME NEW l PROVE ReadRight(l)' <=> ReadRight(l)
    <3>1. \A ep : Has(ep, l)' <=> Has(ep, l)
      BY <2>3 DEF Has, Covers
    <3>2. Owing(l)' <=> Owing(l)
      BY <2>1, <2>3 DEF Owing
    <3> QED BY <2>1, <2>3, <2>5, <3>1, <3>2 DEF ReadRight
  <2> QED BY <2>1, <2>2, <2>4, <2>6, <2>7 DEF IInv
<1>2. CASE Next
  <2>1. Typed /\ Typed' /\ lines' = lines /\ errors \subseteq errors' /\ (errors' = {} => Still \/ Takes)
    BY <1>2, NextDoes DEF IInv
  <2>2. ASSUME errors' = {} PROVE Nested' /\ Owned' /\ \A l \in 1..(cursor' - 1) : ReadRight(l)'
    <3>1. Nested /\ Owned /\ (\A l \in 1..(cursor - 1) : ReadRight(l)) /\ (Still \/ Takes)
      BY <2>1, <2>2 DEF IInv
    <3>2. Nested' /\ Owned'
      BY <2>1, <3>1, NestedStays, OwnedStays
    <3>3. \A l \in 1..(cursor - 1) : ReadRight(l)'
      BY <2>1, <3>1, EarlierStayRight
    <3>4. Takes => \A l : l = cursor => ReadRight(l)'
      BY <2>1, <3>1, TakenIsRight
    <3>5. cursor \in Nat /\ (cursor' = cursor \/ (Takes /\ cursor' = cursor + 1))
      BY <2>1, <3>1, Holds DEF Still, Takes
    <3>6. \A l \in 1..(cursor' - 1) : l \in 1..(cursor - 1) \/ (Takes /\ l = cursor)
      BY <3>5
    <3> QED BY <3>2, <3>3, <3>4, <3>6
  <2> QED BY <2>1, <2>2 DEF IInv
<1> QED BY <1>1, <1>2

\* At the end of a file without errors the lines' own words decide everything.
LEMMA IInvReadsAll ==
  ASSUME IInv
  PROVE  AcceptedReadsAll
<1>1. SUFFICES ASSUME Accepted PROVE AcceptedReadsAll
  BY DEF AcceptedReadsAll
<1>2. /\ Typed /\ Nested /\ Owned /\ \A l \in 1..(cursor - 1) : ReadRight(l)
      /\ mode = "done" /\ cursor = Len(lines) + 1
  BY <1>1 DEF IInv, Accepted, Typed
<1>3. Len(lines) \in Nat /\ DOMAIN lines = 1..Len(lines) /\ 1..(cursor - 1) = DOMAIN lines
  BY <1>2, Holds
<1>4. Open = {} /\ ~InExec(Len(lines) + 1) /\ ~InBrace(Len(lines) + 1)
  BY <1>2 DEF Open, Nested
<1>5. \A l \in DOMAIN lines : ReadRight(l)
  BY <1>2, <1>3
<1>6. \A ep \in ReadSoFar : ep.first \in DOMAIN lines /\ lines[ep.first] = "GET"
        /\ ~InExec(ep.first) /\ ~InBrace(ep.first)
  BY <1>2, <1>3 DEF Owned
<1>7. \A l \in DOMAIN lines : lines[l] = "GET" /\ ~InExec(l) /\ ~InBrace(l) => \E ep \in ReadSoFar : ep.first = l
  BY <1>4, <1>5 DEF ReadRight
<1>8. ASSUME NEW l \in DOMAIN lines, lines[l] = "Exec<<<"
      PROVE  \E c \in (l + 1)..Len(lines) : lines[c] = ">>>"
  <2>1. PICK c \in l..((Len(lines) + 1) - 1) : lines[c] = ">>>"
    <3>1. l \in 1..((Len(lines) + 1) - 1)
      BY <1>3
    <3> QED BY <1>4, <1>8, <3>1 DEF InExec
  <2>2. c # l
    BY <1>8, <2>1
  <2>3. c \in (l + 1)..Len(lines)
    BY <1>3, <2>2
  <2> QED BY <2>1, <2>3
<1>9. ASSUME NEW l \in DOMAIN lines, lines[l] \in Openers, ~InExec(l)
      PROVE  \E c \in (l + 1)..Len(lines) : lines[c] = "}"
  <2> HIDE DEF InExec
  <2>1. PICK c \in l..((Len(lines) + 1) - 1) : lines[c] = "}"
    <3>1. l \in 1..((Len(lines) + 1) - 1)
      BY <1>3
    <3> QED BY <1>4, <1>9, <3>1 DEF InBrace
  <2>2. c # l
    BY <1>9, <2>1 DEF Openers
  <2>3. c \in (l + 1)..Len(lines)
    BY <1>3, <2>2
  <2> QED BY <2>1, <2>3
<1> HIDE DEF InExec, InBrace
<1>10. {endpoints[k].first : k \in DOMAIN endpoints} = {l \in DOMAIN lines : lines[l] = "GET" /\ ~InExec(l) /\ ~InBrace(l)}
  BY <1>6, <1>7 DEF ReadSoFar
<1>11. \A k \in DOMAIN endpoints : endpoints[k].statements # <<>>
  BY <1>2 DEF Owned, ReadSoFar
<1>12. \A j, k \in DOMAIN endpoints : j < k => endpoints[j].last < endpoints[k].first
  BY <1>2 DEF Owned
<1>13. ASSUME NEW l \in DOMAIN lines, Owing(l)
       PROVE  \E k \in DOMAIN endpoints : Has(endpoints[k], l) /\ l < endpoints[k].last
  BY <1>4, <1>5, <1>13 DEF ReadRight, ReadSoFar
<1>16. ASSUME NEW l \in DOMAIN lines, lines[l] \in {"QUERY", "Response-Type"}, ~InExec(l), ~InBrace(l)
       PROVE  \E k \in DOMAIN endpoints :
                endpoints[k].first < l /\ l < endpoints[k].last /\ l \in endpoints[k].fields
  BY <1>13, <1>16 DEF Owing, Has
<1>17. ASSUME NEW l \in DOMAIN lines, lines[l] \notin {"blank", "}"}, InBrace(l)
       PROVE  \E k \in DOMAIN endpoints :
                /\ endpoints[k].first < l /\ l < endpoints[k].last
                /\ l \in endpoints[k].bodyFields \/ l < endpoints[k].body
  BY <1>13, <1>17 DEF Owing, Has, Covers
<1>14. ASSUME NEW l \in DOMAIN lines, lines[l] \notin {"blank", ">>>"}, InExec(l)
       PROVE  \E k \in DOMAIN endpoints :
                l \in {endpoints[k].statements[x] : x \in DOMAIN endpoints[k].statements}
  <2>1. PICK ep \in ReadSoFar : l \in Range(ep.statements)
    BY <1>4, <1>5, <1>14 DEF ReadRight
  <2> QED BY <2>1 DEF ReadSoFar, Range
<1>15. \A l \in DOMAIN lines : lines[l] = "VERSION" /\ ~InExec(l) /\ ~InBrace(l) => l \in setup
  BY <1>5 DEF ReadRight
<1> QED BY <1>8, <1>9, <1>10, <1>11, <1>12, <1>14, <1>15, <1>16, <1>17 DEF AcceptedReadsAll

\* The parser's state is well typed, and before the first diagnostic the mode it is in
\* is what the lines say (parse/spec.rs:90-109, 255-280, 305-362, 581-606).
THEOREM Inductive == Spec => []IInv
<1>1. Init => IInv
  BY IInvStarts
<1>2. IInv /\ [Next]_parserVars => IInv'
  BY IInvStays
<1> QED BY <1>1, <1>2, PTL DEF Spec

\* Whatever the file, one without errors is read by its brackets: the methods outside
\* of them begin its endpoints, and each line inside of them belongs to the endpoint they
\* stand in (parse/spec.rs:90-109, 255-280, 305-362, 500-606, 638-668).
THEOREM AcceptedIsRead == Spec => []AcceptedReadsAll
<1>1. IInv => AcceptedReadsAll
  BY IInvReadsAll
<1> QED BY <1>1, Inductive, PTL

----------------------------------------------------------------------------
(* Words on their way to sh, and what they are made of. *)

Letters == UNION {ToSet(x) : x \in Lines}
Said == UNION {UNION {ToSet(text) : text \in v} : v \in Values}
Char == Letters \cup Said \cup {Quote, Backslash} \cup Blank
Plain == Char \ {Quote, "value|"}
Word == {w \in [text : Seq(Char), force : BOOLEAN] : ~w.force => w.text \in Seq(Plain)}

----------------------------------------------------------------------------
(* sh's reader, as a function of its state and the next character. *)

Readings == {"between", "bare", "quoted", "escaped", "comment", "substituted"}
Reader == [reading : Readings, word : Seq(Char), words : Seq(Seq(Char)), acted : SUBSET Syntax]

ReaderAt(r, w, ws, a) == [reading |-> r, word |-> w, words |-> ws, acted |-> a]

Quoted(x, c) ==
  IF c = Quote THEN ReaderAt("bare", x.word, x.words, x.acted)
  ELSE ReaderAt("quoted", Append(x.word, c), x.words, x.acted)
Escaped(x, c) ==
  ReaderAt("bare", IF c = "newline" THEN x.word ELSE Append(x.word, c), x.words, x.acted)
Skipped(x, c) ==
  ReaderAt(IF x.reading = "comment" THEN IF c = "newline" THEN "between" ELSE "comment"
           ELSE IF c = "backquote" THEN "bare" ELSE "substituted", x.word, x.words, x.acted)
Unquoted(x, c) ==
  CASE c = Quote      -> ReaderAt("quoted", x.word, x.words, x.acted)
    [] c = Backslash  -> ReaderAt("escaped", x.word, x.words, x.acted)
    [] c \in Blank \cup Operators /\ x.reading = "bare" ->
         ReaderAt("between", <<>>, Append(x.words, x.word), x.acted \cup ({c} \cap Operators))
    [] c \in Blank \cup Operators /\ x.reading # "bare" ->
         ReaderAt("between", x.word, x.words, x.acted \cup ({c} \cap Operators))
    [] c \in Syntax \ Operators ->
         ReaderAt(IF c = "backquote" THEN "substituted" ELSE "bare", x.word, x.words, x.acted \cup {c})
    [] c = "#" /\ x.reading # "bare" -> ReaderAt("comment", x.word, x.words, x.acted)
    [] OTHER          -> ReaderAt("bare", Append(x.word, c), x.words, x.acted)

Sh(x, c) ==
  CASE x.reading = "quoted"                     -> Quoted(x, c)
    [] x.reading = "escaped"                    -> Escaped(x, c)
    [] x.reading \in {"comment", "substituted"} -> Skipped(x, c)
    [] x.reading \in {"between", "bare"}        -> Unquoted(x, c)

Now == ReaderAt(reading, word, words, acted)

\* What has been read stays read.
Starts(s, t) == Len(s) =< Len(t) /\ \A i \in 1..Len(s) : s[i] = t[i]
Extends(a, b) ==
  /\ Starts(a.words, b.words)
  /\ Len(a.words) < Len(b.words) => Starts(a.word, b.words[Len(a.words) + 1])
  /\ Len(a.words) = Len(b.words) => Starts(a.word, b.word)
  /\ a.acted \subseteq b.acted

LEMMA StartsTransitive ==
  ASSUME NEW S, NEW r \in Seq(S), NEW s \in Seq(S), NEW t \in Seq(S), Starts(r, s), Starts(s, t)
  PROVE  Starts(r, t)
<1>1. Len(r) =< Len(t)
  BY DEF Starts
<1>2. ASSUME NEW i \in 1..Len(r) PROVE r[i] = t[i]
  <2>1. i \in 1..Len(s)
    BY DEF Starts
  <2> QED BY <2>1 DEF Starts
<1> QED BY <1>1, <1>2 DEF Starts

LEMMA StartsAppend ==
  ASSUME NEW S, NEW s \in Seq(S), NEW c
  PROVE  Starts(s, s) /\ Starts(s, Append(s, c))
  BY DEF Starts

LEMMA StartsIsPrefix ==
  ASSUME NEW S, NEW s \in Seq(S), NEW t \in Seq(S), Starts(s, t)
  PROVE  IsPrefix(s, t)
<1>1. Len(s) =< Len(t) /\ Len(s) \in Nat /\ Len(t) \in Nat
  BY DEF Starts
<1>2. SubSeq(s, 1, Len(s)) = [i \in 1..Len(s) |-> s[i]]
  BY <1>1
<1>3. SubSeq(t, 1, Len(s)) = [i \in 1..Len(s) |-> t[i]]
  BY <1>1
<1>4. [i \in 1..Len(s) |-> s[i]] = [i \in 1..Len(s) |-> t[i]]
  BY DEF Starts
<1> QED BY <1>1, <1>2, <1>3, <1>4 DEF IsPrefix

LEMMA ExtendsTransitive ==
  ASSUME NEW a \in Reader, NEW b \in Reader, NEW c \in Reader, Extends(a, b), Extends(b, c)
  PROVE  Extends(a, c)
<1>1. /\ a.word \in Seq(Char) /\ b.word \in Seq(Char) /\ c.word \in Seq(Char)
      /\ a.words \in Seq(Seq(Char)) /\ b.words \in Seq(Seq(Char)) /\ c.words \in Seq(Seq(Char))
  BY DEF Reader
<1>2. Starts(a.words, b.words) /\ Starts(b.words, c.words)
  BY DEF Extends
<1>3. Starts(a.words, c.words)
  BY <1>1, <1>2, StartsTransitive
<1>4. Len(a.words) =< Len(b.words) /\ Len(b.words) =< Len(c.words)
  BY <1>2 DEF Starts
<1>5. Len(a.words) \in Nat /\ Len(b.words) \in Nat /\ Len(c.words) \in Nat
  BY <1>1
<1>6. CASE Len(a.words) < Len(b.words)
  <2>1. Starts(a.word, b.words[Len(a.words) + 1]) /\ Len(a.words) + 1 \in 1..Len(b.words)
    BY <1>5, <1>6 DEF Extends
  <2>2. b.words[Len(a.words) + 1] = c.words[Len(a.words) + 1]
    BY <1>2, <2>1 DEF Starts
  <2> QED BY <1>3, <1>4, <1>5, <1>6, <2>1, <2>2 DEF Extends
<1>7. CASE Len(a.words) = Len(b.words)
  <2>1. Starts(a.word, b.word)
    BY <1>7 DEF Extends
  <2>2. ASSUME Len(b.words) < Len(c.words) PROVE Starts(a.word, c.words[Len(a.words) + 1])
    <3>1. Starts(b.word, c.words[Len(b.words) + 1]) /\ c.words[Len(b.words) + 1] \in Seq(Char)
      BY <1>1, <1>5, <2>2 DEF Extends
    <3> QED BY <1>1, <1>7, <2>1, <3>1, StartsTransitive
  <2>3. ASSUME Len(b.words) = Len(c.words) PROVE Starts(a.word, c.word)
    <3>1. Starts(b.word, c.word)
      BY <2>3 DEF Extends
    <3> QED BY <1>1, <2>1, <3>1, StartsTransitive
  <2> QED BY <1>3, <1>7, <2>2, <2>3 DEF Extends
<1> QED BY <1>4, <1>5, <1>6, <1>7

LEMMA ShIs ==
  ASSUME NEW x \in Reader, NEW c \in Char
  PROVE  Sh(x, c) \in Reader /\ Extends(x, Sh(x, c)) /\ Extends(x, x)
<1>1. /\ x.word \in Seq(Char) /\ x.words \in Seq(Seq(Char)) /\ x.acted \in SUBSET Syntax
      /\ x.reading \in Readings
  BY DEF Reader
<1>2. Append(x.word, c) \in Seq(Char) /\ Append(x.words, x.word) \in Seq(Seq(Char)) /\ <<>> \in Seq(Char)
  BY <1>1
<1>3. ASSUME NEW r \in Readings, NEW w \in {x.word, Append(x.word, c)},
             NEW a \in SUBSET Syntax, x.acted \subseteq a
      PROVE  ReaderAt(r, w, x.words, a) \in Reader /\ Extends(x, ReaderAt(r, w, x.words, a))
  <2>1. ReaderAt(r, w, x.words, a) \in Reader
    BY <1>1, <1>2, <1>3 DEF ReaderAt, Reader
  <2>2. Starts(x.word, w) /\ Starts(x.words, x.words) /\ x.acted \subseteq a
    BY <1>1, <1>3, StartsAppend
  <2> QED BY <2>1, <2>2 DEF ReaderAt, Extends
<1>4. x = ReaderAt(x.reading, x.word, x.words, x.acted)
  BY DEF ReaderAt, Reader
<1>5. x \in Reader /\ Extends(x, x)
  BY <1>1, <1>3, <1>4
<1>6. ASSUME NEW a \in SUBSET Syntax, x.acted \subseteq a
      PROVE  /\ ReaderAt("between", <<>>, Append(x.words, x.word), a) \in Reader
             /\ Extends(x, ReaderAt("between", <<>>, Append(x.words, x.word), a))
  <2>1. ReaderAt("between", <<>>, Append(x.words, x.word), a) \in Reader
    BY <1>1, <1>2, <1>6 DEF ReaderAt, Reader, Readings
  <2>2. /\ Starts(x.words, Append(x.words, x.word)) /\ Starts(x.word, x.word)
        /\ Len(Append(x.words, x.word)) = Len(x.words) + 1 /\ Len(x.words) \in Nat
        /\ Append(x.words, x.word)[Len(x.words) + 1] = x.word
    BY <1>1, StartsAppend
  <2> QED BY <1>6, <2>1, <2>2 DEF ReaderAt, Extends
<1>7. \E r \in Readings, w \in {x.word, Append(x.word, c)}, a \in SUBSET Syntax :
        /\ x.acted \subseteq a
        /\ Sh(x, c) \in {ReaderAt(r, w, x.words, a), ReaderAt("between", <<>>, Append(x.words, x.word), a)}
  <2>0. /\ x.acted \cup ({c} \cap Operators) \in SUBSET Syntax
        /\ c \in Syntax => x.acted \cup {c} \in SUBSET Syntax
    BY <1>1 DEF Syntax
  <2>1. CASE x.reading = "quoted"
    BY <1>1, <2>1 DEF Sh, Quoted, Readings
  <2>2. CASE x.reading = "escaped"
    BY <1>1, <2>2 DEF Sh, Escaped, Readings
  <2>3. CASE x.reading \in {"comment", "substituted"}
    BY <1>1, <2>3 DEF Sh, Skipped, Readings
  <2>4. CASE x.reading \in {"between", "bare"}
    <3>1. Sh(x, c) = Unquoted(x, c)
      BY <2>4 DEF Sh
    <3> QED BY <1>1, <2>0, <2>4, <3>1 DEF Unquoted, Readings
  <2> QED BY <1>1, <2>1, <2>2, <2>3, <2>4 DEF Readings
<1> QED BY <1>3, <1>5, <1>6, <1>7

----------------------------------------------------------------------------
(* From one state over a script to another. *)

Run(s, b, r) ==
  /\ r \in [0..Len(s) -> Reader] /\ r[Len(s)] = b
  /\ \A k \in 1..Len(s) : r[k] = Sh(r[k - 1], s[k])
  /\ \A k \in 0..Len(s) : Extends(r[k], b)
Reads(s, a, b) == \E r : Run(s, b, r) /\ r[0] = a

LEMMA ReadsNothing ==
  ASSUME NEW a \in Reader
  PROVE  Reads(<<>>, a, a)
<1> DEFINE r == [k \in 0..0 |-> a]
<1>1. Extends(a, a)
  <2>1. Quote \in Char
    BY DEF Char
  <2> QED BY <2>1, ShIs
<1>2. Run(<<>>, a, r)
  BY <1>1 DEF Run
<1> QED BY <1>2 DEF Reads

LEMMA ReadsOne ==
  ASSUME NEW s \in Seq(Char), NEW a, NEW b, Reads(s, a, b), NEW c \in Char
  PROVE  Reads(Append(s, c), a, Sh(b, c)) /\ b \in Reader /\ Sh(b, c) \in Reader
<1>1. PICK r : Run(s, b, r) /\ r[0] = a
  BY DEF Reads
<1>2. Len(s) \in Nat /\ Len(Append(s, c)) = Len(s) + 1
  BY Zenon, AppendProperties, LenProperties
<1> DEFINE n == Len(s)
           q == [k \in 0..(n + 1) |-> IF k = n + 1 THEN Sh(b, c) ELSE r[k]]
<1>3. r \in [0..n -> Reader] /\ r[n] = b
  BY <1>1 DEF Run
<1>4. b \in Reader
  BY <1>2, <1>3
<1>5. Sh(b, c) \in Reader /\ Extends(b, Sh(b, c)) /\ Extends(Sh(b, c), Sh(b, c))
  BY <1>4, ShIs
<1>6. q \in [0..(n + 1) -> Reader] /\ q[n + 1] = Sh(b, c) /\ \A k \in 0..n : q[k] = r[k]
  BY <1>2, <1>3, <1>5
<1> HIDE DEF q
<1>7. ASSUME NEW k \in 1..(n + 1) PROVE q[k] = Sh(q[k - 1], Append(s, c)[k])
  <2>1. CASE k = n + 1
    BY <1>2, <1>3, <1>6, <2>1
  <2>2. CASE k # n + 1
    <3>1. k \in 1..n /\ k - 1 \in 0..n /\ k \in 0..n
      BY <1>2, <2>2
    <3>2. r[k] = Sh(r[k - 1], s[k]) /\ Append(s, c)[k] = s[k]
      BY <1>1, <3>1 DEF Run
    <3> QED BY <1>6, <3>1, <3>2
  <2> QED BY <2>1, <2>2
<1>8. ASSUME NEW k \in 0..(n + 1) PROVE Extends(q[k], Sh(b, c))
  <2>1. CASE k = n + 1
    BY <1>5, <1>6, <2>1
  <2>2. CASE k # n + 1
    <3>1. k \in 0..n
      BY <1>2, <2>2
    <3>2. Extends(r[k], b) /\ r[k] \in Reader
      BY <1>1, <1>3, <3>1 DEF Run
    <3>3. Extends(r[k], Sh(b, c))
      BY <1>4, <1>5, <3>2, ExtendsTransitive
    <3> QED BY <1>6, <3>1, <3>3
  <2> QED BY <2>1, <2>2
<1>9. Run(Append(s, c), Sh(b, c), q)
  BY <1>2, <1>6, <1>7, <1>8 DEF Run
<1>10. q[0] = a
  BY <1>1, <1>2, <1>6
<1> QED BY <1>4, <1>5, <1>9, <1>10 DEF Reads

LEMMA ReadsRest ==
  ASSUME NEW s \in Seq(Char), s # <<>>, NEW a, NEW b, Reads(s, a, b)
  PROVE  Reads(Tail(s), Sh(a, Head(s)), b) /\ Tail(s) \in Seq(Char)
<1>1. PICK r : Run(s, b, r) /\ r[0] = a
  BY DEF Reads
<1>2. /\ Len(s) \in Nat \ {0} /\ Tail(s) \in Seq(Char) /\ Len(Tail(s)) = Len(s) - 1 /\ Head(s) = s[1]
      /\ \A k \in 1..Len(Tail(s)) : Tail(s)[k] = s[k + 1]
  BY HeadTailProperties
<1> DEFINE n == Len(s)
           q == [k \in 0..(n - 1) |-> r[k + 1]]
<1>3. r \in [0..n -> Reader] /\ r[n] = b
  BY <1>1 DEF Run
<1>4. q \in [0..(n - 1) -> Reader] /\ q[n - 1] = b /\ \A k \in 0..(n - 1) : q[k] = r[k + 1]
  BY <1>2, <1>3
<1> HIDE DEF q
<1>5. ASSUME NEW k \in 1..(n - 1) PROVE q[k] = Sh(q[k - 1], Tail(s)[k])
  <2>1. k + 1 \in 1..n /\ k \in 0..(n - 1) /\ k - 1 \in 0..(n - 1) /\ (k + 1) - 1 = (k - 1) + 1
    BY <1>2
  <2>2. r[k + 1] = Sh(r[(k + 1) - 1], s[k + 1])
    BY <1>1, <2>1 DEF Run
  <2>3. q[k] = r[k + 1] /\ q[k - 1] = r[(k - 1) + 1]
    BY <1>4, <2>1
  <2> QED BY <1>2, <2>1, <2>2, <2>3
<1>6. ASSUME NEW k \in 0..(n - 1) PROVE Extends(q[k], b)
  <2>1. k + 1 \in 0..n
    BY <1>2
  <2> QED BY <1>1, <1>4, <2>1 DEF Run
<1>7. Run(Tail(s), b, q)
  BY <1>2, <1>4, <1>5, <1>6 DEF Run
<1>8. q[0] = Sh(a, Head(s))
  BY <1>1, <1>2, <1>4 DEF Run
<1> QED BY <1>2, <1>7, <1>8 DEF Reads

LEMMA ReadsEnds ==
  ASSUME NEW s \in Seq(Char), NEW a, NEW b, Reads(s, a, b)
  PROVE  a \in Reader /\ b \in Reader /\ Extends(a, b) /\ (s = <<>> => a = b)
<1>1. PICK r : Run(s, b, r) /\ r[0] = a
  BY DEF Reads
<1>2. Len(s) \in Nat /\ 0 \in 0..Len(s) /\ Len(s) \in 0..Len(s) /\ (s = <<>> => Len(s) = 0)
  BY LenProperties
<1> QED BY <1>1, <1>2 DEF Run

----------------------------------------------------------------------------
(* What sh will have read of what is written so far. *)

TextsOf(ws) == [k \in DOMAIN ws |-> ws[k].text]
Trusting(ws) == \E k \in DOMAIN ws : Trusted(ws[k])
Opening(ws) == \E k \in DOMAIN ws : Opens(ws[k])
Tame == Char \ (Blank \cup Syntax \cup {Quote, Backslash})

\* A bare text without a comment or a backquote in it: where its first character is a
\* number sign, what is before it matters.
Calm(r) ==
  /\ r \in Seq(Plain)
  /\ \A k \in DOMAIN r : r[k] \notin Blank \cup {"backquote"}
  /\ \A k \in DOMAIN r : k > 1 /\ r[k] = "#" => r[k - 1] \notin Operators

\* Where sh is, while the writer is in w with r left of its word.
Placed(ws, w, r, e) ==
  ~Opening(ws) =>
    /\ "value|" \notin e.acted
    /\ w = "quoted" => e.reading = "quoted"
    /\ w = "bare" => /\ e.reading \in {"between", "bare", "escaped"} /\ Calm(r)
                     /\ r # <<>> /\ r[1] = "#" => e.reading # "between"
    /\ w = "between" => e.reading \in {"between", "bare"}

\* And what it has read, where the author left nothing to it.
Heard(ws, w, r, e) ==
  ~Trusting(ws) =>
    /\ e.acted = {}
    /\ w = "between" => e.reading = "between" /\ e.word = <<>> /\ e.words = TextsOf(ws)
    /\ w # "between" => /\ ws # <<>> /\ e.words = Front(TextsOf(ws))
                        /\ e.word \o r = ws[Len(ws)].text
    /\ w = "bare" => /\ e.reading \in {"between", "bare"} /\ r \in Seq(Tame)
                     /\ ws[Len(ws)].text # <<>> /\ (e.reading = "between" <=> e.word = <<>>)

LEMMA Apart ==
  /\ Quote \in Char /\ Backslash \in Char /\ "space" \in Char /\ "newline" \in Char
  /\ Quote # Backslash /\ Quote \notin Blank /\ Backslash \notin Blank /\ "space" \in Blank /\ "newline" \in Blank
  /\ Quote \notin Syntax /\ Backslash \notin Syntax /\ "space" \notin Syntax /\ "newline" \notin Syntax
<1>1. Quote \in Char /\ Backslash \in Char
  BY DEF Char
<1>2. "space" \in Blank /\ "newline" \in Blank
  BY DEF Blank
<1>3. Blank \subseteq Char
  BY DEF Char
<1> QED BY <1>1, <1>2, <1>3 DEF Quote, Backslash, Blank, Syntax, Operators

LEMMA MoveOne ==
  ASSUME NEW S, NEW s \in Seq(S), NEW r \in Seq(S), r # <<>>
  PROVE  Append(s, Head(r)) \o Tail(r) = s \o r
<1>1. Head(r) \in S /\ Tail(r) \in Seq(S) /\ Len(Tail(r)) = Len(r) - 1 /\ Len(r) \in Nat \ {0}
  BY HeadTailProperties
<1>2. \A k \in 1..Len(Tail(r)) : Tail(r)[k] = r[k + 1]
  BY HeadTailProperties
<1>3. Append(s, Head(r)) \in Seq(S) /\ Len(Append(s, Head(r))) = Len(s) + 1 /\ Len(s) \in Nat
  BY <1>1
<1>4. /\ Append(s, Head(r)) \o Tail(r) \in Seq(S) /\ s \o r \in Seq(S)
      /\ Len(Append(s, Head(r)) \o Tail(r)) = Len(s) + 1 + (Len(r) - 1) /\ Len(s \o r) = Len(s) + Len(r)
  BY <1>1, <1>3
<1>5. ASSUME NEW k \in 1..Len(s \o r) PROVE (Append(s, Head(r)) \o Tail(r))[k] = (s \o r)[k]
  <2>1. CASE k =< Len(s)
    BY <1>1, <1>3, <1>4, <2>1
  <2>2. CASE k = Len(s) + 1
    BY <1>1, <1>3, <1>4, <2>2
  <2>3. CASE k > Len(s) + 1
    <3>1. k - (Len(s) + 1) \in 1..Len(Tail(r)) /\ k - (Len(s) + 1) + 1 = k - Len(s)
      BY <1>1, <1>3, <1>4, <2>3
    <3>2. Tail(r)[k - (Len(s) + 1)] = r[k - Len(s)]
      BY <1>2, <3>1
    <3>3. (Append(s, Head(r)) \o Tail(r))[k] = Tail(r)[k - (Len(s) + 1)]
      BY <1>1, <1>3, <1>4, <2>3, <3>1
    <3>4. (s \o r)[k] = r[k - Len(s)]
      BY <1>3, <1>4, <2>3
    <3> QED BY <3>2, <3>3, <3>4
  <2> QED BY <1>3, <1>4, <2>1, <2>2, <2>3
<1>6. Len(Append(s, Head(r)) \o Tail(r)) = Len(s \o r)
  BY <1>1, <1>3, <1>4
<1> QED BY <1>4, <1>5, <1>6, SeqEqual

LEMMA TextsAre ==
  ASSUME NEW ws \in Seq(Word)
  PROVE  /\ TextsOf(ws) \in Seq(Seq(Char)) /\ Len(TextsOf(ws)) = Len(ws)
         /\ \A k \in 1..Len(ws) : TextsOf(ws)[k] = ws[k].text /\ ws[k].text \in Seq(Char)
<1>1. \A k \in 1..Len(ws) : ws[k] \in Word
  OBVIOUS
<1>2. \A k \in 1..Len(ws) : ws[k].text \in Seq(Char)
  BY <1>1 DEF Word
<1>3. TextsOf(ws) = [k \in 1..Len(ws) |-> ws[k].text]
  BY DEF TextsOf
<1> QED BY <1>2, <1>3

LEMMA OneMore ==
  ASSUME NEW ws \in Seq(Word), NEW w \in Word
  PROVE  LET more == Append(ws, w) IN
         /\ more \in Seq(Word) /\ more # <<>> /\ more[Len(more)] = w
         /\ Front(TextsOf(more)) = TextsOf(ws)
         /\ ~Trusting(more) => ~Trusting(ws) /\ ~Trusted(w)
         /\ ~Opening(more) => ~Opening(ws) /\ ~Opens(w)
<1> DEFINE more == Append(ws, w)
<1>1. /\ more \in Seq(Word) /\ Len(more) = Len(ws) + 1 /\ Len(ws) \in Nat /\ more[Len(ws) + 1] = w
      /\ \A k \in 1..Len(ws) : more[k] = ws[k]
  OBVIOUS
<1> HIDE DEF more
<1>2. Front(TextsOf(more)) = TextsOf(ws)
  <2>1. /\ TextsOf(more) \in Seq(Seq(Char)) /\ Len(TextsOf(more)) = Len(ws) + 1
        /\ \A k \in 1..(Len(ws) + 1) : TextsOf(more)[k] = more[k].text
    BY <1>1, TextsAre
  <2>2. /\ TextsOf(ws) \in Seq(Seq(Char)) /\ Len(TextsOf(ws)) = Len(ws)
        /\ \A k \in 1..Len(ws) : TextsOf(ws)[k] = ws[k].text
    BY TextsAre
  <2>3. /\ Front(TextsOf(more)) \in Seq(Seq(Char)) /\ Len(Front(TextsOf(more))) = Len(ws)
        /\ \A k \in 1..Len(ws) : Front(TextsOf(more))[k] = TextsOf(more)[k]
    BY <1>1, <2>1 DEF Front
  <2>4. ASSUME NEW k \in 1..Len(ws) PROVE Front(TextsOf(more))[k] = TextsOf(ws)[k]
    <3>1. k \in 1..(Len(ws) + 1) /\ more[k] = ws[k]
      BY <1>1
    <3> QED BY <2>1, <2>2, <2>3, <3>1, Zenon
  <2> QED BY <2>2, <2>3, <2>4, SeqEqual
<1>3. ASSUME ~Trusting(more) PROVE ~Trusting(ws) /\ ~Trusted(w)
  <2>1. \A k \in DOMAIN more : ~Trusted(more[k])
    BY <1>3 DEF Trusting
  <2>2. Len(ws) + 1 \in DOMAIN more /\ \A k \in DOMAIN ws : k \in DOMAIN more /\ more[k] = ws[k]
    BY <1>1
  <2> QED BY <1>1, <2>1, <2>2, Zenon DEF Trusting
<1>4. more # <<>> /\ more[Len(more)] = w
  BY <1>1
<1>5. ASSUME ~Opening(more) PROVE ~Opening(ws) /\ ~Opens(w)
  <2>1. \A k \in DOMAIN more : ~Opens(more[k])
    BY <1>5 DEF Opening
  <2>2. Len(ws) + 1 \in DOMAIN more /\ \A k \in DOMAIN ws : k \in DOMAIN more /\ more[k] = ws[k]
    BY <1>1
  <2> QED BY <1>1, <2>1, <2>2, Zenon DEF Opening
<1> QED BY <1>1, <1>2, <1>3, <1>4, <1>5 DEF more

LEMMA TrustingIfOpening ==
  ASSUME NEW ws, ~Trusting(ws)
  PROVE  ~Opening(ws)
  BY Zenon DEF Trusting, Opening, Trusted

LEMMA NothingSaid ==
  ASSUME NEW ws, Opening(ws), NEW w, NEW r, NEW e
  PROVE  Placed(ws, w, r, e) /\ Heard(ws, w, r, e)
<1>1. Trusting(ws)
  BY TrustingIfOpening
<1> QED BY <1>1 DEF Placed, Heard

\* A bare word that opens nothing is calm.
LEMMA CalmBegins ==
  ASSUME NEW w \in Word, ~w.force, ~Opens(w), \A k \in DOMAIN w.text : w.text[k] \notin Blank
  PROVE  Calm(w.text) /\ (w.text # <<>> => w.text[1] # "#")
<1>1. w.text \in Seq(Plain)
  BY DEF Word
<1>2. \A k \in DOMAIN w.text : /\ w.text[k] # "backquote"
                               /\ w.text[k] = "#" => k # 1 /\ w.text[k - 1] \notin Operators
  BY DEF Opens
<1>3. w.text # <<>> => 1 \in DOMAIN w.text
  BY <1>1
<1> QED BY <1>1, <1>2, <1>3 DEF Calm

LEMMA CalmGoesOn ==
  ASSUME NEW r, Calm(r), r # <<>>
  PROVE  /\ Calm(Tail(r)) /\ Head(r) = r[1] /\ Head(r) \in Plain /\ Head(r) \notin Blank \cup {"backquote"}
         /\ Tail(r) # <<>> /\ Tail(r)[1] = "#" => Head(r) \notin Operators
<1>1. r \in Seq(Plain)
  BY DEF Calm
<1>2. /\ Len(r) \in Nat \ {0} /\ Tail(r) \in Seq(Plain) /\ Len(Tail(r)) = Len(r) - 1 /\ Head(r) = r[1]
      /\ Head(r) \in Plain
      /\ \A k \in 1..Len(Tail(r)) : Tail(r)[k] = r[k + 1]
  BY <1>1, HeadTailProperties
<1>3. DOMAIN r = 1..Len(r) /\ DOMAIN Tail(r) = 1..Len(Tail(r))
  BY <1>1, <1>2
<1>4. ASSUME NEW k \in DOMAIN Tail(r)
      PROVE  /\ Tail(r)[k] \notin Blank \cup {"backquote"}
             /\ k > 1 /\ Tail(r)[k] = "#" => Tail(r)[k - 1] \notin Operators
             /\ k = 1 /\ Tail(r)[k] = "#" => Head(r) \notin Operators
  <2>1. k + 1 \in DOMAIN r /\ Tail(r)[k] = r[k + 1] /\ k + 1 > 1 /\ (k + 1) - 1 = k
    BY <1>2, <1>3
  <2>2. r[k + 1] \notin Blank \cup {"backquote"} /\ (r[k + 1] = "#" => r[k] \notin Operators)
    BY <2>1 DEF Calm
  <2>3. k > 1 => Tail(r)[k - 1] = r[k]
    <3>1. k > 1 => k - 1 \in 1..Len(Tail(r)) /\ (k - 1) + 1 = k
      BY <1>3
    <3> QED BY <1>2, <3>1
  <2> QED BY <1>2, <2>1, <2>2, <2>3
<1>5. 1 \in DOMAIN r /\ r[1] \notin Blank \cup {"backquote"}
  BY <1>2, <1>3 DEF Calm
<1>6. Tail(r) # <<>> => 1 \in DOMAIN Tail(r)
  BY <1>2, <1>3
<1> QED BY <1>2, <1>4, <1>5, <1>6 DEF Calm

LEMMA AllTexts ==
  ASSUME NEW ws \in Seq(Word), ws # <<>>
  PROVE  Append(Front(TextsOf(ws)), ws[Len(ws)].text) = TextsOf(ws)
<1> DEFINE t == TextsOf(ws)
<1>1. t \in Seq(Seq(Char)) /\ Len(t) = Len(ws) /\ Len(ws) \in Nat \ {0} /\ t[Len(ws)] = ws[Len(ws)].text
  BY TextsAre
<1> HIDE DEF t
<1>2. /\ Front(t) \in Seq(Seq(Char)) /\ Len(Front(t)) = Len(t) - 1
      /\ \A k \in 1..(Len(t) - 1) : Front(t)[k] = t[k]
  BY <1>1 DEF Front
<1>3. t[Len(t)] \in Seq(Char)
  BY <1>1
<1>4. /\ Append(Front(t), t[Len(t)]) \in Seq(Seq(Char)) /\ Len(Append(Front(t), t[Len(t)])) = Len(t)
      /\ \A k \in 1..Len(t) : Append(Front(t), t[Len(t)])[k] = t[k]
  BY <1>1, <1>2, <1>3
<1>5. Append(Front(t), t[Len(t)]) = t
  BY <1>1, <1>4, SeqEqual
<1> QED BY <1>1, <1>5 DEF t

\* The reader's steps, by the state it is in.
LEMMA InQuotes ==
  ASSUME NEW e, e.reading = "quoted", NEW c
  PROVE  /\ Sh(e, Quote) = ReaderAt("bare", e.word, e.words, e.acted)
         /\ c # Quote => Sh(e, c) = ReaderAt("quoted", Append(e.word, c), e.words, e.acted)
  BY DEF Sh, Quoted

OutsideDoes(e) ==
  /\ Sh(e, Quote) = ReaderAt("quoted", e.word, e.words, e.acted)
  /\ Sh(e, Backslash) = ReaderAt("escaped", e.word, e.words, e.acted)
  /\ \A c \in Blank \cup Operators :
       Sh(e, c) = IF e.reading = "bare"
                  THEN ReaderAt("between", <<>>, Append(e.words, e.word), e.acted \cup ({c} \cap Operators))
                  ELSE ReaderAt("between", e.word, e.words, e.acted \cup ({c} \cap Operators))
  /\ \A c \in Syntax \ Operators :
       Sh(e, c) = ReaderAt(IF c = "backquote" THEN "substituted" ELSE "bare", e.word, e.words, e.acted \cup {c})
  /\ e.reading = "between" => Sh(e, "#") = ReaderAt("comment", e.word, e.words, e.acted)
  /\ \A c : /\ c # Quote /\ c # Backslash /\ c \notin Blank /\ c \notin Syntax
            /\ c = "#" => e.reading = "bare"
            => Sh(e, c) = ReaderAt("bare", Append(e.word, c), e.words, e.acted)

LEMMA OutOfQuotes ==
  ASSUME NEW e, e.reading \in {"between", "bare"}
  PROVE  OutsideDoes(e)
<1>1. \A x : Sh(e, x) = Unquoted(e, x)
  BY DEF Sh
<1>2. /\ Unquoted(e, Quote) = ReaderAt("quoted", e.word, e.words, e.acted)
      /\ Unquoted(e, Backslash) = ReaderAt("escaped", e.word, e.words, e.acted)
  BY DEF Unquoted, Quote, Backslash, Blank, Syntax, Operators
<1>3. ASSUME NEW c \in Blank \cup Operators
      PROVE  Unquoted(e, c) =
               IF e.reading = "bare"
               THEN ReaderAt("between", <<>>, Append(e.words, e.word), e.acted \cup ({c} \cap Operators))
               ELSE ReaderAt("between", e.word, e.words, e.acted \cup ({c} \cap Operators))
  <2>1. c # Quote /\ c # Backslash /\ c # "#" /\ c \notin Syntax \ Operators
    BY DEF Blank, Operators, Syntax, Quote, Backslash
  <2>2. CASE e.reading = "bare"
    BY <2>1, <2>2 DEF Unquoted
  <2>3. CASE e.reading # "bare"
    BY <2>1, <2>3 DEF Unquoted
  <2> QED BY <2>2, <2>3
<1>4. ASSUME NEW c, c # Quote, c # Backslash, c \notin Blank, c \notin Syntax, c = "#" => e.reading = "bare"
      PROVE  Unquoted(e, c) = ReaderAt("bare", Append(e.word, c), e.words, e.acted)
  BY <1>4 DEF Unquoted, Syntax
<1>5. ASSUME NEW c \in Syntax \ Operators
      PROVE  Unquoted(e, c) =
               ReaderAt(IF c = "backquote" THEN "substituted" ELSE "bare", e.word, e.words, e.acted \cup {c})
  <2>1. c # Quote /\ c # Backslash /\ c # "#" /\ c \notin Blank /\ c \notin Operators
    BY DEF Quote, Backslash, Blank, Operators, Syntax
  <2> QED BY <2>1 DEF Unquoted
<1>6. ASSUME e.reading = "between"
      PROVE  Unquoted(e, "#") = ReaderAt("comment", e.word, e.words, e.acted)
  <2>1. "#" # Quote /\ "#" # Backslash /\ "#" \notin Blank /\ "#" \notin Operators /\ "#" \notin Syntax
    BY DEF Quote, Backslash, Blank, Operators, Syntax
  <2> QED BY <1>6, <2>1 DEF Unquoted
<1> QED BY <1>1, <1>2, <1>3, <1>4, <1>5, <1>6 DEF OutsideDoes

LEMMA WordIsRead ==
  ASSUME NEW e, e.reading = "bare", NEW b \in Blank
  PROVE  Sh(e, b) = ReaderAt("between", <<>>, Append(e.words, e.word), e.acted)
<1>1. OutsideDoes(e)
  BY OutOfQuotes
<1>2. b \in Blank \cup Operators /\ {b} \cap Operators = {}
  BY DEF Blank, Operators
<1>3. Sh(e, b) = ReaderAt("between", <<>>, Append(e.words, e.word), e.acted \cup ({b} \cap Operators))
  BY <1>1, <1>2, Zenon DEF OutsideDoes
<1>4. e.acted \cup ({b} \cap Operators) = e.acted
  BY <1>2
<1> QED BY <1>3, <1>4, Zenon

LEMMA QuoteInQuotes ==
  ASSUME NEW e, e.reading = "quoted"
  PROVE  Sh(Sh(Sh(Sh(e, Quote), Backslash), Quote), Quote)
           = ReaderAt("quoted", Append(e.word, Quote), e.words, e.acted)
<1>1. Sh(e, Quote) = ReaderAt("bare", e.word, e.words, e.acted)
  BY InQuotes
<1>2. Sh(ReaderAt("bare", e.word, e.words, e.acted), Backslash) = ReaderAt("escaped", e.word, e.words, e.acted)
  BY OutOfQuotes DEF OutsideDoes, ReaderAt
<1>3. Sh(ReaderAt("escaped", e.word, e.words, e.acted), Quote)
        = ReaderAt("bare", Append(e.word, Quote), e.words, e.acted)
  BY DEF Sh, Escaped, ReaderAt, Quote
<1>4. Sh(ReaderAt("bare", Append(e.word, Quote), e.words, e.acted), Quote)
        = ReaderAt("quoted", Append(e.word, Quote), e.words, e.acted)
  <2> DEFINE f == ReaderAt("bare", Append(e.word, Quote), e.words, e.acted)
  <2>1. f.reading = "bare" /\ f.word = Append(e.word, Quote) /\ f.words = e.words /\ f.acted = e.acted
    BY DEF ReaderAt
  <2> HIDE DEF f
  <2>2. OutsideDoes(f)
    BY <2>1, OutOfQuotes
  <2>3. Sh(f, Quote) = ReaderAt("quoted", f.word, f.words, f.acted)
    BY <2>2, Zenon DEF OutsideDoes
  <2> QED BY <2>1, <2>3 DEF f
<1> QED BY <1>1, <1>2, <1>3, <1>4

LEMMA WordBegins ==
  ASSUME NEW ws \in Seq(Word), NEW w \in Word, NEW s \in Seq(Char), NEW r, NEW a, NEW e,
         Reads(s, a, e), Placed(ws, "between", r, e), Heard(ws, "between", r, e)
  PROVE  /\ \E f : /\ Reads(Append(s, Quote), a, f) /\ Placed(Append(ws, w), "quoted", w.text, f)
                   /\ Heard(Append(ws, w), "quoted", w.text, f)
         /\ ~w.force /\ w.text # <<>> /\ (\A k \in DOMAIN w.text : w.text[k] \notin Blank) =>
              Placed(Append(ws, w), "bare", w.text, e) /\ Heard(Append(ws, w), "bare", w.text, e)
<1> DEFINE more == Append(ws, w)
<1>1. /\ more # <<>> /\ more[Len(more)] = w /\ Front(TextsOf(more)) = TextsOf(ws)
      /\ ~Trusting(more) => ~Trusting(ws) /\ ~Trusted(w)
      /\ ~Opening(more) => ~Opening(ws) /\ ~Opens(w)
  BY OneMore, Zenon
<1> HIDE DEF more
<1>2. /\ w.text \in Seq(Char) /\ (~w.force => w.text \in Seq(Plain)) /\ <<>> \o w.text = w.text
  <2>1. w.text \in Seq(Char) /\ (~w.force => w.text \in Seq(Plain))
    BY DEF Word
  <2> QED BY <2>1, ConcatEmptySeq
<1>3. e \in Reader /\ (~Opening(more) => e.reading \in {"between", "bare"} /\ "value|" \notin e.acted)
  BY <1>1, ReadsEnds, Zenon DEF Placed
<1>4. ASSUME ~Trusting(more)
      PROVE  e.acted = {} /\ e.reading = "between" /\ e.word = <<>> /\ e.words = Front(TextsOf(more))
             /\ ~Trusted(w)
  BY <1>1, <1>4 DEF Heard
<1>5. \E f : Reads(Append(s, Quote), a, f) /\ Placed(more, "quoted", w.text, f) /\ Heard(more, "quoted", w.text, f)
  <2> DEFINE f == Sh(e, Quote)
  <2>1. Reads(Append(s, Quote), a, f)
    BY Apart, ReadsOne
  <2>2. ~Opening(more) => f = ReaderAt("quoted", e.word, e.words, e.acted)
    BY <1>3, OutOfQuotes DEF OutsideDoes
  <2> HIDE DEF f
  <2>3. Placed(more, "quoted", w.text, f)
    BY <1>3, <2>2 DEF Placed, ReaderAt
  <2>4. Heard(more, "quoted", w.text, f)
    <3>1. ASSUME ~Trusting(more)
          PROVE  f.acted = {} /\ f.word = <<>> /\ f.words = Front(TextsOf(more))
      <4>1. f = ReaderAt("quoted", e.word, e.words, e.acted)
        BY <2>2, <3>1, TrustingIfOpening
      <4> QED BY <1>4, <3>1, <4>1 DEF ReaderAt
    <3> QED BY <1>1, <1>2, <3>1 DEF Heard
  <2> QED BY <2>1, <2>3, <2>4
<1>6. ASSUME ~w.force, w.text # <<>>, \A k \in DOMAIN w.text : w.text[k] \notin Blank
      PROVE  Placed(more, "bare", w.text, e) /\ Heard(more, "bare", w.text, e)
  <2>1. Placed(more, "bare", w.text, e)
    <3>1. ~Opening(more) => Calm(w.text) /\ w.text[1] # "#"
      BY <1>1, <1>6, CalmBegins
    <3> QED BY <1>3, <3>1 DEF Placed
  <2>2. ASSUME ~Trusting(more) PROVE w.text \in Seq(Tame)
    <3>1. \A k \in DOMAIN w.text : w.text[k] \notin Syntax \cup {Backslash}
      BY <1>4, <1>6, <2>2, Zenon DEF Trusted, ToSet
    <3>2. w.text \in Seq(Plain)
      BY <1>2, <1>6
    <3>3. \A k \in 1..Len(w.text) : w.text[k] \in Tame
      BY <1>6, <3>1, <3>2 DEF Tame, Plain
    <3> QED BY <3>2, <3>3
  <2>3. Heard(more, "bare", w.text, e)
    BY <1>1, <1>2, <1>4, <1>6, <2>2 DEF Heard
  <2> QED BY <2>1, <2>3
<1> QED BY <1>5, <1>6 DEF more

LEMMA WordGoesOn ==
  ASSUME NEW ws \in Seq(Word), NEW w \in {"quoted", "bare"}, NEW s \in Seq(Char), NEW r \in Seq(Char),
         r # <<>>, NEW a, NEW e, Reads(s, a, e), Placed(ws, w, r, e), Heard(ws, w, r, e)
  PROVE  \E f : /\ Reads(s \o (IF w = "quoted" /\ Head(r) = Quote
                               THEN <<Quote, Backslash, Quote, Quote>> ELSE <<Head(r)>>), a, f)
                /\ Placed(ws, w, Tail(r), f) /\ Heard(ws, w, Tail(r), f)
<1> DEFINE c == Head(r)
<1>1. c \in Char /\ Tail(r) \in Seq(Char)
  BY HeadTailProperties
<1>2. e \in Reader /\ e.word \in Seq(Char) /\ (~Opening(ws) => "value|" \notin e.acted)
  <2>1. e \in Reader
    BY ReadsEnds, Zenon
  <2> QED BY <2>1 DEF Placed, Reader
<1>3. Append(e.word, c) \o Tail(r) = e.word \o r
  BY <1>2, MoveOne
<1>4. s \o <<c>> = Append(s, c)
  BY <1>1
<1>5. ASSUME NEW S, r \in Seq(S) PROVE c \in S /\ Tail(r) \in Seq(S)
  BY <1>5, HeadTailProperties
<1>0. CASE Opening(ws)
  <2>1. \A f : Placed(ws, w, Tail(r), f) /\ Heard(ws, w, Tail(r), f)
    BY <1>0, NothingSaid
  <2>2. \E f : Reads(Append(s, c), a, f)
    BY <1>1, ReadsOne
  <2>3. \E f : Reads(Append(Append(Append(Append(s, Quote), Backslash), Quote), Quote), a, f)
    <3>0. /\ Append(s, Quote) \in Seq(Char) /\ Append(Append(s, Quote), Backslash) \in Seq(Char)
          /\ Append(Append(Append(s, Quote), Backslash), Quote) \in Seq(Char)
      BY Apart
    <3>1. Reads(Append(s, Quote), a, Sh(e, Quote))
      BY Apart, ReadsOne, Zenon
    <3>2. Reads(Append(Append(s, Quote), Backslash), a, Sh(Sh(e, Quote), Backslash))
      BY <3>0, <3>1, Apart, ReadsOne, Zenon
    <3>3. Reads(Append(Append(Append(s, Quote), Backslash), Quote), a, Sh(Sh(Sh(e, Quote), Backslash), Quote))
      BY <3>0, <3>2, Apart, ReadsOne, Zenon
    <3> QED BY <3>0, <3>3, Apart, ReadsOne, Zenon
  <2>4. Append(Append(Append(Append(s, Quote), Backslash), Quote), Quote)
          = s \o <<Quote, Backslash, Quote, Quote>>
    OBVIOUS
  <2>5. \E f : Reads(s \o <<Quote, Backslash, Quote, Quote>>, a, f)
    BY <2>3, <2>4, Zenon
  <2>6. \E f : Reads(s \o <<c>>, a, f)
    BY <1>4, <2>2, Zenon
  <2> QED BY <2>1, <2>5, <2>6, Zenon
<1> HIDE DEF c
<1>6. CASE w = "quoted" /\ ~Opening(ws)
  <2>1. e.reading = "quoted"
    BY <1>6 DEF Placed
  <2> DEFINE f == ReaderAt("quoted", Append(e.word, c), e.words, e.acted)
  <2>2. Placed(ws, w, Tail(r), f)
    BY <1>2, <1>6 DEF Placed, ReaderAt
  <2>3. Heard(ws, w, Tail(r), f)
    BY <1>3, <1>6 DEF Heard, ReaderAt
  <2>4. CASE c = Quote
    <3>0. /\ Append(s, Quote) \in Seq(Char) /\ Append(Append(s, Quote), Backslash) \in Seq(Char)
          /\ Append(Append(Append(s, Quote), Backslash), Quote) \in Seq(Char)
      BY Apart
    <3>1. Reads(Append(s, Quote), a, Sh(e, Quote))
      BY Apart, ReadsOne, Zenon
    <3>2. Reads(Append(Append(s, Quote), Backslash), a, Sh(Sh(e, Quote), Backslash))
      BY <3>0, <3>1, Apart, ReadsOne, Zenon
    <3>3. Reads(Append(Append(Append(s, Quote), Backslash), Quote), a, Sh(Sh(Sh(e, Quote), Backslash), Quote))
      BY <3>0, <3>2, Apart, ReadsOne, Zenon
    <3>4. Reads(Append(Append(Append(Append(s, Quote), Backslash), Quote), Quote), a,
                Sh(Sh(Sh(Sh(e, Quote), Backslash), Quote), Quote))
      BY <3>0, <3>3, Apart, ReadsOne, Zenon
    <3>5. Append(Append(Append(Append(s, Quote), Backslash), Quote), Quote)
            = s \o <<Quote, Backslash, Quote, Quote>>
      OBVIOUS
    <3>6. Sh(Sh(Sh(Sh(e, Quote), Backslash), Quote), Quote) = f
      BY <2>1, <2>4, QuoteInQuotes
    <3>7. Reads(s \o <<Quote, Backslash, Quote, Quote>>, a, f)
      BY <3>4, <3>5, <3>6, Zenon
    <3> QED BY <1>6, <2>2, <2>3, <2>4, <3>7, Zenon DEF c
  <2>5. CASE c # Quote
    <3>1. Reads(Append(s, c), a, Sh(e, c))
      BY <1>1, ReadsOne
    <3>2. Sh(e, c) = f
      BY <1>2, <2>1, <2>5, InQuotes
    <3>3. Reads(s \o <<c>>, a, f)
      BY <1>4, <3>1, <3>2, Zenon
    <3> QED BY <1>6, <2>2, <2>3, <2>5, <3>3, Zenon DEF c
  <2> QED BY <2>4, <2>5
<1>7. CASE w = "bare" /\ ~Opening(ws)
  <2> DEFINE f == Sh(e, c)
  <2>1. Reads(s \o <<c>>, a, f)
    <3>1. Reads(Append(s, c), a, Sh(e, c))
      BY <1>1, ReadsOne
    <3> QED BY <1>4, <3>1, Zenon
  <2>2. /\ Calm(Tail(r)) /\ c \in Plain /\ c \notin Blank \cup {"backquote"} /\ c = r[1]
        /\ Tail(r) # <<>> /\ Tail(r)[1] = "#" => c \notin Operators
    BY <1>7, CalmGoesOn DEF Placed, c
  <2>3. /\ c # Quote /\ c # "value|" /\ e.reading \in {"between", "bare", "escaped"}
        /\ "value|" \notin e.acted /\ (c = "#" => e.reading # "between")
    BY <1>2, <1>7, <2>2 DEF Placed, Plain
  <2>4. Placed(ws, w, Tail(r), f)
    <3>1. CASE e.reading = "escaped"
      <4>1. f = ReaderAt("bare", IF c = "newline" THEN e.word ELSE Append(e.word, c), e.words, e.acted)
        BY <3>1 DEF Sh, Escaped
      <4> QED BY <1>7, <2>2, <2>3, <4>1 DEF Placed, ReaderAt
    <3>2. CASE e.reading \in {"between", "bare"}
      <4>1. /\ f.reading \in {"between", "bare", "escaped"} /\ f.acted \subseteq e.acted \cup {c}
            /\ c \notin Operators => f.reading # "between"
        <5>1. Sh(e, c) = Unquoted(e, c)
          BY <3>2 DEF Sh
        <5> QED BY <2>2, <2>3, <3>2, <5>1 DEF Unquoted, ReaderAt
      <4> QED BY <1>7, <2>2, <2>3, <4>1 DEF Placed
    <3> QED BY <2>3, <3>1, <3>2
  <2>5. ASSUME ~Trusting(ws)
        PROVE  /\ e.acted = {} /\ ws # <<>> /\ e.words = Front(TextsOf(ws)) /\ e.word \o r = ws[Len(ws)].text
               /\ ws[Len(ws)].text # <<>> /\ Tail(r) \in Seq(Tame)
               /\ f = ReaderAt("bare", Append(e.word, c), e.words, e.acted)
    <3>1. /\ e.acted = {} /\ ws # <<>> /\ e.words = Front(TextsOf(ws)) /\ e.word \o r = ws[Len(ws)].text
          /\ ws[Len(ws)].text # <<>> /\ r \in Seq(Tame) /\ e.reading \in {"between", "bare"}
      BY <1>7, <2>5 DEF Heard
    <3>2. c \in Tame /\ Tail(r) \in Seq(Tame)
      BY <1>5, <3>1
    <3>3. c # Quote /\ c # Backslash /\ c \notin Blank /\ c \notin Syntax
      BY <3>2 DEF Tame
    <3>4. f = ReaderAt("bare", Append(e.word, c), e.words, e.acted)
      <4>2. e.reading \in {"between", "bare"}
        BY <3>1
      <4>3. c = "#" => e.reading = "bare"
        BY <2>3, <4>2
      <4>4. \A x : /\ x # Quote /\ x # Backslash /\ x \notin Blank /\ x \notin Syntax
                   /\ x = "#" => e.reading = "bare"
                   => Sh(e, x) = ReaderAt("bare", Append(e.word, x), e.words, e.acted)
        BY <4>2, OutOfQuotes DEF OutsideDoes
      <4> QED BY <3>3, <4>3, <4>4
    <3> QED BY <3>1, <3>2, <3>4
  <2>6. Append(e.word, c) # <<>>
    BY <1>1, <1>2, AppendProperties
  <2> HIDE DEF f
  <2>7. Heard(ws, w, Tail(r), f)
    <3>1. ASSUME ~Trusting(ws)
          PROVE  f.reading = "bare" /\ f.word = Append(e.word, c) /\ f.words = e.words /\ f.acted = e.acted
      BY <2>5, <3>1 DEF ReaderAt
    <3> QED BY <1>3, <1>7, <2>5, <2>6, <3>1 DEF Heard
  <2> QED BY <1>7, <2>1, <2>4, <2>7, Zenon DEF c
<1> QED BY <1>0, <1>6, <1>7

LEMMA WordEnds ==
  ASSUME NEW ws \in Seq(Word), NEW w \in {"quoted", "bare"}, NEW s \in Seq(Char), NEW b \in Blank,
         NEW a, NEW e, Reads(s, a, e), Placed(ws, w, <<>>, e), Heard(ws, w, <<>>, e)
  PROVE  \E f : /\ Reads(s \o (IF w = "quoted" THEN <<Quote>> ELSE <<>>) \o <<b>>, a, f)
                /\ Placed(ws, "between", <<>>, f) /\ Heard(ws, "between", <<>>, f)
<1>1. b \in Char /\ b # Quote /\ b # Backslash /\ b \notin Syntax
  BY Apart DEF Blank, Syntax, Operators, Quote, Backslash, Char
<1>2. e \in Reader /\ e.word \in Seq(Char) /\ (~Opening(ws) => "value|" \notin e.acted)
  <2>1. e \in Reader
    BY ReadsEnds, Zenon
  <2> QED BY <2>1 DEF Placed, Reader
<1>3. e.word \o <<>> = e.word
  BY <1>2, ConcatEmptySeq
<1>4. ASSUME ~Trusting(ws)
      PROVE  e.acted = {} /\ Append(e.words, e.word) = TextsOf(ws)
  <2>1. e.acted = {} /\ ws # <<>> /\ e.words = Front(TextsOf(ws)) /\ e.word \o <<>> = ws[Len(ws)].text
    BY <1>4 DEF Heard
  <2> QED BY <1>3, <2>1, AllTexts
<1>7. \A x : x \cup ({b} \cap Operators) = x
  BY <1>1 DEF Syntax
<1>5. CASE w = "quoted"
  <2>1. ~Opening(ws) => e.reading = "quoted"
    BY <1>5 DEF Placed
  <2> DEFINE f == Sh(Sh(e, Quote), b)
  <2>2. Reads(Append(Append(s, Quote), b), a, f)
    <3>1. Reads(Append(s, Quote), a, Sh(e, Quote)) /\ Append(s, Quote) \in Seq(Char)
      BY Apart, ReadsOne
    <3> QED BY <1>1, <3>1, ReadsOne
  <2>3. Append(Append(s, Quote), b) = s \o <<Quote>> \o <<b>>
    OBVIOUS
  <2>4. ASSUME ~Opening(ws) PROVE f = ReaderAt("between", <<>>, Append(e.words, e.word), e.acted)
    <3>1. Sh(e, Quote) = ReaderAt("bare", e.word, e.words, e.acted)
      BY <2>1, <2>4, InQuotes
    <3> DEFINE g == ReaderAt("bare", e.word, e.words, e.acted)
    <3>2. g.reading = "bare" /\ g.word = e.word /\ g.words = e.words /\ g.acted = e.acted
      BY DEF ReaderAt
    <3> HIDE DEF g
    <3>3. Sh(g, b) = ReaderAt("between", <<>>, Append(g.words, g.word), g.acted)
      BY <3>2, WordIsRead
    <3> QED BY <3>1, <3>2, <3>3 DEF g
  <2> HIDE DEF f
  <2>5. Placed(ws, "between", <<>>, f)
    BY <1>2, <2>4 DEF Placed, ReaderAt
  <2>6. Heard(ws, "between", <<>>, f)
    <3>1. ASSUME ~Trusting(ws)
          PROVE  f.reading = "between" /\ f.word = <<>> /\ f.words = TextsOf(ws) /\ f.acted = {}
      <4>1. f = ReaderAt("between", <<>>, TextsOf(ws), {})
        BY <1>4, <2>4, <3>1, TrustingIfOpening
      <4> QED BY <4>1 DEF ReaderAt
    <3> QED BY <3>1 DEF Heard
  <2> QED BY <1>5, <2>2, <2>3, <2>5, <2>6, Zenon
<1>6. CASE w = "bare"
  <2> DEFINE f == Sh(e, b)
  <2>1. Reads(Append(s, b), a, f)
    BY <1>1, ReadsOne
  <2>2. s \o <<>> \o <<b>> = Append(s, b)
    BY <1>1
  <2>3. ~Opening(ws) => e.reading \in {"between", "bare", "escaped"}
    BY <1>6 DEF Placed
  <2>4. Placed(ws, "between", <<>>, f)
    <3>1. CASE e.reading = "escaped"
      BY <1>2, <3>1 DEF Placed, Sh, Escaped, ReaderAt
    <3>2. CASE e.reading \in {"between", "bare"}
      BY <1>2, <1>7, <3>2, OutOfQuotes DEF OutsideDoes, Placed, ReaderAt
    <3> QED BY <2>3, <3>1, <3>2 DEF Placed
  <2>5. Heard(ws, "between", <<>>, f)
    <3>1. ASSUME ~Trusting(ws) PROVE e.reading = "bare"
      <4>1. e.reading \in {"between", "bare"} /\ (e.reading = "between" <=> e.word = <<>>)
            /\ ws[Len(ws)].text # <<>> /\ e.word \o <<>> = ws[Len(ws)].text
        BY <1>6, <3>1 DEF Heard
      <4> QED BY <1>3, <4>1
    <3>2. ASSUME ~Trusting(ws) PROVE f = ReaderAt("between", <<>>, Append(e.words, e.word), e.acted)
      BY <3>1, <3>2, WordIsRead
    <3> HIDE DEF f
    <3>3. ASSUME ~Trusting(ws)
          PROVE  f.reading = "between" /\ f.word = <<>> /\ f.words = TextsOf(ws) /\ f.acted = {}
      <4>1. f = ReaderAt("between", <<>>, TextsOf(ws), {})
        BY <1>4, <3>2, <3>3
      <4> QED BY <4>1 DEF ReaderAt
    <3> QED BY <3>3 DEF Heard
  <2> HIDE DEF f
  <2> QED BY <1>6, <2>1, <2>2, <2>4, <2>5, Zenon
<1> QED BY <1>5, <1>6

----------------------------------------------------------------------------
(* The writer and the reader keep it so. *)

Spoken ==
  /\ todo \in Seq(Word) /\ written \in Seq(Word) /\ rest \in Seq(Char) /\ script \in Seq(Char)
  /\ writing \in {"between", "quoted", "bare"}
  /\ todo # <<>> \/ writing # "between" => words = <<>> /\ word = <<>>
  /\ \E e : Reads(script, Now, e) /\ Placed(written, writing, rest, e) /\ Heard(written, writing, rest, e)

LEMMA BeginKeeps ==
  ASSUME Spoken, Begin
  PROVE  Spoken'
<1> DEFINE w == Head(todo)
<1>1. PICK e : Reads(script, Now, e) /\ Placed(written, "between", rest, e) /\ Heard(written, "between", rest, e)
  BY DEF Spoken, Begin
<1>2. /\ w \in Word /\ Tail(todo) \in Seq(Word) /\ todo \in Seq(Word) /\ written \in Seq(Word)
      /\ script \in Seq(Char) /\ words = <<>> /\ word = <<>>
  BY HeadTailProperties DEF Spoken, Begin
<1>3. /\ written' = Append(written, w) /\ rest' = w.text /\ todo' = Tail(todo)
      /\ words' = words /\ word' = word /\ reading' = reading /\ acted' = acted
  BY DEF Begin, UnchangedReader
<1>4. Now' = Now
  BY <1>3 DEF Now
<1>5. w.text \in Seq(Char)
  BY <1>2 DEF Word
<1> DEFINE quoted == w.force \/ w.text = <<>> \/ \E k \in DOMAIN w.text : w.text[k] \in Blank
<1>6. /\ writing' = (IF quoted THEN "quoted" ELSE "bare")
      /\ script' = (IF quoted THEN Append(script, Quote) ELSE script)
  BY DEF Begin
<1>7. script' \in Seq(Char) /\ writing' \in {"quoted", "bare"}
  BY <1>2, <1>6, Apart
<1>8. \E f : Reads(script', Now', f) /\ Placed(written', writing', rest', f) /\ Heard(written', writing', rest', f)
  <2>1. CASE quoted
    <3>1. \E f : /\ Reads(Append(script, Quote), Now, f) /\ Placed(Append(written, w), "quoted", w.text, f)
                 /\ Heard(Append(written, w), "quoted", w.text, f)
      BY <1>1, <1>2, WordBegins
    <3>2. writing' = "quoted" /\ script' = Append(script, Quote)
      BY <1>6, <2>1
    <3> QED BY <1>3, <1>4, <3>1, <3>2
  <2>2. CASE ~quoted
    <3>1. Placed(Append(written, w), "bare", w.text, e) /\ Heard(Append(written, w), "bare", w.text, e)
      BY <1>1, <1>2, <2>2, WordBegins
    <3>2. writing' = "bare" /\ script' = script
      BY <1>6, <2>2
    <3> QED BY <1>1, <1>3, <1>4, <3>1, <3>2
  <2> QED BY <2>1, <2>2
<1>9. written' \in Seq(Word)
  BY <1>2, <1>3
<1> QED BY <1>2, <1>3, <1>5, <1>7, <1>8, <1>9 DEF Spoken

LEMMA PushKeeps ==
  ASSUME Spoken, Push
  PROVE  Spoken'
<1>1. PICK e : Reads(script, Now, e) /\ Placed(written, writing, rest, e) /\ Heard(written, writing, rest, e)
  BY DEF Spoken
<1>2. /\ written \in Seq(Word) /\ rest \in Seq(Char) /\ script \in Seq(Char) /\ rest # <<>>
      /\ writing \in {"quoted", "bare"} /\ words = <<>> /\ word = <<>> /\ todo \in Seq(Word)
  BY DEF Spoken, Push
<1> DEFINE more == IF writing = "quoted" /\ Head(rest) = Quote
                   THEN <<Quote, Backslash, Quote, Quote>> ELSE <<Head(rest)>>
<1>3. /\ script' = script \o more /\ rest' = Tail(rest)
      /\ written' = written /\ writing' = writing /\ todo' = todo
      /\ words' = words /\ word' = word /\ reading' = reading /\ acted' = acted
  BY DEF Push, UnchangedReader
<1>4. Now' = Now
  BY <1>3 DEF Now
<1>5. \E f : Reads(script \o more, Now, f) /\ Placed(written, writing, Tail(rest), f) /\ Heard(written, writing, Tail(rest), f)
  BY <1>1, <1>2, WordGoesOn
<1>6. Head(rest) \in Char /\ Tail(rest) \in Seq(Char)
  BY <1>2, HeadTailProperties
<1>7. more \in Seq(Char)
  BY <1>6, Apart
<1>8. script' \in Seq(Char)
  BY <1>2, <1>3, <1>7
<1> HIDE DEF more
<1> QED BY <1>2, <1>3, <1>4, <1>5, <1>6, <1>8 DEF Spoken

LEMMA EndKeeps ==
  ASSUME Spoken, End
  PROVE  Spoken'
<1>1. PICK e : Reads(script, Now, e) /\ Placed(written, writing, <<>>, e) /\ Heard(written, writing, <<>>, e)
  BY DEF Spoken, End
<1>2. /\ written \in Seq(Word) /\ rest = <<>> /\ script \in Seq(Char)
      /\ writing \in {"quoted", "bare"} /\ words = <<>> /\ word = <<>> /\ todo \in Seq(Word)
  BY DEF Spoken, End
<1> DEFINE b == IF todo = <<>> THEN "newline" ELSE "space"
           close == IF writing = "quoted" THEN <<Quote>> ELSE <<>>
<1>3. /\ script' = script \o close \o <<b>> /\ rest' = <<>>
      /\ written' = written /\ writing' = "between" /\ todo' = todo
      /\ words' = words /\ word' = word /\ reading' = reading /\ acted' = acted
  BY <1>2 DEF End, UnchangedReader
<1>4. Now' = Now
  BY <1>3 DEF Now
<1>5. b \in Blank /\ b \in Char
  BY Apart
<1>6. \E f : /\ Reads(script \o close \o <<b>>, Now, f) /\ Placed(written, "between", <<>>, f)
             /\ Heard(written, "between", <<>>, f)
  BY <1>1, <1>2, <1>5, WordEnds
<1>7. close \in Seq(Char) /\ <<b>> \in Seq(Char)
  BY <1>5, Apart
<1>8. script' \in Seq(Char)
  BY <1>2, <1>3, <1>7
<1> HIDE DEF b, close
<1> QED BY <1>2, <1>3, <1>4, <1>6, <1>8 DEF Spoken

LEMMA ReadSteps ==
  ASSUME Read
  PROVE  Now' = Sh(Now, Head(script))
<1> DEFINE c == Head(script)
<1>1. PICK e : e = Now
  OBVIOUS
<1>2. e.reading = reading /\ e.word = word /\ e.words = words /\ e.acted = acted
  BY <1>1 DEF Now, ReaderAt
<1>3. e = ReaderAt(reading, word, words, acted)
  BY <1>1 DEF Now
<1> SUFFICES ReaderAt(reading', word', words', acted') = Sh(e, c)
  BY <1>1 DEF Now
<1>4. Read
  OBVIOUS
<1> HIDE DEF c
<1>5. CASE reading = "quoted" /\ c = Quote /\ reading' = "bare" /\ UNCHANGED <<word, words, acted>>
  BY <1>2, <1>5, InQuotes
<1>6. CASE reading = "quoted" /\ c # Quote /\ word' = Append(word, c) /\ UNCHANGED <<reading, words, acted>>
  BY <1>2, <1>6, InQuotes
<1>7. CASE /\ reading = "escaped" /\ reading' = "bare" /\ UNCHANGED <<words, acted>>
           /\ word' = (IF c = "newline" THEN word ELSE Append(word, c))
  BY <1>2, <1>7 DEF Sh, Escaped
<1>15. CASE /\ reading = "comment" /\ UNCHANGED <<word, words, acted>>
            /\ reading' = (IF c = "newline" THEN "between" ELSE "comment")
  BY <1>2, <1>15 DEF Sh, Skipped
<1>16. CASE /\ reading = "substituted" /\ UNCHANGED <<word, words, acted>>
            /\ reading' = (IF c = "backquote" THEN "bare" ELSE "substituted")
  BY <1>2, <1>16 DEF Sh, Skipped
<1>8. ASSUME reading \in {"between", "bare"} PROVE OutsideDoes(e)
  BY <1>2, <1>8, OutOfQuotes
<1>9. CASE reading \in {"between", "bare"} /\ c = Quote /\ reading' = "quoted" /\ UNCHANGED <<word, words, acted>>
  BY <1>2, <1>8, <1>9 DEF OutsideDoes
<1>10. CASE reading \in {"between", "bare"} /\ c = Backslash /\ reading' = "escaped" /\ UNCHANGED <<word, words, acted>>
  BY <1>2, <1>8, <1>10 DEF OutsideDoes
<1>11. CASE /\ reading = "bare" /\ c \in Blank \cup Operators /\ reading' = "between"
            /\ words' = Append(words, word) /\ word' = <<>> /\ acted' = acted \cup ({c} \cap Operators)
  BY <1>2, <1>8, <1>11 DEF OutsideDoes
<1>12. CASE /\ reading = "between" /\ c \in Blank \cup Operators
            /\ acted' = acted \cup ({c} \cap Operators) /\ UNCHANGED <<reading, word, words>>
  BY <1>2, <1>3, <1>8, <1>12 DEF OutsideDoes
<1>13. CASE /\ reading \in {"between", "bare"} /\ c \in Syntax \ Operators
            /\ reading' = (IF c = "backquote" THEN "substituted" ELSE "bare")
            /\ acted' = acted \cup {c} /\ UNCHANGED <<word, words>>
  BY <1>2, <1>8, <1>13 DEF OutsideDoes
<1>17. CASE reading = "between" /\ c = "#" /\ reading' = "comment" /\ UNCHANGED <<word, words, acted>>
  BY <1>2, <1>8, <1>17 DEF OutsideDoes
<1>14. CASE /\ reading \in {"between", "bare"} /\ c \notin Blank \cup Syntax \cup {Quote, Backslash}
            /\ c = "#" => reading = "bare"
            /\ reading' = "bare" /\ word' = Append(word, c) /\ UNCHANGED <<words, acted>>
  BY <1>2, <1>8, <1>14 DEF OutsideDoes
<1> QED BY <1>4, <1>5, <1>6, <1>7, <1>9, <1>10, <1>11, <1>12, <1>13, <1>14, <1>15, <1>16, <1>17 DEF Read, c

LEMMA ReadKeeps ==
  ASSUME Spoken, Read
  PROVE  Spoken'
<1>1. PICK e : Reads(script, Now, e) /\ Placed(written, writing, rest, e) /\ Heard(written, writing, rest, e)
  BY DEF Spoken
<1>2. script \in Seq(Char) /\ script # <<>>
  BY DEF Spoken, Read
<1>3. Reads(Tail(script), Sh(Now, Head(script)), e) /\ Tail(script) \in Seq(Char)
  BY <1>1, <1>2, ReadsRest
<1>4. /\ Tail(script) = script' /\ Now' = Sh(Now, Head(script))
      /\ todo' = <<>> /\ todo' = todo /\ writing' = "between" /\ writing' = writing
      /\ UNCHANGED <<written, rest>>
  BY ReadSteps DEF Read
<1> QED BY <1>1, <1>3, <1>4 DEF Spoken

----------------------------------------------------------------------------
(* What it says of ReadsBack. *)

LEMMA SpokenReadsBack ==
  ASSUME Spoken
  PROVE  ReadsBack
<1>1. PICK e : Reads(script, Now, e) /\ Placed(written, writing, rest, e) /\ Heard(written, writing, rest, e)
  BY DEF Spoken
<1>2. written \in Seq(Word) /\ script \in Seq(Char)
  BY DEF Spoken
<1>3. Now \in Reader /\ e \in Reader /\ Extends(Now, e) /\ (script = <<>> => Now = e)
  BY <1>1, <1>2, ReadsEnds
<1>4. Now.reading = reading /\ Now.word = word /\ Now.words = words /\ Now.acted = acted
  BY DEF Now, ReaderAt
<1>5. word \in Seq(Char) /\ words \in Seq(Seq(Char)) /\ acted \subseteq e.acted
  BY <1>3, <1>4 DEF Reader, Extends
<1>6. ASSUME \A k \in DOMAIN written : ~Opens(written[k]) PROVE "value|" \notin acted
  <2>1. ~Opening(written)
    BY <1>6 DEF Opening
  <2> QED BY <1>1, <1>5, <2>1 DEF Placed
<1>7. Texts = TextsOf(written)
  BY DEF Texts, TextsOf
<1>8. /\ Texts \in Seq(Seq(Char)) /\ Len(Texts) = Len(written) /\ Len(written) \in Nat
  BY <1>2, <1>7, TextsAre
<1>9. ASSUME \A k \in DOMAIN written : ~Trusted(written[k])
      PROVE  /\ acted = {}
             /\ IsPrefix(words, Texts)
             /\ Len(words) < Len(written) => IsPrefix(word, Texts[Len(words) + 1])
             /\ Len(words) = Len(written) => word = <<>>
             /\ todo = <<>> /\ writing = "between" /\ script = <<>> => words = Texts /\ reading = "between"
  <2>1. ~Trusting(written)
    BY <1>9 DEF Trusting
  <2>2. e.acted = {}
    BY <1>1, <2>1 DEF Heard
  <2>3. ASSUME writing = "between"
        PROVE  e.reading = "between" /\ e.word = <<>> /\ e.words = Texts
    BY <1>1, <1>7, <2>1, <2>3 DEF Heard
  <2>4. Starts(words, Texts) /\ (Len(words) < Len(Texts) => Starts(word, Texts[Len(words) + 1]))
          /\ (Len(words) = Len(Texts) => word = <<>>)
    <3>1. CASE writing = "between"
      <4>1. /\ Starts(words, Texts) /\ (Len(words) < Len(Texts) => Starts(word, Texts[Len(words) + 1]))
            /\ (Len(words) = Len(Texts) => Starts(word, <<>>))
        BY <1>3, <1>4, <2>3, <3>1 DEF Extends
      <4>2. Starts(word, <<>>) => word = <<>>
        BY <1>5 DEF Starts
      <4> QED BY <4>1, <4>2
    <3>2. CASE writing # "between"
      <4>1. words = <<>> /\ word = <<>>
        BY <3>2 DEF Spoken
      <4>2. Len(words) < Len(Texts) => Texts[Len(words) + 1] \in Seq(Char)
        BY <1>8, <4>1
      <4> QED BY <1>8, <4>1, <4>2 DEF Starts
    <3> QED BY <3>1, <3>2
  <2>5. IsPrefix(words, Texts)
    BY <1>5, <1>8, <2>4, StartsIsPrefix
  <2>6. Len(words) < Len(written) => IsPrefix(word, Texts[Len(words) + 1])
    <3>1. ASSUME Len(words) < Len(written) PROVE Texts[Len(words) + 1] \in Seq(Char)
      BY <1>5, <1>8, <3>1
    <3> QED BY <1>5, <1>8, <2>4, <3>1, StartsIsPrefix
  <2>7. ASSUME writing = "between", script = <<>> PROVE words = Texts /\ reading = "between"
    BY <1>3, <1>4, <2>3, <2>7
  <2> QED BY <1>5, <1>8, <2>2, <2>4, <2>5, <2>6, <2>7
<1> QED BY <1>6, <1>9 DEF ReadsBack

----------------------------------------------------------------------------
(* Places in a line. *)

\* Every set of numbers has a least one.
BelowOf == {p \in Nat \X Nat : p[1] < p[2]}

LEMMA LeastOf ==
  ASSUME NEW T, T \subseteq Nat, T # {}
  PROVE  \E m \in T : \A k \in T : m =< k
<1>1. IsWellFoundedOn(BelowOf, Nat)
  BY NatLessThanWellFounded DEF OpToRel, BelowOf
<1>2. PICK m \in T : \A k \in T : ~(<<k, m>> \in BelowOf)
  BY <1>1, WFMin
<1>3. ASSUME NEW k \in T PROVE m =< k
  <2>1. k \in Nat /\ m \in Nat
    OBVIOUS
  <2>2. k < m => <<k, m>> \in BelowOf
    BY <2>1 DEF BelowOf
  <2> QED BY <1>2, <2>1, <2>2
<1> QED BY <1>3

LEMMA LineIs ==
  ASSUME line \in Lines
  PROVE  line \in Seq(Letters) /\ Len(line) \in Nat
<1>1. line \in Seq(ToSet(line))
  BY LineAssumption
<1>2. ToSet(line) \subseteq Letters
  BY DEF Letters
<1> QED BY <1>1, <1>2, SeqMonotonic

LEMMA NoValueMark ==
  "value|" \notin Letters
  BY LineAssumption DEF Letters

LEMMA AtIs ==
  ASSUME line \in Seq(Letters), NEW k \in Nat, At(k) # "end"
  PROVE  k \in 1..Len(line) /\ At(k) = line[k] /\ At(k) \in Letters
  BY DEF At

LEMMA PastIs ==
  ASSUME line \in Seq(Letters), NEW k \in Nat \ {0}, NEW chars, "end" \notin chars
  PROVE  /\ Past(k, chars) \in Nat /\ k =< Past(k, chars) /\ At(Past(k, chars)) \notin chars
         /\ \A j \in k..(Past(k, chars) - 1) : j \in 1..Len(line) /\ line[j] \in chars
<1>0. Len(line) \in Nat
  OBVIOUS
<1> DEFINE T == {n \in Nat : k =< n /\ At(n) \notin chars}
<1>1. k + Len(line) \in T
  <2>1. At(k + Len(line)) = "end"
    BY <1>0 DEF At
  <2> QED BY <1>0, <2>1
<1>2. PICK m \in T : \A n \in T : m =< n
  BY <1>1, LeastOf
<1>3. m \in k..(k + Len(line))
  BY <1>0, <1>1, <1>2
<1>4. \A j \in k..(m - 1) : At(j) \in chars
  BY <1>2
<1>5. At(m) \notin chars
  OBVIOUS
<1>6. /\ Past(k, chars) \in k..(k + Len(line)) /\ At(Past(k, chars)) \notin chars
      /\ \A j \in k..(Past(k, chars) - 1) : At(j) \in chars
  <2> HIDE DEF T
  <2> QED BY <1>3, <1>4, <1>5 DEF Past
<1>7. ASSUME NEW j \in k..(Past(k, chars) - 1)
      PROVE  j \in 1..Len(line) /\ line[j] \in chars
  <2>1. At(j) \in chars /\ j \in Nat
    BY <1>0, <1>6
  <2> QED BY <2>1, AtIs
<1> QED BY <1>0, <1>6, <1>7

LEMMA SliceIs ==
  ASSUME NEW S, NEW s \in Seq(S), NEW C, NEW from \in Nat \ {0}, NEW to \in Nat,
         \A j \in from..to : j \in 1..Len(s) /\ s[j] \in C
  PROVE  SubSeq(s, from, to) \in Seq(C)
<1>1. CASE from =< to
  <2>1. from \in 1..Len(s) /\ to \in 1..Len(s)
    BY <1>1
  <2>2. /\ SubSeq(s, from, to) \in Seq(S) /\ Len(SubSeq(s, from, to)) = to - from + 1
        /\ \A i \in 1..(to - from + 1) : SubSeq(s, from, to)[i] = s[from + i - 1]
    BY <1>1, <2>1
  <2>3. ASSUME NEW i \in 1..(to - from + 1) PROVE SubSeq(s, from, to)[i] \in C
    <3>1. from + i - 1 \in from..to
      OBVIOUS
    <3> QED BY <2>2, <3>1
  <2> QED BY <2>2, <2>3
<1>2. CASE ~(from =< to)
  BY <1>2
<1> QED BY <1>1, <1>2

LEMMA RefIs ==
  ASSUME line \in Seq(Letters), NEW k \in Nat \ {0}, NEW n \in Ref(k)
  PROVE  n \in Nat /\ k < n /\ n =< Len(line) + 1
<1>0. Len(line) \in Nat
  OBVIOUS
<1>1. CASE At(k) = "$"
  <2>1. k \in 1..Len(line)
    BY <1>1, AtIs
  <2> DEFINE T == {d \in Nat : d =< Len(line) - k /\ Dotted(k + 1, Len(line) + 1 - d)}
  <2>2. Len(line) - k \in T
    <3>1. Dotted(k + 1, k + 1)
      BY <2>1 DEF Dotted
    <3> QED BY <1>0, <2>1, <3>1
  <2>3. PICK d \in T : \A x \in T : d =< x
    BY <2>2, LeastOf
  <2> DEFINE top == Len(line) + 1 - d
  <2>4. top \in (k + 1)..(Len(line) + 1) /\ Dotted(k + 1, top)
    BY <1>0, <2>1
  <2>5. ASSUME NEW m \in (top + 1)..(Len(line) + 1) PROVE ~Dotted(k + 1, m)
    <3>1. Len(line) + 1 - m \in Nat /\ Len(line) + 1 - m =< Len(line) - k /\ Len(line) + 1 - m < d
          /\ Len(line) + 1 - (Len(line) + 1 - m) = m
      BY <1>0, <2>1, <2>4
    <3>2. Len(line) + 1 - m \notin T
      <4>1. d \in Nat
        OBVIOUS
      <4> HIDE DEF T
      <4> QED BY <2>3, <3>1, <4>1
    <3> QED BY <3>1, <3>2
  <2> HIDE DEF T, top
  <2>6. Ref(k) = {CHOOSE x \in (k + 1)..(Len(line) + 1) :
                    /\ Dotted(k + 1, x)
                    /\ \A m \in (x + 1)..(Len(line) + 1) : ~Dotted(k + 1, m)}
    BY <1>1 DEF Ref, Sigil
  <2>7. n \in (k + 1)..(Len(line) + 1)
    BY <2>4, <2>5, <2>6
  <2> QED BY <1>0, <2>1, <2>7
<1>2. CASE At(k) # "$" /\ At(k) \in Sigil
  <2>1. n = Past(k + 1, Name) /\ n > k + 1
    BY <1>2 DEF Ref, Sigil
  <2>2. /\ Past(k + 1, Name) \in Nat
        /\ \A j \in (k + 1)..(Past(k + 1, Name) - 1) : j \in 1..Len(line) /\ line[j] \in Name
    <3>1. "end" \notin Name /\ k + 1 \in Nat \ {0}
      BY DEF Name
    <3> QED BY <3>1, PastIs
  <2>3. n - 1 \in 1..Len(line)
    BY <2>1, <2>2
  <2> QED BY <1>0, <2>1, <2>2, <2>3
<1>3. CASE At(k) # "$" /\ At(k) \notin Sigil
  BY <1>3 DEF Ref
<1> QED BY <1>1, <1>2, <1>3

----------------------------------------------------------------------------
(* What the parser makes of a line. *)

PartOf(chars) == {p \in [ref : BOOLEAN, text : Seq(Letters)] : p.ref \/ p.text \in Seq(chars)}
Loose == Letters \ {Quote}

\* A quote character comes into a piece by an author's quotes alone.
PieceOf ==
  {p \in [parts : Seq(PartOf(Letters)), force : BOOLEAN] : p.force \/ p.parts \in Seq(PartOf(Loose))}
TokenOf == [group : BOOLEAN, pieces : Seq(PieceOf)]
StageOf == [source : BOOLEAN, tokens : Seq(TokenOf)]

Parsed ==
  /\ line \in Lines /\ at \in Nat \ {0}
  /\ piece \subseteq PieceOf /\ pieces \in Seq(PieceOf)
  /\ tokens \in Seq(TokenOf) /\ stages \in Seq(StageOf)
  /\ open # "none" => piece # {} /\ \A p \in piece : p.force

LEMMA MergedIs ==
  ASSUME NEW C, NEW parts \in Seq(PartOf(C)), NEW p \in PartOf(C)
  PROVE  Merged(parts, p) \in Seq(PartOf(C))
<1>1. CASE ~p.ref /\ parts # <<>> /\ ~Last(parts).ref
  <2>1. Len(parts) \in Nat \ {0} /\ Last(parts) \in PartOf(C)
    BY <1>1 DEF Last
  <2>2. p.text \in Seq(C) /\ p.text \in Seq(Letters) /\ Last(parts).text \in Seq(C) /\ Last(parts).text \in Seq(Letters)
    BY <1>1, <2>1 DEF PartOf
  <2>3. Last(parts).text \o p.text \in Seq(C) /\ Last(parts).text \o p.text \in Seq(Letters)
    BY <2>2
  <2>4. Literal(Last(parts).text \o p.text) \in PartOf(C)
    BY <2>3 DEF Literal, PartOf
  <2>5. Front(parts) \in Seq(PartOf(C))
    BY <2>1 DEF Front
  <2>6. Append(Front(parts), Literal(Last(parts).text \o p.text)) \in Seq(PartOf(C))
    BY <2>4, <2>5
  <2> QED BY <1>1, <2>6 DEF Merged
<1>2. CASE ~(~p.ref /\ parts # <<>> /\ ~Last(parts).ref)
  BY <1>2 DEF Merged
<1> QED BY <1>1, <1>2

LEMMA BegunIs ==
  ASSUME Parsed
  PROVE  Begun \in PieceOf /\ (open # "none" => Begun.force)
<1>1. CASE piece = {}
  <2>1. Begun = [parts |-> <<>>, force |-> FALSE]
    BY <1>1 DEF Begun
  <2>2. <<>> \in Seq(PartOf(Letters)) /\ <<>> \in Seq(PartOf(Loose))
    OBVIOUS
  <2>3. Begun \in PieceOf
    BY <2>1, <2>2 DEF PieceOf
  <2>4. open = "none"
    BY <1>1 DEF Parsed
  <2> QED BY <2>3, <2>4
<1>2. CASE piece # {}
  <2>1. Begun \in piece
    BY <1>2 DEF Begun
  <2> QED BY <2>1 DEF Parsed
<1> QED BY <1>1, <1>2

LEMMA AddKeeps ==
  ASSUME Parsed, NEW part, NEW n \in Nat \ {0}, Add(part, n), part \in PartOf(Letters),
         open # "none" \/ part \in PartOf(Loose)
  PROVE  Parsed'
<1> DEFINE more == [parts |-> Merged(Begun.parts, part), force |-> Begun.force]
<1>1. Begun \in PieceOf /\ (open # "none" => Begun.force)
  BY BegunIs
<1>2. /\ Begun.parts \in Seq(PartOf(Letters)) /\ Begun.force \in BOOLEAN
      /\ ~Begun.force => Begun.parts \in Seq(PartOf(Loose))
  BY <1>1 DEF PieceOf
<1>3. Merged(Begun.parts, part) \in Seq(PartOf(Letters))
  BY <1>2, MergedIs
<1>4. ASSUME ~Begun.force PROVE Merged(Begun.parts, part) \in Seq(PartOf(Loose))
  BY <1>1, <1>2, <1>4, MergedIs
<1>5. more \in PieceOf
  BY <1>2, <1>3, <1>4 DEF PieceOf
<1>6. /\ piece' = {more} /\ at' = n /\ line' = line /\ open' = open /\ pieces' = pieces
      /\ tokens' = tokens /\ stages' = stages
  BY DEF Add
<1>7. open # "none" => more.force
  BY <1>1
<1> HIDE DEF more
<1> QED BY <1>5, <1>6, <1>7 DEF Parsed

LEMMA LiteralIs ==
  ASSUME NEW C, C \subseteq Letters, NEW text \in Seq(C)
  PROVE  Literal(text) \in PartOf(C) /\ Literal(text) \in PartOf(Letters)
<1>1. text \in Seq(Letters)
  OBVIOUS
<1> QED BY <1>1 DEF Literal, PartOf

LEMMA RefPartIs ==
  ASSUME line \in Seq(Letters), NEW from \in Nat \ {0}, NEW to \in Nat, to =< Len(line) + 1
  PROVE  \A C : RefPart(from, to) \in PartOf(C)
<1>0. Len(line) \in Nat
  OBVIOUS
<1>1. CASE from =< to - 1
  <2>1. to - 1 \in Nat /\ \A j \in from..(to - 1) : j \in 1..Len(line) /\ line[j] \in Letters
    BY <1>0, <1>1
  <2>2. SubSeq(line, from, to - 1) \in Seq(Letters)
    BY <2>1, SliceIs
  <2> QED BY <2>2 DEF RefPart, PartOf
<1>2. CASE ~(from =< to - 1)
  <2>1. SubSeq(line, from, to - 1) \in Seq(Letters)
    BY <1>2
  <2> QED BY <2>1 DEF RefPart, PartOf
<1> QED BY <1>1, <1>2

LEMMA InterpIs ==
  ASSUME line \in Seq(Letters), NEW k \in Nat \ {0}, NEW i \in Interp(k)
  PROVE  i.from \in Nat \ {0} /\ i.to \in Nat /\ i.to =< Len(line) + 1 /\ i.end \in Nat \ {0}
<1> DEFINE start == Past(k + 1, Hws)
<1>0. "end" \notin Hws
  BY DEF Hws
<1>1. start \in Nat \ {0}
  <2>1. k + 1 \in Nat \ {0}
    OBVIOUS
  <2> QED BY <1>0, <2>1, PastIs
<1> HIDE DEF start
<1>2. PICK n \in Ref(start) : i = [from |-> start, to |-> n, end |-> Past(n, Hws) + 1]
  BY DEF Interp, start
<1>3. n \in Nat \ {0} /\ n =< Len(line) + 1
  BY <1>1, RefIs
<1>4. Past(n, Hws) \in Nat
  BY <1>0, <1>3, PastIs
<1> QED BY <1>1, <1>2, <1>3, <1>4

LEMMA BareIs ==
  /\ "end" \notin Bare /\ Quote \notin Bare /\ Bare \subseteq ToSet(line)
  /\ "end" \notin Hws
<1>1. Bare = Chars \ PieceSpecial \/ Bare = Chars \ Special
  BY DEF Bare
<1>2. "end" \in Special /\ Quote \in Special
  BY DEF Special, Quotes
<1>3. Special \subseteq PieceSpecial
  BY DEF PieceSpecial
<1> QED BY <1>1, <1>2, <1>3 DEF Chars, Hws

LEMMA EndStageKeeps ==
  ASSUME Parsed, NEW stage \in StageOf, NEW n \in Nat, EndStage(stage, n),
         line' = line, open' = open, piece' = piece, pieces' = pieces, tokens' = tokens
  PROVE  Parsed'
<1>1. stages' = Append(stages, stage) /\ at' = n + 1
  BY DEF EndStage
<1>2. stages' \in Seq(StageOf) /\ at' \in Nat \ {0}
  BY <1>1 DEF Parsed
<1> QED BY <1>2 DEF Parsed

LEMMA ParseKeeps ==
  ASSUME Parsed, Parse
  PROVE  Parsed'
<1>1. line \in Seq(Letters) /\ Len(line) \in Nat
  BY LineIs DEF Parsed
<1>2. "end" \notin Hws
  BY DEF Hws
<1>3. ASSUME NEW k \in Nat \ {0} PROVE Past(k, Hws) \in Nat \ {0}
  BY <1>1, <1>2, PastIs
<1>4. at \in Nat \ {0} /\ at + 1 \in Nat \ {0}
  BY DEF Parsed
<1>5. CASE Source
  <2>1. PICK n \in SourceEnd : EndStage([source |-> TRUE, tokens |-> <<>>], n)
    BY <1>5 DEF Source
  <2>2. PICK m \in Ref(Past(at, Hws)) : n = Past(m, Hws)
    BY DEF SourceEnd
  <2>3. m \in Nat \ {0}
    BY <1>1, <1>3, <1>4, RefIs
  <2>4. n \in Nat
    BY <1>3, <2>2, <2>3
  <2>5. [source |-> TRUE, tokens |-> <<>>] \in StageOf
    BY DEF StageOf
  <2>6. line' = line /\ open' = open /\ piece' = piece /\ pieces' = pieces /\ tokens' = tokens
    BY <1>5 DEF Source
  <2> HIDE DEF Parsed
  <2> QED BY <2>1, <2>4, <2>5, <2>6, EndStageKeeps
<1>6. CASE Command
  <2>1. Past(at, Hws) \in Nat \ {0}
    BY <1>3, <1>4
  <2> QED BY <1>6, <2>1 DEF Command, Parsed
<1>7. CASE OpenGroup
  <2>1. Past(at + 1, Hws) \in Nat \ {0}
    BY <1>3, <1>4
  <2> QED BY <1>7, <2>1 DEF OpenGroup, Parsed
<1>8. CASE TakeBare
  <2> DEFINE n == Past(at, Bare)
  <2>1. /\ n \in Nat /\ at =< n /\ At(n) \notin Bare
        /\ \A j \in at..(n - 1) : j \in 1..Len(line) /\ line[j] \in Bare
    BY <1>1, <1>4, BareIs, PastIs
  <2>2. At(at) \in Bare /\ Add(Literal(SubSeq(line, at, n - 1)), n)
    BY <1>8 DEF TakeBare
  <2>3. n # at
    BY <2>1, <2>2
  <2> HIDE DEF n
  <2>4. n - 1 \in Nat /\ n \in Nat \ {0}
    BY <1>4, <2>1, <2>3
  <2>5. \A j \in at..(n - 1) : line[j] \in Loose
    <3>1. ASSUME NEW j \in at..(n - 1) PROVE line[j] \in Loose
      <4>1. j \in 1..Len(line) /\ line[j] \in Bare
        BY <2>1
      <4>2. line[j] \in Letters /\ line[j] # Quote
        BY <1>1, <4>1, BareIs
      <4> QED BY <4>2 DEF Loose
    <3> QED BY <3>1
  <2>6. SubSeq(line, at, n - 1) \in Seq(Loose)
    BY <1>1, <1>4, <2>1, <2>4, <2>5, SliceIs
  <2>7. Literal(SubSeq(line, at, n - 1)) \in PartOf(Loose) /\ Literal(SubSeq(line, at, n - 1)) \in PartOf(Letters)
    <3>1. Loose \subseteq Letters
      BY DEF Loose
    <3> QED BY <2>6, <3>1, LiteralIs
  <2> QED BY <2>2, <2>4, <2>7, AddKeeps
<1>9. CASE TakeRef
  <2>1. PICK n \in Ref(at) : Add(RefPart(at, n), n)
    BY <1>9 DEF TakeRef
  <2>2. n \in Nat \ {0} /\ n =< Len(line) + 1
    BY <1>1, <1>4, RefIs
  <2>3. RefPart(at, n) \in PartOf(Letters) /\ RefPart(at, n) \in PartOf(Loose)
    BY <1>1, <1>4, <2>2, RefPartIs
  <2> QED BY <2>1, <2>2, <2>3, AddKeeps
<1>10. CASE OpenQuote
  <2> DEFINE p == [parts |-> Begun.parts, force |-> TRUE]
  <2>1. Begun.parts \in Seq(PartOf(Letters))
    BY BegunIs DEF PieceOf
  <2>2. p \in PieceOf /\ p.force
    BY <2>1 DEF PieceOf
  <2> HIDE DEF p
  <2>3. /\ piece' = {p} /\ at' = at + 1
        /\ line' = line /\ pieces' = pieces /\ tokens' = tokens /\ stages' = stages
    BY <1>10 DEF OpenQuote, p
  <2> QED BY <1>4, <2>2, <2>3 DEF Parsed
<1>11. CASE TakeQuoted
  <2>1. CASE \E i \in Interp(at) : Add(RefPart(i.from, i.to), i.end)
    <3>1. PICK i \in Interp(at) : Add(RefPart(i.from, i.to), i.end)
      BY <2>1
    <3>2. i.from \in Nat \ {0} /\ i.to \in Nat /\ i.to =< Len(line) + 1 /\ i.end \in Nat \ {0}
      BY <1>1, <1>4, InterpIs
    <3>3. RefPart(i.from, i.to) \in PartOf(Letters) /\ RefPart(i.from, i.to) \in PartOf(Loose)
      BY <1>1, <3>2, RefPartIs
    <3> QED BY <3>1, <3>2, <3>3, AddKeeps
  <2>2. ASSUME NEW k \in Nat \ {0}, NEW n \in Nat \ {0}, At(k) # "end", open # "none",
               Add(Literal(<<At(k)>>), n)
        PROVE  Parsed'
    <3>1. At(k) \in Letters
      BY <1>1, <2>2, AtIs
    <3>2. <<At(k)>> \in Seq(Letters)
      BY <3>1
    <3>3. Literal(<<At(k)>>) \in PartOf(Letters)
      BY <3>2, LiteralIs
    <3> QED BY <2>2, <3>3, AddKeeps
  <2>3. at + 2 \in Nat \ {0}
    BY <1>4
  <2>4. CASE At(at) = Backslash /\ At(at + 1) # "end" /\ Add(Literal(<<At(at + 1)>>), at + 2)
    BY <1>4, <1>11, <2>2, <2>3, <2>4 DEF TakeQuoted
  <2>5. CASE At(at) \notin {open, Backslash, Lbrace, "end"} /\ Add(Literal(<<At(at)>>), at + 1)
    BY <1>4, <1>11, <2>2, <2>5 DEF TakeQuoted
  <2> QED BY <1>11, <2>1, <2>4, <2>5 DEF TakeQuoted
<1>12. CASE CloseQuote
  BY <1>4, <1>12 DEF CloseQuote, Parsed
<1>13. CASE EndPiece
  <2>1. Past(at, Hws) \in Nat \ {0}
    BY <1>3, <1>4
  <2>2. Begun \in PieceOf /\ pieces \in Seq(PieceOf) /\ tokens \in Seq(TokenOf)
    BY BegunIs DEF Parsed
  <2>3. Append(pieces, Begun) \in Seq(PieceOf)
    BY <2>2
  <2>4. [group |-> FALSE, pieces |-> <<Begun>>] \in TokenOf
    BY <2>2 DEF TokenOf
  <2>5. Append(tokens, [group |-> FALSE, pieces |-> <<Begun>>]) \in Seq(TokenOf)
    BY <2>2, <2>4
  <2>6. /\ pieces' \in {pieces, Append(pieces, Begun)}
        /\ tokens' \in {tokens, Append(tokens, [group |-> FALSE, pieces |-> <<Begun>>])}
        /\ piece' = {} /\ at' = Past(at, Hws) /\ line' = line /\ open' = "none" /\ stages' = stages
    BY <1>13 DEF EndPiece
  <2> QED BY <2>1, <2>2, <2>3, <2>5, <2>6 DEF Parsed
<1>14. CASE CloseGroup
  <2>1. Past(at + 1, Hws) \in Nat \ {0}
    BY <1>3, <1>4
  <2>2. [group |-> TRUE, pieces |-> pieces] \in TokenOf
    BY DEF TokenOf, Parsed
  <2>3. Append(tokens, [group |-> TRUE, pieces |-> pieces]) \in Seq(TokenOf)
    BY <2>2 DEF Parsed
  <2> QED BY <1>14, <2>1, <2>3 DEF CloseGroup, Parsed
<1>15. CASE CommandEnds
  <2>1. EndStage([source |-> FALSE, tokens |-> tokens], at)
    BY <1>15 DEF CommandEnds
  <2>2. [source |-> FALSE, tokens |-> tokens] \in StageOf
    BY DEF StageOf, Parsed
  <2>3. line' = line /\ open' = open /\ piece' = piece /\ pieces' = pieces /\ tokens' = tokens
    BY <1>15 DEF CommandEnds
  <2> QED BY <1>4, <2>1, <2>2, <2>3, EndStageKeeps
<1>16. CASE Reject
  BY <1>16 DEF Reject, Parsed
<1> QED BY <1>5, <1>6, <1>7, <1>8, <1>9, <1>10, <1>11, <1>12, <1>13, <1>14, <1>15, <1>16 DEF Parse

----------------------------------------------------------------------------
(* What the renderer makes of what was parsed. *)

Flattens(seqs, n, f) ==
  f = [i \in 1..n |-> IF i = 1 THEN seqs[i] ELSE f[i - 1] \o seqs[i]]

LEMMA FlattenEnds ==
  ASSUME NEW seqs
  PROVE  \A n \in Nat : \E f : Flattens(seqs, n, f)
<1> SUFFICES ASSUME NEW b \in Nat, ~\E f : Flattens(seqs, b, f)
             PROVE  FALSE
  OBVIOUS
<1> DEFINE T == {n \in Nat : ~\E f : Flattens(seqs, n, f)}
<1>1. PICK m \in T : \A k \in T : m =< k
  <2>1. b \in T
    OBVIOUS
  <2> QED BY <2>1, LeastOf
<1>2. m # 0
  <2>1. Flattens(seqs, 0, [i \in 1..0 |-> <<>>])
    BY DEF Flattens
  <2> QED BY <2>1
<1>3. m \in Nat /\ m - 1 \in Nat
  BY <1>2
<1>4. PICK f : Flattens(seqs, m - 1, f)
  BY <1>1, <1>3
<1> DEFINE g == [i \in 1..m |-> IF i = m THEN (IF m = 1 THEN seqs[m] ELSE f[m - 1] \o seqs[m]) ELSE f[i]]
<1>5. ASSUME NEW i \in 1..m PROVE g[i] = IF i = 1 THEN seqs[i] ELSE g[i - 1] \o seqs[i]
  <2>1. CASE i = m
    <3>1. m # 1 => m - 1 \in 1..m /\ m - 1 # m
      BY <1>3
    <3>2. m # 1 => g[m - 1] = f[m - 1]
      BY <3>1
    <3>3. g[m] = IF m = 1 THEN seqs[m] ELSE f[m - 1] \o seqs[m]
      BY <1>3, <2>1
    <3> HIDE DEF g
    <3> QED BY <2>1, <3>2, <3>3
  <2>2. CASE i # m
    <3>1. i \in 1..(m - 1) /\ g[i] = f[i]
      BY <1>3, <2>2
    <3>2. f[i] = IF i = 1 THEN seqs[i] ELSE f[i - 1] \o seqs[i]
      BY <1>4, <3>1 DEF Flattens
    <3>3. i # 1 => i - 1 \in 1..m /\ i - 1 # m
      BY <1>3, <3>1
    <3>4. i # 1 => g[i - 1] = f[i - 1]
      BY <3>3
    <3> HIDE DEF g
    <3> QED BY <3>1, <3>2, <3>4
  <2> QED BY <2>1, <2>2
<1>6. Flattens(seqs, m, g)
  <2>1. g = [i \in 1..m |-> g[i]]
    OBVIOUS
  <2> HIDE DEF g
  <2> QED BY <1>5, <2>1 DEF Flattens
<1> HIDE DEF g
<1> QED BY <1>1, <1>6

\* The sequences of a sequence, one after the other, hold nothing new.
LEMMA FlattenIs ==
  ASSUME NEW S, NEW seqs \in Seq(Seq(S))
  PROVE  FlattenSeq(seqs) \in Seq(S)
<1>1. Len(seqs) \in Nat
  OBVIOUS
<1>2. CASE Len(seqs) = 0
  BY <1>2 DEF FlattenSeq
<1>3. CASE Len(seqs) # 0
  <2> DEFINE n == Len(seqs)
             f == CHOOSE f : Flattens(seqs, n, f)
  <2>1. Flattens(seqs, n, f)
    BY <1>1, FlattenEnds
  <2>2. FlattenSeq(seqs) = f[n]
    BY <1>3 DEF FlattenSeq, Flattens
  <2> HIDE DEF f
  <2>3. ASSUME f[n] \notin Seq(S) PROVE FALSE
    <3> DEFINE T == {i \in 1..n : f[i] \notin Seq(S)}
    <3>1. n \in T /\ T \subseteq Nat
      BY <1>1, <1>3, <2>3
    <3>2. PICK m \in T : \A k \in T : m =< k
      BY <3>1, LeastOf
    <3>3. f[m] = IF m = 1 THEN seqs[m] ELSE f[m - 1] \o seqs[m]
      BY <2>1 DEF Flattens
    <3>4. seqs[m] \in Seq(S) /\ m \in 1..n /\ f[m] \notin Seq(S)
      OBVIOUS
    <3>5. m # 1
      BY <3>3, <3>4
    <3>6. m - 1 \in 1..n /\ m - 1 < m
      BY <1>1, <3>4, <3>5
    <3>7. m - 1 \notin T
      BY <3>2, <3>4, <3>6
    <3>8. f[m - 1] \in Seq(S)
      BY <3>6, <3>7
    <3> QED BY <3>3, <3>4, <3>5, <3>8
  <2> QED BY <2>2, <2>3
<1> QED BY <1>2, <1>3

LEMMA SequenceOf ==
  ASSUME NEW S, NEW n \in Nat, NEW f, f = [i \in 1..n |-> f[i]], \A i \in 1..n : f[i] \in S
  PROVE  f \in Seq(S)
  OBVIOUS

\* A value's text, or none.
LEMMA ValueIs ==
  ASSUME NEW v \in Values
  PROVE  FlattenSeq(SetToSeq(v)) \in Seq(Char)
<1>1. SetToSeq(v) \in Seq(Seq(Char))
  <2>1. CASE v = {}
    <3>1. Cardinality(v) = 0
      BY <2>1, FS_EmptySet
    <3> DEFINE f == [i \in 1..0 |-> i]
    <3>2. f \in [1..Cardinality(v) -> v] /\ IsInjective(f)
      BY <3>1 DEF IsInjective
    <3> HIDE DEF f
    <3>3. SetToSeq(v) \in [1..Cardinality(v) -> v]
      BY <3>2 DEF SetToSeq
    <3>4. SetToSeq(v) \in [1..0 -> Seq(Char)]
      BY <2>1, <3>1, <3>3
    <3> QED BY <3>4
  <2>2. CASE v # {}
    <3>1. PICK text \in v : TRUE
      BY <2>2
    <3>2. v = {text} /\ text \in Seq(ToSet(text))
      BY LineAssumption
    <3>3. Cardinality(v) = 1
      BY <3>2, FS_Singleton
    <3> DEFINE f == [i \in 1..1 |-> text]
    <3>4. f \in [1..Cardinality(v) -> v] /\ IsInjective(f)
      BY <3>2, <3>3 DEF IsInjective
    <3> HIDE DEF f
    <3>5. SetToSeq(v) \in [1..Cardinality(v) -> v]
      BY <3>4 DEF SetToSeq
    <3>6. ToSet(text) \subseteq Char
      BY <3>1 DEF Char, Said
    <3>7. text \in Seq(Char)
      BY <3>2, <3>6, SeqMonotonic
    <3> DEFINE q == SetToSeq(v)
    <3>8. q \in [1..1 -> Seq(Char)]
      BY <3>2, <3>3, <3>5, <3>7
    <3> HIDE DEF q
    <3>9. q \in Seq(Seq(Char))
      BY <3>8, SequenceOf
    <3> QED BY <3>9 DEF q
  <2> QED BY <2>1, <2>2
<1> QED BY <1>1, FlattenIs

LEMMA ShellTextIs ==
  ASSUME NEW p \in PieceOf, \A r \in Refs(p) : given'[r] \in Values
  PROVE  ShellText(p) \in Word
<1> DEFINE texts == [k \in DOMAIN p.parts |-> PartText(p.parts[k])]
<1>1. p.parts \in Seq(PartOf(Letters)) /\ p.force \in BOOLEAN
  BY DEF PieceOf
<1>2. ASSUME NEW k \in DOMAIN p.parts PROVE PartText(p.parts[k]) \in Seq(Char)
  <2>1. p.parts[k] \in PartOf(Letters)
    BY <1>1
  <2>2. CASE p.parts[k].ref
    <3>1. p.parts[k].text \in Refs(p)
      BY <2>2 DEF Refs
    <3>2. given'[p.parts[k].text] \in Values
      BY <3>1
    <3>3. FlattenSeq(SetToSeq(given'[p.parts[k].text])) \in Seq(Char)
      BY <3>2, ValueIs
    <3> QED BY <2>2, <3>3 DEF PartText
  <2>3. CASE ~p.parts[k].ref
    <3>1. p.parts[k].text \in Seq(Letters)
      BY <2>1 DEF PartOf
    <3>2. Letters \subseteq Char
      BY DEF Char
    <3>3. p.parts[k].text \in Seq(Char)
      BY <3>1, <3>2, SeqMonotonic
    <3> QED BY <2>3, <3>3 DEF PartText
  <2> QED BY <2>2, <2>3
<1>3. DOMAIN texts = 1..Len(p.parts) /\ DOMAIN p.parts = 1..Len(p.parts) /\ Len(p.parts) \in Nat
  BY <1>1
<1>4. texts \in Seq(Seq(Char))
  <2>1. \A k \in 1..Len(p.parts) : texts[k] \in Seq(Char)
    BY <1>2, <1>3
  <2>2. texts = [k \in 1..Len(p.parts) |-> texts[k]]
    BY <1>3
  <2> HIDE DEF texts
  <2> QED BY <1>3, <2>1, <2>2, SequenceOf
<1>5. FlattenSeq(texts) \in Seq(Char)
  BY <1>4, FlattenIs
<1>6. ASSUME ~p.force, Refs(p) = {} PROVE FlattenSeq(texts) \in Seq(Plain)
  <2>1. p.parts \in Seq(PartOf(Loose))
    BY <1>6 DEF PieceOf
  <2>2. Loose \subseteq Plain
    BY NoValueMark DEF Loose, Plain, Char
  <2>3. ASSUME NEW k \in 1..Len(p.parts) PROVE texts[k] \in Seq(Plain)
    <3>1. p.parts[k] \in PartOf(Loose) /\ k \in DOMAIN p.parts
      BY <1>3, <2>1
    <3>2. ~p.parts[k].ref
      BY <1>6, <3>1 DEF Refs
    <3>3. p.parts[k].text \in Seq(Loose)
      BY <3>1, <3>2 DEF PartOf
    <3>4. p.parts[k].text \in Seq(Plain)
      BY <2>2, <3>3, SeqMonotonic
    <3> QED BY <3>1, <3>2, <3>4 DEF PartText
  <2>4. texts \in Seq(Seq(Plain))
    <3>1. texts = [k \in 1..Len(p.parts) |-> texts[k]]
      BY <1>3
    <3> HIDE DEF texts
    <3> QED BY <1>3, <2>3, <3>1, SequenceOf
  <2> QED BY <2>4, FlattenIs
<1>7. ShellText(p) = [text |-> FlattenSeq(texts), force |-> p.force \/ Refs(p) # {}]
  BY DEF ShellText
<1>8. (p.force \/ Refs(p) # {}) \in BOOLEAN
  BY <1>1
<1> DEFINE w == [text |-> FlattenSeq(texts), force |-> p.force \/ Refs(p) # {}]
<1> HIDE DEF texts
<1>9. w \in [text : Seq(Char), force : BOOLEAN] /\ (~w.force => w.text \in Seq(Plain))
  BY <1>5, <1>6, <1>8
<1> HIDE DEF w
<1>10. w \in Word
  BY <1>9 DEF Word
<1> QED BY <1>7, <1>10 DEF w

LEMMA RenderWrites ==
  ASSUME Parsed, Render
  PROVE  todo' \in Seq(Word)
<1>1. PICK k \in DOMAIN stages :
        /\ given' \in [StageRefs(stages[k]) -> Values]
        /\ todo' = FlattenSeq([j \in DOMAIN stages[k].tokens |-> TokenWords(stages[k].tokens[j])])
  BY DEF Render
<1> DEFINE ts == stages[k].tokens
           ws == [j \in DOMAIN ts |-> TokenWords(ts[j])]
<1>2. ts \in Seq(TokenOf)
  <2>1. stages[k] \in StageOf
    BY DEF Parsed
  <2> QED BY <2>1 DEF StageOf
<1>3. DOMAIN ts = 1..Len(ts) /\ Len(ts) \in Nat
  BY <1>2
<1>4. ASSUME NEW j \in 1..Len(ts) PROVE TokenWords(ts[j]) \in Seq(Word)
  <2> DEFINE token == ts[j]
             shell == [m \in DOMAIN token.pieces |-> ShellText(token.pieces[m])]
  <2>1. token \in TokenOf /\ token \in ToSet(ts)
    BY <1>2, <1>3 DEF ToSet
  <2>2. token.pieces \in Seq(PieceOf)
    BY <2>1 DEF TokenOf
  <2>3. ASSUME NEW m \in DOMAIN token.pieces PROVE ShellText(token.pieces[m]) \in Word
    <3>1. Refs(token.pieces[m]) \subseteq StageRefs(stages[k])
      BY <2>1 DEF StageRefs
    <3>2. \A r \in Refs(token.pieces[m]) : given'[r] \in Values
      BY <1>1, <3>1
    <3>3. token.pieces[m] \in PieceOf
      BY <2>2
    <3> QED BY <3>2, <3>3, ShellTextIs
  <2>4. shell \in Seq(Word)
    BY <2>2, <2>3
  <2>5. TokenWords(token) \in {<<>>, shell}
    BY DEF TokenWords
  <2> HIDE DEF shell
  <2>6. <<>> \in Seq(Word)
    OBVIOUS
  <2> QED BY <2>4, <2>5, <2>6
<1>5. ws \in Seq(Seq(Word))
  BY <1>3, <1>4
<1>6. FlattenSeq(ws) \in Seq(Word)
  BY <1>5, FlattenIs
<1> QED BY <1>1, <1>6

----------------------------------------------------------------------------
(* The whole line. *)

\* Until the words are given nothing is written or read, and by then nothing is open.
Quiet ==
  /\ phase # "rendered" => QuoteInit
  /\ phase \in {"stage", "accepted", "rendered", "failed"} => piece = {}

LineInv == Parsed /\ Spoken /\ Quiet

LEMMA ParseIsQuiet ==
  ASSUME Parsed, Quiet, Parse, UNCHANGED quoteVars
  PROVE  Quiet'
<1>1. open # "none" => piece # {}
  BY DEF Parsed
<1>2. phase # "rendered"
  BY <1>1 DEF Quiet, Parse, Source, Command, OpenGroup, TakeBare, TakeRef, OpenQuote, TakeQuoted,
              CloseQuote, EndPiece, CloseGroup, CommandEnds, Reject
<1>3. QuoteInit'
  BY <1>2 DEF Quiet, QuoteInit, quoteVars
<1>4. CASE phase' = phase
  <2>1. CASE phase = "stage"
    <3>1. piece = {} /\ open = "none"
      BY <1>1, <2>1 DEF Quiet
    <3>2. Source
      BY <1>4, <2>1, <3>1 DEF Parse, Command, OpenGroup, TakeBare, TakeRef, OpenQuote, TakeQuoted,
                CloseQuote, EndPiece, CloseGroup, CommandEnds, Reject
    <3>3. piece' = {}
      BY <3>1, <3>2 DEF Source
    <3> QED BY <1>3, <3>3 DEF Quiet
  <2>2. CASE phase \in {"accepted", "failed"}
    BY <1>1, <1>4, <2>2 DEF Quiet, Parse, Source, Command, OpenGroup, TakeBare, TakeRef, OpenQuote, TakeQuoted,
                CloseQuote, EndPiece, CloseGroup, CommandEnds, Reject
  <2>3. CASE phase \notin {"stage", "accepted", "failed"}
    BY <1>2, <1>3, <1>4, <2>3 DEF Quiet
  <2>4. QED BY <2>1, <2>2, <2>3
<1>5. CASE phase' # phase
  <2>1. CASE Source
    BY <1>3, <2>1 DEF Quiet, Source
  <2>2. CASE CommandEnds
    BY <1>3, <2>2 DEF Quiet, CommandEnds
  <2>3. CASE phase' \in {"command", "group", "rejected"}
    BY <1>3, <2>3 DEF Quiet
  <2> QED BY <1>5, <2>1, <2>2, <2>3 DEF Parse, Command, OpenGroup, TakeBare, TakeRef, OpenQuote, TakeQuoted,
                CloseQuote, EndPiece, CloseGroup, Reject, Add
<1> QED BY <1>4, <1>5

\* Spoken where nothing was written.
LEMMA SilentSpeaks ==
  ASSUME NEW ws \in Seq(Word)
  PROVE  LET e == ReaderAt("between", <<>>, <<>>, {}) IN
         Reads(<<>>, e, e) /\ Placed(<<>>, "between", <<>>, e) /\ Heard(<<>>, "between", <<>>, e)
<1> DEFINE e == ReaderAt("between", <<>>, <<>>, {})
<1>1. e \in Reader
  BY DEF ReaderAt, Reader, Readings
<1>2. e.reading = "between" /\ e.word = <<>> /\ e.words = <<>> /\ e.acted = {}
  BY DEF ReaderAt
<1> HIDE DEF e
<1>3. TextsOf(<<>>) = <<>>
  BY DEF TextsOf
<1>4. Reads(<<>>, e, e)
  BY <1>1, ReadsNothing
<1>5. Placed(<<>>, "between", <<>>, e) /\ Heard(<<>>, "between", <<>>, e)
  BY <1>2, <1>3 DEF Placed, Heard
<1> QED BY <1>4, <1>5 DEF e

LEMMA QuietSpeaks ==
  ASSUME QuoteInit
  PROVE  Spoken
<1>1. /\ todo = <<>> /\ written = <<>> /\ rest = <<>> /\ writing = "between" /\ script = <<>>
      /\ Now = ReaderAt("between", <<>>, <<>>, {})
  BY DEF QuoteInit, Now
<1>2. <<>> \in Seq(Word)
  OBVIOUS
<1>3. \E e : Reads(script, Now, e) /\ Placed(written, writing, rest, e) /\ Heard(written, writing, rest, e)
  BY <1>1, <1>2, SilentSpeaks
<1> QED BY <1>1, <1>3 DEF Spoken

LEMMA LineStarts ==
  ASSUME LineInit
  PROVE  LineInv
<1>1. Spoken /\ QuoteInit
  BY QuietSpeaks DEF LineInit
<1>2. Parsed
  BY DEF LineInit, Parsed
<1>3. Quiet
  BY <1>1 DEF LineInit, Quiet
<1> QED BY <1>1, <1>2, <1>3 DEF LineInv

LEMMA LineSteps ==
  ASSUME LineInv, [LineNext]_lineVars
  PROVE  LineInv'
<1>1. Parsed /\ Spoken /\ Quiet
  BY DEF LineInv
<1>2. ASSUME UNCHANGED quoteVars PROVE Spoken'
  <2>1. Now' = Now
    BY <1>2 DEF Now, quoteVars
  <2> QED BY <1>1, <1>2, <2>1 DEF Spoken, quoteVars
<1>3. CASE Parse /\ UNCHANGED quoteVars
  <2>1. Parsed'
    BY <1>1, <1>3, ParseKeeps
  <2>2. Quiet'
    BY <1>1, <1>3, ParseIsQuiet
  <2> QED BY <1>2, <1>3, <2>1, <2>2 DEF LineInv
<1>4. CASE Render
  <2>1. todo' \in Seq(Word)
    BY <1>1, <1>4, RenderWrites
  <2>2. phase = "accepted" /\ QuoteInit
    BY <1>1, <1>4 DEF Render, Quiet
  <2>3. /\ line' = line /\ at' = at /\ open' = open /\ piece' = piece /\ pieces' = pieces
        /\ tokens' = tokens /\ stages' = stages
        /\ written' = written /\ rest' = rest /\ writing' = writing /\ script' = script
        /\ reading' = reading /\ word' = word /\ words' = words /\ acted' = acted
        /\ phase' = IF todo' = <<>> THEN "failed" ELSE "rendered"
    BY <1>4 DEF Render
  <2>4. Parsed'
    BY <1>1, <2>3 DEF Parsed
  <2>5. Spoken'
    <3>1. Now' = Now
      BY <2>3 DEF Now
    <3>2. words' = <<>> /\ word' = <<>>
      BY <2>2, <2>3 DEF QuoteInit
    <3> QED BY <1>1, <2>1, <2>3, <3>1, <3>2 DEF Spoken
  <2>6. Quiet'
    <3>1. piece' = {}
      BY <1>1, <2>2, <2>3 DEF Quiet
    <3>2. phase' # "rendered" => QuoteInit'
      BY <2>2, <2>3 DEF QuoteInit
    <3> QED BY <3>1, <3>2 DEF Quiet
  <2> QED BY <2>4, <2>5, <2>6 DEF LineInv
<1>5. CASE QuoteNext /\ UNCHANGED parseVars
  <2>1. Spoken'
    BY <1>1, <1>5, BeginKeeps, PushKeeps, EndKeeps, ReadKeeps DEF QuoteNext
  <2>2. Parsed'
    BY <1>1, <1>5 DEF Parsed, parseVars
  <2>3. phase = "rendered"
    BY <1>1, <1>5 DEF Quiet, QuoteInit, QuoteNext, Begin, Push, End, Read
  <2>4. Quiet'
    BY <1>1, <1>5, <2>3 DEF Quiet, parseVars
  <2> QED BY <2>1, <2>2, <2>4 DEF LineInv
<1>6. CASE UNCHANGED lineVars
  <2>1. UNCHANGED quoteVars /\ UNCHANGED parseVars
    BY <1>6 DEF lineVars, quoteVars, parseVars
  <2>2. Parsed'
    BY <1>1, <2>1 DEF Parsed, parseVars
  <2>3. Quiet'
    BY <1>1, <2>1 DEF Quiet, QuoteInit, quoteVars, parseVars
  <2> QED BY <1>2, <2>1, <2>2, <2>3 DEF LineInv
<1>7. CASE LineDone
  BY <1>6, <1>7 DEF LineDone
<1> QED BY <1>3, <1>4, <1>5, <1>6, <1>7 DEF LineNext

\* For every line and every value: no character of a value acts as syntax, and where the
\* author left nothing to sh, sh reads the words that were written and nothing else
\* (exec.rs:274-304, 634-653).
THEOREM AlwaysReadsBack == LineSpec => []ReadsBack
<1>1. LineInit => LineInv
  BY LineStarts
<1>2. LineInv /\ [LineNext]_lineVars => LineInv'
  BY LineSteps
<1>3. LineInv => ReadsBack
  BY SpokenReadsBack DEF LineInv
<1> QED BY <1>1, <1>2, <1>3, PTL DEF LineSpec

----------------------------------------------------------------------------
(* The characters of a line. *)

LEMMA NoEnd ==
  "end" \notin Letters
  BY LineAssumption DEF Letters

LEMMA BraceChars ==
  /\ Lbrace \notin Hws \cup Name \cup Sigil \cup Quotes \cup {Backslash, "$", ".", "[", "]", "|", "newline", "end", Rbrace}
  /\ Rbrace \notin Hws \cup Name \cup Sigil \cup Quotes \cup {Backslash, "$", ".", "[", "]", "|", "newline", "end", Lbrace}
  BY Zenon DEF Lbrace, Rbrace, Hws, Name, Sigil, Quotes, Quote, Backslash

LEMMA GreatestOf ==
  ASSUME NEW T, T \subseteq Nat, T # {}, NEW b \in Nat, \A k \in T : k =< b
  PROVE  \E m \in T : \A k \in T : k =< m
<1> DEFINE U == {b - k : k \in T}
<1>1. U \subseteq Nat /\ U # {}
  <2>1. \A k \in T : k \in Nat /\ k =< b /\ b - k \in Nat
    OBVIOUS
  <2> QED BY <2>1
<1>2. PICK d \in U : \A x \in U : d =< x
  BY <1>1, LeastOf
<1>3. PICK m \in T : d = b - m
  OBVIOUS
<1>4. ASSUME NEW k \in T PROVE k =< m
  <2>1. b - k \in U
    OBVIOUS
  <2>2. d =< b - k /\ k \in Nat /\ m \in Nat
    BY <1>2, <2>1
  <2> HIDE DEF U
  <2> QED BY <1>3, <2>2
<1> QED BY <1>4

\* What is open before each character.
Lexes(n, f) ==
  f = [k \in 1..n |-> IF k = 1 THEN [quote |-> "none", escaped |-> FALSE] ELSE Lexed(f[k - 1], line[k - 1])]

LEMMA LexEnds ==
  \A n \in Nat : \E f : Lexes(n, f)
<1> SUFFICES ASSUME NEW b \in Nat, ~\E f : Lexes(b, f)
             PROVE  FALSE
  OBVIOUS
<1> DEFINE T == {n \in Nat : ~\E f : Lexes(n, f)}
           start == [quote |-> "none", escaped |-> FALSE]
<1>1. PICK m \in T : \A k \in T : m =< k
  <2>1. b \in T
    OBVIOUS
  <2> QED BY <2>1, LeastOf
<1>2. m # 0
  <2>1. Lexes(0, [i \in 1..0 |-> <<>>])
    BY DEF Lexes
  <2> QED BY <2>1
<1>3. m \in Nat /\ m - 1 \in Nat
  BY <1>2
<1>4. PICK f : Lexes(m - 1, f)
  BY <1>1, <1>3
<1> DEFINE g == [i \in 1..m |-> IF i = m THEN (IF m = 1 THEN start ELSE Lexed(f[m - 1], line[m - 1])) ELSE f[i]]
<1>5. ASSUME NEW i \in 1..m PROVE g[i] = IF i = 1 THEN start ELSE Lexed(g[i - 1], line[i - 1])
  <2>1. CASE i = m
    <3>1. m # 1 => m - 1 \in 1..m /\ m - 1 # m
      BY <1>3
    <3>2. m # 1 => g[m - 1] = f[m - 1]
      BY <3>1
    <3>3. g[m] = IF m = 1 THEN start ELSE Lexed(f[m - 1], line[m - 1])
      BY <1>3, <2>1
    <3> HIDE DEF g, start
    <3> QED BY <2>1, <3>2, <3>3
  <2>2. CASE i # m
    <3>1. i \in 1..(m - 1) /\ g[i] = f[i]
      BY <1>3, <2>2
    <3>2. f[i] = IF i = 1 THEN start ELSE Lexed(f[i - 1], line[i - 1])
      BY <1>4, <3>1 DEF Lexes
    <3>3. i # 1 => i - 1 \in 1..m /\ i - 1 # m
      BY <1>3, <3>1
    <3>4. i # 1 => g[i - 1] = f[i - 1]
      BY <3>3
    <3> HIDE DEF g, start
    <3> QED BY <3>1, <3>2, <3>4
  <2> QED BY <2>1, <2>2
<1>6. Lexes(m, g)
  <2>1. g = [i \in 1..m |-> g[i]]
    OBVIOUS
  <2> HIDE DEF g
  <2> QED BY <1>5, <2>1 DEF Lexes
<1> HIDE DEF g
<1> QED BY <1>1, <1>6

LEMMA StateIs ==
  ASSUME line \in Seq(Letters)
  PROVE  /\ State[1] = [quote |-> "none", escaped |-> FALSE]
         /\ \A k \in 1..Len(line) : State[k + 1] = Lexed(State[k], line[k])
<1>1. Len(line) + 1 \in Nat
  OBVIOUS
<1>2. \E f : Lexes(Len(line) + 1, f)
  BY <1>1, LexEnds
<1>3. State = CHOOSE f : Lexes(Len(line) + 1, f)
  BY DEF State, Lexes
<1>4. Lexes(Len(line) + 1, State)
  BY <1>2, <1>3
<1>5. State[1] = [quote |-> "none", escaped |-> FALSE]
  BY <1>1, <1>4 DEF Lexes
<1>6. ASSUME NEW k \in 1..Len(line) PROVE State[k + 1] = Lexed(State[k], line[k])
  <2>1. k + 1 \in 1..(Len(line) + 1) /\ k + 1 # 1 /\ (k + 1) - 1 = k
    OBVIOUS
  <2> QED BY <1>4, <2>1 DEF Lexes
<1> QED BY <1>5, <1>6

\* A run of characters that open and close nothing.
LEMMA StateStays ==
  ASSUME line \in Seq(Letters), NEW a \in 1..(Len(line) + 1), NEW b \in a..(Len(line) + 1), NEW x, State[a] = x,
         \A k \in a..(b - 1) : Lexed(x, line[k]) = x
  PROVE  \A k \in a..b : State[k] = x
<1> DEFINE T == {k \in a..b : State[k] # x}
<1>0. Len(line) \in Nat
  OBVIOUS
<1> SUFFICES ASSUME T # {} PROVE FALSE
  OBVIOUS
<1>1. PICK m \in T : \A k \in T : m =< k
  <2>1. T \subseteq Nat
    BY <1>0
  <2> QED BY <2>1, LeastOf
<1>2. m # a
  OBVIOUS
<1>3. m - 1 \in a..b /\ m - 1 < m /\ m - 1 \in a..(b - 1) /\ m - 1 \in 1..Len(line) /\ (m - 1) + 1 = m
  BY <1>0, <1>2
<1>4. State[m - 1] = x
  BY <1>1, <1>3
<1>5. State[m] = Lexed(x, line[m - 1])
  BY <1>3, <1>4, StateIs
<1> QED BY <1>3, <1>5

LEMMA OutStays ==
  ASSUME line \in Seq(Letters), NEW a \in 1..(Len(line) + 1), NEW b \in a..(Len(line) + 1),
         State[a] = [quote |-> "none", escaped |-> FALSE], \A k \in a..(b - 1) : line[k] \notin Quotes
  PROVE  \A k \in a..b : State[k] = [quote |-> "none", escaped |-> FALSE]
<1> DEFINE x == [quote |-> "none", escaped |-> FALSE]
<1>1. ASSUME NEW c, c \notin Quotes PROVE Lexed(x, c) = x
  BY <1>1 DEF Lexed
<1> HIDE DEF x
<1>2. \A k \in a..(b - 1) : Lexed(x, line[k]) = x
  BY <1>1
<1>3. State[a] = x
  BY DEF x
<1>4. \A k \in a..b : State[k] = x
  BY <1>2, <1>3, StateStays
<1> QED BY <1>4 DEF x

LEMMA QuotedStays ==
  ASSUME line \in Seq(Letters), NEW a \in 1..(Len(line) + 1), NEW b \in a..(Len(line) + 1), NEW q, q # "none",
         State[a] = [quote |-> q, escaped |-> FALSE], \A k \in a..(b - 1) : line[k] \notin {q, Backslash}
  PROVE  \A k \in a..b : State[k] = [quote |-> q, escaped |-> FALSE]
<1> DEFINE x == [quote |-> q, escaped |-> FALSE]
<1>1. ASSUME NEW c, c \notin {q, Backslash} PROVE Lexed(x, c) = x
  BY <1>1 DEF Lexed
<1> HIDE DEF x
<1>2. \A k \in a..(b - 1) : Lexed(x, line[k]) = x
  BY <1>1
<1>3. State[a] = x
  BY DEF x
<1>4. \A k \in a..b : State[k] = x
  BY <1>2, <1>3, StateStays
<1> QED BY <1>4 DEF x

\* The bracket or pipe before a place, and the one after it.
LEMMA BeforeRun ==
  ASSUME line \in Seq(Letters), NEW a \in Nat, NEW b \in Nat, a =< b, \A k \in a..(b - 1) : k \notin Bracket
  PROVE  Before(b) = Before(a)
<1>1. \A j \in Bracket : j \in 1..Len(line)
  BY DEF Bracket
<1>2. \A j \in Bracket : j < a <=> j < b
  BY <1>1
<1> DEFINE A == {j \in Bracket : j < a}
           B == {j \in Bracket : j < b}
<1>3. A = B
  BY <1>2
<1>4. Before(a) = (IF A = {} THEN "end" ELSE line[CHOOSE j \in A : \A m \in A : m =< j])
  BY DEF Before
<1>5. Before(b) = (IF B = {} THEN "end" ELSE line[CHOOSE j \in B : \A m \in B : m =< j])
  BY DEF Before
<1> HIDE DEF A, B
<1> QED BY <1>3, <1>4, <1>5

LEMMA BeforeIs ==
  ASSUME line \in Seq(Letters), NEW j \in Bracket, NEW k \in Nat, j < k, \A m \in (j + 1)..(k - 1) : m \notin Bracket
  PROVE  Before(k) = line[j]
<1> DEFINE b == {i \in Bracket : i < k}
<1>1. \A i \in Bracket : i \in 1..Len(line)
  BY DEF Bracket
<1>2. j \in b /\ \A m \in b : m =< j
  BY <1>1
<1>3. ASSUME NEW i \in b, \A m \in b : m =< i PROVE i = j
  BY <1>1, <1>2, <1>3
<1> HIDE DEF b
<1>4. (CHOOSE i \in b : \A m \in b : m =< i) = j
  BY <1>2, <1>3
<1> QED BY <1>2, <1>4 DEF Before, b

LEMMA BeforeWhich ==
  ASSUME line \in Seq(Letters), NEW k \in Nat
  PROVE  \/ Before(k) = "end" /\ \A j \in Bracket : ~(j < k)
         \/ \E j \in Bracket : j < k /\ Before(k) = line[j] /\ \A m \in (j + 1)..(k - 1) : m \notin Bracket
<1> DEFINE b == {i \in Bracket : i < k}
<1>1. \A i \in Bracket : i \in 1..Len(line)
  BY DEF Bracket
<1>2. CASE b = {}
  BY <1>2 DEF Before
<1>3. CASE b # {}
  <2>1. PICK j \in b : \A m \in b : m =< j
    <3>1. b \subseteq Nat /\ \A i \in b : i =< k
      BY <1>1
    <3> QED BY <1>3, <3>1, GreatestOf
  <2>2. \A m \in (j + 1)..(k - 1) : m \notin Bracket
    BY <1>1, <2>1
  <2> QED BY <2>1, <2>2, BeforeIs
<1> QED BY <1>2, <1>3

LEMMA AfterIs ==
  ASSUME line \in Seq(Letters), NEW j \in Bracket, NEW k \in Nat, k < j, \A m \in (k + 1)..(j - 1) : m \notin Bracket
  PROVE  After(k) = line[j]
<1> DEFINE b == {i \in Bracket : i > k}
<1>1. \A i \in Bracket : i \in 1..Len(line)
  BY DEF Bracket
<1>2. j \in b /\ \A m \in b : j =< m
  BY <1>1
<1>3. ASSUME NEW i \in b, \A m \in b : i =< m PROVE i = j
  BY <1>1, <1>2, <1>3
<1> HIDE DEF b
<1>4. (CHOOSE i \in b : \A m \in b : i =< m) = j
  BY <1>2, <1>3
<1> QED BY <1>2, <1>4 DEF After, b

LEMMA AfterWhich ==
  ASSUME line \in Seq(Letters), NEW k \in Nat
  PROVE  \/ After(k) = "end" /\ \A j \in Bracket : ~(k < j)
         \/ \E j \in Bracket : k < j /\ After(k) = line[j] /\ \A m \in (k + 1)..(j - 1) : m \notin Bracket
<1> DEFINE b == {i \in Bracket : i > k}
<1>1. \A i \in Bracket : i \in 1..Len(line)
  BY DEF Bracket
<1>2. CASE b = {}
  <2>1. \A j \in Bracket : ~(k < j)
    BY <1>1, <1>2
  <2> QED BY <1>2, <2>1 DEF After
<1>3. CASE b # {}
  <2>1. PICK j \in b : \A m \in b : j =< m
    <3>1. b \subseteq Nat
      BY <1>1
    <3> QED BY <1>3, <3>1, LeastOf
  <2>2. k < j /\ \A m \in (k + 1)..(j - 1) : m \notin Bracket
    BY <1>1, <2>1
  <2> QED BY <2>1, <2>2, AfterIs
<1> QED BY <1>2, <1>3

\* Two stretches with a place in common are one, and every place that is no cut is in one.
LEMMA OneStretch ==
  ASSUME line \in Seq(Letters), NEW v \in Stretches, NEW w \in Stretches, NEW k \in Nat, v[1] =< k, k =< v[2], w[1] =< k, k =< w[2]
  PROVE  v = w
<1>1. /\ v \in (1..Len(line)) \X (1..Len(line)) /\ w \in (1..Len(line)) \X (1..Len(line))
      /\ Cut(v[1] - 1) /\ Cut(v[2] + 1) /\ \A j \in v[1]..v[2] : ~Cut(j)
      /\ Cut(w[1] - 1) /\ Cut(w[2] + 1) /\ \A j \in w[1]..w[2] : ~Cut(j)
  BY DEF Stretches
<1>2. v = <<v[1], v[2]>> /\ w = <<w[1], w[2]>>
  BY <1>1
<1>3. v[1] \in Int /\ v[2] \in Int /\ w[1] \in Int /\ w[2] \in Int
  BY <1>1
<1>4. v[1] = w[1]
  <2>1. ~(v[1] < w[1])
    <3>1. v[1] < w[1] => w[1] - 1 \in v[1]..v[2]
      BY <1>3
    <3> QED BY <1>1, <3>1
  <2>2. ~(w[1] < v[1])
    <3>1. w[1] < v[1] => v[1] - 1 \in w[1]..w[2]
      BY <1>3
    <3> QED BY <1>1, <3>1
  <2> QED BY <1>3, <2>1, <2>2
<1>5. v[2] = w[2]
  <2>1. ~(v[2] < w[2])
    <3>1. v[2] < w[2] => v[2] + 1 \in w[1]..w[2]
      BY <1>3
    <3> QED BY <1>1, <3>1
  <2>2. ~(w[2] < v[2])
    <3>1. w[2] < v[2] => w[2] + 1 \in v[1]..v[2]
      BY <1>3
    <3> QED BY <1>1, <3>1
  <2> QED BY <1>3, <2>1, <2>2
<1> QED BY <1>2, <1>4, <1>5

LEMMA StretchIs ==
  ASSUME line \in Seq(Letters), NEW w \in Stretches
  PROVE  /\ w[1] \in 1..Len(line) /\ w[2] \in 1..Len(line) /\ w[1] =< w[2] /\ w = <<w[1], w[2]>>
         /\ Cut(w[1] - 1) /\ Cut(w[2] + 1) /\ \A j \in w[1]..w[2] : ~Cut(j)
  BY DEF Stretches

LEMMA InStretch ==
  ASSUME line \in Seq(Letters), NEW k \in 1..Len(line), ~Cut(k)
  PROVE  \E w \in Stretches : w[1] =< k /\ k =< w[2]
<1>0. Len(line) \in Nat
  OBVIOUS
<1>1. PICK a \in 0..(k - 1) : Cut(a) /\ \A j \in (a + 1)..k : ~Cut(j)
  <2> DEFINE T == {j \in 0..(k - 1) : Cut(j)}
  <2>1. 0 \in T
    BY <1>0 DEF Cut
  <2>2. PICK a \in T : \A j \in T : j =< a
    <3>1. T \subseteq Nat /\ T # {} /\ k \in Nat /\ \A j \in T : j =< k
      BY <2>1
    <3> HIDE DEF T
    <3> QED BY <3>1, GreatestOf
  <2>3. ASSUME NEW j \in (a + 1)..k PROVE ~Cut(j)
    <3>1. CASE j = k
      BY <3>1
    <3>2. CASE j # k
      <4>1. j \in 0..(k - 1) /\ a < j
        BY <1>0, <3>2
      <4> QED BY <2>2, <4>1
    <3> QED BY <3>1, <3>2
  <2> QED BY <2>2, <2>3
<1>2. PICK b \in (k + 1)..(Len(line) + 1) : Cut(b) /\ \A j \in k..(b - 1) : ~Cut(j)
  <2> DEFINE T == {j \in (k + 1)..(Len(line) + 1) : Cut(j)}
  <2>1. Len(line) + 1 \in T
    BY <1>0 DEF Cut
  <2>2. PICK b \in T : \A j \in T : b =< j
    <3>1. T \subseteq Nat /\ T # {}
      BY <1>0, <2>1
    <3> QED BY <3>1, LeastOf
  <2>3. ASSUME NEW j \in k..(b - 1) PROVE ~Cut(j)
    <3>1. CASE j = k
      BY <3>1
    <3>2. CASE j # k
      <4>1. j \in (k + 1)..(Len(line) + 1) /\ j < b
        BY <1>0, <3>2
      <4> QED BY <2>2, <4>1
    <3> QED BY <3>1, <3>2
  <2> QED BY <2>2, <2>3
<1> DEFINE w == <<a + 1, b - 1>>
<1>3. w \in (DOMAIN line) \X (DOMAIN line) /\ w[1] =< w[2] /\ w[1] =< k /\ k =< w[2]
  BY <1>0
<1>4. w[1] - 1 = a /\ w[2] + 1 = b
  BY <1>0
<1>5. ASSUME NEW j \in w[1]..w[2] PROVE ~Cut(j)
  BY <1>0, <1>1, <1>2
<1> HIDE DEF w
<1>6. w \in Stretches
  BY <1>1, <1>2, <1>3, <1>4, <1>5 DEF Stretches
<1> QED BY <1>3, <1>6

----------------------------------------------------------------------------
(* A well-formed line, place by place. *)

Marks == {"[", "]", "|"}

\* What is written before a place since the last of some characters: a stretch, or nothing.
Held(k, chars) ==
  \E w \in Stretches : w[2] < k /\ \A j \in w[1]..(k - 1) : ~Is(j, chars)
Vacant(k, chars) ==
  \A j \in 1..(k - 1) : Cut(j) \/ \E m \in j..(k - 1) : Is(m, chars)

\* What a place must keep to, by what is before it, for the line to be well formed.
Fine(k) ==
  /\ ~Is(k, {Lbrace, "newline"})
  /\ InGroup(k) => ~Is(k, {Rbrace}) /\ (line[k] \in Sigil => At(k + 1) \in Name)
  /\ Brace(k) => Braces(k) # {}
  /\ Is(k, {"[", "|"}) => Before(k) # "["
  /\ Is(k, {"]"}) => Before(k) = "[" /\ Held(k, Marks)
  /\ Is(k, {"|"}) => Held(k, {"|"})
EndFine ==
  /\ State[Len(line) + 1].quote = "none" /\ Before(Len(line) + 1) # "["
  /\ Held(Len(line) + 1, {"|"})

LEMMA BracketCuts ==
  ASSUME line \in Seq(Letters), NEW k
  PROVE  k \in Bracket => k \in 1..Len(line) /\ Cut(k) /\ Is(k, {line[k]}) /\ line[k] \in Marks /\ Out(k)
  BY DEF Bracket, Cut, Is, Marks

LEMMA IsBracket ==
  ASSUME line \in Seq(Letters), NEW k \in 1..Len(line), NEW chars, Is(k, chars), chars \subseteq Marks
  PROVE  k \in Bracket /\ Cut(k) /\ line[k] \in chars
<1>1. Out(k) /\ line[k] \in chars /\ line[k] \in Marks /\ k \in DOMAIN line
  BY DEF Is
<1>2. Is(k, {"[", "]", "|"}) /\ Is(k, Hws \cup {"[", "]", "|"})
  BY <1>1 DEF Is, Marks
<1> QED BY <1>1, <1>2 DEF Bracket, Cut

LEMMA FineStages ==
  ASSUME line \in Seq(Letters), WellFormed, NEW e \in 1..(Len(line) + 1), e > Len(line) \/ Is(e, {"|"})
  PROVE  Held(e, {"|"})
<1>0. Len(line) \in Nat
  OBVIOUS
<1> DEFINE T == {k \in 0..(e - 1) : k = 0 \/ Is(k, {"|"})}
<1>1. PICK b \in T : \A k \in T : k =< b
  <2>1. T \subseteq Nat /\ 0 \in T /\ e \in Nat /\ \A k \in T : k =< e
    BY <1>0
  <2> HIDE DEF T
  <2> QED BY <2>1, GreatestOf
<1>2. b \in 0..(Len(line) + 1) /\ b < e /\ (b = 0 \/ Is(b, {"|"})) /\ e \in 0..(Len(line) + 1)
  BY <1>0
<1>3. PICK w \in Stretches : b < w[1] /\ w[2] < e
  BY <1>2 DEF WellFormed
<1>4. ASSUME NEW j \in w[1]..(e - 1), Is(j, {"|"}) PROVE FALSE
  <2>1. w[1] \in 1..Len(line)
    BY StretchIs
  <2>2. j \in T
    BY <1>0, <1>4, <2>1
  <2> QED BY <1>0, <1>1, <1>3, <2>1, <2>2
<1> QED BY <1>3, <1>4 DEF Held

LEMMA WellFormedIsFine ==
  ASSUME line \in Seq(Letters), WellFormed
  PROVE  EndFine /\ \A k \in 1..Len(line) : Fine(k)
<1>0. Len(line) \in Nat
  OBVIOUS
<1>1. ASSUME NEW j \in Bracket, line[j] = "["
      PROVE  /\ After(j) = "]"
             /\ \E w \in Stretches : w[1] > j /\ After(w[1]) = "]"
                                     /\ ~\E m \in Bracket : j < m /\ m < w[1]
  <2>1. j \in DOMAIN line /\ Is(j, {"["})
    BY <1>1, BracketCuts DEF Is
  <2> QED BY <2>1 DEF WellFormed
<1>2. ASSUME NEW k \in 1..(Len(line) + 1), Before(k) = "["
      PROVE  /\ k \in Bracket => line[k] = "]" /\ Held(k, Marks)
             /\ k \in 1..Len(line)
  <2>1. PICK j \in Bracket : j < k /\ Before(k) = line[j] /\ \A m \in (j + 1)..(k - 1) : m \notin Bracket
    BY <1>0, <1>2, BeforeWhich
  <2>2. j \in 1..Len(line) /\ line[j] = "["
    BY <1>2, <2>1, BracketCuts
  <2>3. After(j) = "]"
    BY <1>1, <2>2
  <2>4. PICK i \in Bracket : j < i /\ After(j) = line[i] /\ \A m \in (j + 1)..(i - 1) : m \notin Bracket
    BY <2>2, <2>3, AfterWhich
  <2>5. i \in 1..Len(line) /\ line[i] = "]"
    BY <2>3, <2>4, BracketCuts
  <2>6. k =< i
    BY <1>0, <2>1, <2>2, <2>4, <2>5
  <2>7. ASSUME k \in Bracket PROVE line[k] = "]" /\ Held(k, Marks)
    <3>1. k = i
      BY <1>0, <2>1, <2>2, <2>4, <2>5, <2>6, <2>7
    <3>2. PICK w \in Stretches : w[1] > j /\ After(w[1]) = "]" /\ ~\E m \in Bracket : j < m /\ m < w[1]
      BY <1>1, <2>2
    <3>3. w[1] \in 1..Len(line) /\ w[2] \in 1..Len(line) /\ w[1] =< w[2] /\ \A m \in w[1]..w[2] : ~Cut(m)
      BY <3>2, StretchIs
    <3>4. Cut(k)
      BY <2>7, BracketCuts
    <3>5. w[2] < k
      BY <1>0, <2>2, <2>4, <2>5, <3>1, <3>2, <3>3, <3>4
    <3>6. ASSUME NEW m \in w[1]..(k - 1), Is(m, Marks) PROVE FALSE
      <4>1. m \in 1..Len(line) /\ m \in (j + 1)..(k - 1)
        BY <1>0, <2>2, <3>2, <3>3
      <4>2. m \in Bracket
        BY <3>6, <4>1, IsBracket
      <4> QED BY <2>1, <4>1, <4>2
    <3>7. Held(k, Marks)
      BY <3>5, <3>6 DEF Held
    <3> QED BY <2>5, <3>1, <3>7
  <2> QED BY <1>0, <2>5, <2>6, <2>7
<1>3. ASSUME NEW k \in 1..Len(line) PROVE Fine(k)
  <2>1. /\ ~Is(k, {Lbrace, "newline"})
        /\ InGroup(k) => ~Is(k, {Rbrace}) /\ (line[k] \in Sigil => At(k + 1) \in Name)
        /\ Is(k, {"]"}) => Before(k) = "["
        /\ Brace(k) => Braces(k) # {}
    <3>1. k \in DOMAIN line
      OBVIOUS
    <3> QED BY <3>1 DEF WellFormed
  <2>2. Is(k, {"[", "|"}) => Before(k) # "["
    <3>1. ASSUME Is(k, {"[", "|"}), Before(k) = "[" PROVE FALSE
      <4>1. k \in Bracket /\ line[k] \in {"[", "|"}
        BY <3>1, IsBracket DEF Marks
      <4> QED BY <1>2, <3>1, <4>1
    <3> QED BY <3>1
  <2>3. Is(k, {"]"}) => Held(k, Marks)
    <3>1. Is(k, {"]"}) => k \in Bracket
      BY IsBracket DEF Marks
    <3>2. k \in 1..(Len(line) + 1)
      BY <1>0
    <3> QED BY <1>2, <2>1, <3>1, <3>2
  <2>4. Is(k, {"|"}) => Held(k, {"|"})
    BY FineStages
  <2> QED BY <2>1, <2>2, <2>3, <2>4 DEF Fine
<1>4. EndFine
  <2>1. State[Len(line) + 1].quote = "none"
    BY DEF WellFormed
  <2>2. Before(Len(line) + 1) # "["
    BY <1>0, <1>2
  <2>3. Held(Len(line) + 1, {"|"})
    BY <1>0, FineStages
  <2> QED BY <2>1, <2>2, <2>3 DEF EndFine
<1> QED BY <1>3, <1>4

LEMMA FineIsWellFormed ==
  ASSUME line \in Seq(Letters), EndFine, \A k \in 1..Len(line) : Fine(k)
  PROVE  WellFormed
<1>0. Len(line) \in Nat
  OBVIOUS
<1>1. ASSUME NEW k \in 1..Len(line), Is(k, {"["})
      PROVE  After(k) = "]" /\ \E w \in Stretches : w[1] > k /\ After(w[1]) = "]"
                                 /\ ~\E j \in Bracket : k < j /\ j < w[1]
  <2>1. k \in Bracket /\ line[k] = "["
    BY <1>1, IsBracket DEF Marks
  <2>2. ~\A j \in Bracket : ~(k < j)
    <3>1. ASSUME \A j \in Bracket : ~(k < j) PROVE FALSE
      <4>1. \A m \in (k + 1)..((Len(line) + 1) - 1) : m \notin Bracket
        BY <1>0, <3>1
      <4>2. Before(Len(line) + 1) = line[k]
        BY <1>0, <2>1, <4>1, BeforeIs
      <4> QED BY <2>1, <4>2 DEF EndFine
    <3> QED BY <3>1
  <2>3. PICK j \in Bracket : k < j /\ After(k) = line[j] /\ \A m \in (k + 1)..(j - 1) : m \notin Bracket
    BY <2>2, AfterWhich
  <2>4. j \in 1..Len(line) /\ Is(j, {line[j]}) /\ line[j] \in Marks /\ Cut(j)
    BY <2>3, BracketCuts
  <2>5. Before(j) = "["
    BY <1>0, <2>1, <2>3, <2>4, BeforeIs
  <2>6. line[j] = "]"
    <3>1. ASSUME line[j] \in {"[", "|"} PROVE FALSE
      <4>1. Is(j, {"[", "|"})
        BY <2>4, <3>1 DEF Is
      <4>2. Fine(j)
        BY <2>4
      <4> QED BY <2>5, <4>1, <4>2 DEF Fine
    <3> QED BY <2>4, <3>1 DEF Marks
  <2>7. Held(j, Marks)
    BY <2>4, <2>6 DEF Fine
  <2>8. PICK w \in Stretches : w[2] < j /\ \A m \in w[1]..(j - 1) : ~Is(m, Marks)
    BY <2>7 DEF Held
  <2>9. w[1] \in 1..Len(line) /\ w[2] \in 1..Len(line) /\ w[1] =< w[2]
    BY <2>8, StretchIs
  <2>10. w[1] > k
    <3>1. Is(k, Marks)
      BY <1>1 DEF Is, Marks
    <3> QED BY <1>0, <2>3, <2>4, <2>8, <2>9, <3>1
  <2>11. \A m \in (w[1] + 1)..(j - 1) : m \notin Bracket
    BY <1>0, <2>3, <2>9, <2>10
  <2>12. After(w[1]) = "]"
    BY <2>4, <2>6, <2>8, <2>9, <2>11, <1>0, AfterIs
  <2>13. ~\E m \in Bracket : k < m /\ m < w[1]
    <3>1. ASSUME NEW m \in Bracket, k < m, m < w[1] PROVE FALSE
      <4>1. m \in 1..Len(line)
        BY BracketCuts
      <4>2. m \in (k + 1)..(j - 1)
        BY <1>0, <2>4, <2>8, <2>9, <3>1, <4>1
      <4> QED BY <2>3, <4>2
    <3> QED BY <3>1
  <2> QED BY <2>3, <2>6, <2>10, <2>12, <2>13
<1>2. ASSUME NEW k \in 1..Len(line)
      PROVE  /\ ~Is(k, {Lbrace, "newline"})
             /\ InGroup(k) => ~Is(k, {Rbrace}) /\ (line[k] \in Sigil => At(k + 1) \in Name)
             /\ Is(k, {"]"}) => Before(k) = "["
             /\ Brace(k) => Braces(k) # {}
  BY DEF Fine
<1>3. ASSUME NEW b \in 0..(Len(line) + 1), NEW e \in 0..(Len(line) + 1),
             b < e, b = 0 \/ Is(b, {"|"}), e > Len(line) \/ Is(e, {"|"})
      PROVE  \E w \in Stretches : b < w[1] /\ w[2] < e
  <2>1. Held(e, {"|"})
    <3>1. CASE e = Len(line) + 1
      BY <3>1 DEF EndFine
    <3>2. CASE e # Len(line) + 1
      <4>1. e \in 1..Len(line) /\ Is(e, {"|"})
        BY <1>0, <1>3, <3>2
      <4> QED BY <4>1 DEF Fine
    <3> QED BY <3>1, <3>2
  <2>2. PICK w \in Stretches : w[2] < e /\ \A j \in w[1]..(e - 1) : ~Is(j, {"|"})
    BY <2>1 DEF Held
  <2>3. w[1] \in 1..Len(line)
    BY StretchIs
  <2>4. b < w[1]
    BY <1>0, <1>3, <2>2, <2>3
  <2> QED BY <2>2, <2>4
<1>4. State[Len(line) + 1].quote = "none"
  BY DEF EndFine
<1>5. DOMAIN line = 1..Len(line)
  OBVIOUS
<1> QED BY <1>1, <1>2, <1>3, <1>4, <1>5 DEF WellFormed

----------------------------------------------------------------------------
(* References, from their first place to their last. *)

RefAt(k, m) ==
  \/ line[k] \in Sigil /\ m > k /\ \A j \in (k + 1)..m : line[j] \in Name
  \/ line[k] = "$" /\ m = k
  \/ /\ line[k] = "$" /\ m > k + 1 /\ line[k + 1] = "." /\ line[m] \in Name
     /\ \A j \in (k + 1)..m : line[j] \in Name \/ (line[j] = "." /\ line[j - 1] # ".")

LEMMA RefAtIs ==
  ASSUME line \in Seq(Letters), NEW k \in 1..Len(line), NEW m \in k..Len(line)
  PROVE  IsRef(SubSeq(line, k, m)) <=> RefAt(k, m)
<1> DEFINE t == SubSeq(line, k, m)
<1>0. Len(line) \in Nat
  OBVIOUS
<1>1. /\ t \in Seq(Letters) /\ Len(t) = m - k + 1 /\ m - k + 1 \in Nat \ {0}
      /\ \A i \in 1..(m - k + 1) : t[i] = line[k + i - 1]
  BY <1>0
<1> HIDE DEF t
<1>2. Head(t) = line[k] /\ Last(t) = line[m]
  <2>1. t # <<>>
    BY <1>1
  <2>2. Head(t) = t[1] /\ Last(t) = t[Len(t)]
    BY <1>1, <2>1 DEF Last
  <2>3. k + 1 - 1 = k /\ k + (m - k + 1) - 1 = m
    OBVIOUS
  <2> QED BY <1>1, <2>2, <2>3
<1>3. \A j \in k..m : line[j] = t[j - k + 1] /\ j - k + 1 \in 1..(m - k + 1)
  <2>1. ASSUME NEW j \in k..m PROVE line[j] = t[j - k + 1] /\ j - k + 1 \in 1..(m - k + 1)
    <3>1. j - k + 1 \in 1..(m - k + 1) /\ k + (j - k + 1) - 1 = j
      OBVIOUS
    <3> QED BY <1>1, <3>1
  <2> QED BY <2>1
<1>4. (\A i \in 2..Len(t) : t[i] \in Name) <=> \A j \in (k + 1)..m : line[j] \in Name
  <2>1. ASSUME \A i \in 2..Len(t) : t[i] \in Name, NEW j \in (k + 1)..m PROVE line[j] \in Name
    <3>1. j - k + 1 \in 2..Len(t) /\ j \in k..m
      BY <1>1
    <3> QED BY <1>3, <2>1, <3>1
  <2>2. ASSUME \A j \in (k + 1)..m : line[j] \in Name, NEW i \in 2..Len(t) PROVE t[i] \in Name
    <3>1. k + i - 1 \in (k + 1)..m /\ i \in 1..(m - k + 1)
      BY <1>1
    <3> QED BY <1>1, <2>2, <3>1
  <2> QED BY <2>1, <2>2
<1>5. t = <<"$">> <=> line[k] = "$" /\ m = k
  <2>1. k + 1 - 1 = k
    OBVIOUS
  <2>2. t[1] = line[k]
    BY <1>1, <2>1
  <2>3. t = <<"$">> <=> Len(t) = 1 /\ t[1] = "$"
    <3>1. t = <<"$">> => Len(t) = 1 /\ t[1] = "$"
      OBVIOUS
    <3>2. ASSUME Len(t) = 1, t[1] = "$" PROVE t = <<"$">>
      BY <1>1, <3>2
    <3> QED BY <3>1, <3>2
  <2> QED BY <1>1, <2>2, <2>3
<1>6. (\A i \in 2..Len(t) : t[i] \in Name \/ (t[i] = "." /\ t[i - 1] # "."))
      <=> \A j \in (k + 1)..m : line[j] \in Name \/ (line[j] = "." /\ line[j - 1] # ".")
  <2>1. ASSUME \A i \in 2..Len(t) : t[i] \in Name \/ (t[i] = "." /\ t[i - 1] # "."), NEW j \in (k + 1)..m
        PROVE  line[j] \in Name \/ (line[j] = "." /\ line[j - 1] # ".")
    <3>1. j - k + 1 \in 2..Len(t) /\ j \in k..m /\ j - 1 \in k..m /\ (j - 1) - k + 1 = (j - k + 1) - 1
      BY <1>1
    <3>2. line[j] = t[j - k + 1] /\ line[j - 1] = t[(j - k + 1) - 1]
      BY <1>3, <3>1
    <3> QED BY <2>1, <3>1, <3>2
  <2>2. ASSUME \A j \in (k + 1)..m : line[j] \in Name \/ (line[j] = "." /\ line[j - 1] # "."), NEW i \in 2..Len(t)
        PROVE  t[i] \in Name \/ (t[i] = "." /\ t[i - 1] # ".")
    <3>1. k + i - 1 \in (k + 1)..m /\ i \in 1..(m - k + 1) /\ i - 1 \in 1..(m - k + 1) /\ k + (i - 1) - 1 = (k + i - 1) - 1
      BY <1>1
    <3>2. t[i] = line[k + i - 1] /\ t[i - 1] = line[(k + i - 1) - 1]
      BY <1>1, <3>1
    <3> QED BY <2>2, <3>1, <3>2
  <2> QED BY <2>1, <2>2
<1>7. m > k => t[1] = line[k] /\ t[2] = line[k + 1]
  <2>1. ASSUME m > k PROVE t[1] = line[k] /\ t[2] = line[k + 1]
    <3>1. 1 \in 1..(m - k + 1) /\ 2 \in 1..(m - k + 1) /\ k + 1 - 1 = k /\ k + 2 - 1 = k + 1
      BY <2>1
    <3> QED BY <1>1, <3>1
  <2> QED BY <2>1
<1>8. (Len(t) > 1 <=> m > k) /\ (Len(t) > 2 <=> m > k + 1)
  BY <1>1
<1>9. IsRef(t) <=> RefAt(k, m)
  <2>1. (m > k + 1) => m > k
    OBVIOUS
  <2> QED BY <1>2, <1>4, <1>5, <1>6, <1>7, <1>8, <2>1 DEF IsRef, RefAt
<1> QED BY <1>9 DEF t

\* A path's dots.
LEMMA DottedIs ==
  ASSUME line \in Seq(Letters), NEW k \in 1..Len(line), line[k] = "$", NEW m \in k..Len(line)
  PROVE  Dotted(k + 1, m + 1) <=> RefAt(k, m)
<1>0. Len(line) \in Nat /\ \A j \in k..m : At(j) = line[j]
  BY DEF At
<1>1. CASE m = k
  BY <1>1 DEF Dotted, RefAt
<1>2. CASE m > k
  <2>1. ASSUME Dotted(k + 1, m + 1) PROVE RefAt(k, m)
    <3>1. line[k + 1] = "."
      BY <1>0, <1>2, <2>1 DEF Dotted
    <3>2. \A j \in (k + 1)..m : line[j] \in Name \/ (line[j] = "." /\ j + 1 < m + 1 /\ At(j + 1) \in Name)
      BY <1>0, <2>1 DEF Dotted
    <3>3. \A j \in (k + 1)..m : line[j] \in Name \/ (line[j] = "." /\ j < m /\ line[j + 1] \in Name)
      BY <1>0, <3>2
    <3>4. line[m] \in Name
      BY <1>2, <3>3
    <3>5. m > k + 1
      BY <1>2, <3>1, <3>4 DEF Name
    <3>6. ASSUME NEW j \in (k + 1)..m, line[j] = "." PROVE line[j - 1] # "."
      <4>1. CASE j = k + 1
        BY <4>1
      <4>2. CASE j > k + 1
        <5>1. j - 1 \in (k + 1)..m /\ (j - 1) + 1 = j
          BY <4>2
        <5>2. line[j - 1] = "." => line[j] \in Name
          BY <3>3, <5>1 DEF Name
        <5> QED BY <3>6, <5>2 DEF Name
      <4> QED BY <4>1, <4>2
    <3> QED BY <3>1, <3>3, <3>4, <3>5, <3>6 DEF RefAt
  <2>2. ASSUME RefAt(k, m) PROVE Dotted(k + 1, m + 1)
    <3>1. /\ line[k + 1] = "." /\ line[m] \in Name
          /\ \A j \in (k + 1)..m : line[j] \in Name \/ (line[j] = "." /\ line[j - 1] # ".")
      BY <1>2, <2>2 DEF RefAt, Sigil
    <3>2. ASSUME NEW j \in (k + 1)..m, line[j] \notin Name
          PROVE  line[j] = "." /\ j + 1 < m + 1 /\ At(j + 1) \in Name
      <4>1. j # m
        BY <3>1, <3>2
      <4>2. j + 1 \in (k + 1)..m /\ (j + 1) - 1 = j
        BY <4>1
      <4>3. line[j] = "." /\ line[j + 1] \in Name
        BY <3>1, <3>2, <4>2
      <4> QED BY <1>0, <4>1, <4>2, <4>3
    <3>3. \A j \in (k + 1)..((m + 1) - 1) : At(j) \in Name \/ (At(j) = "." /\ j + 1 < m + 1 /\ At(j + 1) \in Name)
      BY <1>0, <3>2
    <3>4. At(k + 1) = "."
      BY <1>0, <1>2, <3>1
    <3> QED BY <3>3, <3>4 DEF Dotted
  <2> QED BY <2>1, <2>2
<1> QED BY <1>1, <1>2

LEMMA PastIsThere ==
  ASSUME line \in Seq(Letters), NEW k \in Nat \ {0}, NEW chars, "end" \notin chars,
         NEW b \in Nat, k =< b, \A j \in k..(b - 1) : At(j) \in chars, At(b) \notin chars
  PROVE  Past(k, chars) = b
<1>1. /\ Past(k, chars) \in Nat /\ k =< Past(k, chars) /\ At(Past(k, chars)) \notin chars
      /\ \A j \in k..(Past(k, chars) - 1) : j \in 1..Len(line) /\ line[j] \in chars
  BY PastIs
<1> DEFINE p == Past(k, chars)
<1>2. \A j \in k..(p - 1) : At(j) \in chars
  BY <1>1 DEF At
<1> HIDE DEF p
<1>3. p \in Nat /\ k =< p /\ At(p) \notin chars
  BY <1>1 DEF p
<1>4. ~(p < b)
  BY <1>3
<1>5. ~(b < p)
  BY <1>2, <1>3
<1> QED BY <1>3, <1>4, <1>5 DEF p

\* The parser takes the longest reference there is.
LEMMA RefLongest ==
  ASSUME line \in Seq(Letters), NEW k \in 1..Len(line)
  PROVE  /\ Ref(k) = {} => (line[k] \in Sigil /\ At(k + 1) \notin Name) \/ line[k] \notin Sigil \cup {"$"}
         /\ Ref(k) = {} => \A m \in k..Len(line) : ~RefAt(k, m)
         /\ \A r \in Ref(k) :
              /\ Ref(k) = {r} /\ r - 1 \in k..Len(line) /\ r \in Nat /\ RefAt(k, r - 1)
              /\ \A m \in k..Len(line) : RefAt(k, m) => m < r
<1>0. Len(line) \in Nat /\ At(k) = line[k] /\ line[k] # "end"
  BY NoEnd DEF At
<1>1. CASE line[k] = "$"
  <2> DEFINE T == {m \in k..Len(line) : RefAt(k, m)}
  <2>1. k \in T
    BY <1>0, <1>1 DEF RefAt
  <2>2. PICK top \in T : \A m \in T : m =< top
    <3>1. T \subseteq Nat /\ \A m \in T : m =< Len(line)
      BY <1>0
    <3> HIDE DEF T
    <3> QED BY <1>0, <2>1, <3>1, GreatestOf
  <2>3. top \in k..Len(line) /\ RefAt(k, top) /\ \A m \in k..Len(line) : RefAt(k, m) => m =< top
    BY <2>2
  <2> HIDE DEF T
  <2> DEFINE P(x) == Dotted(k + 1, x) /\ \A m \in (x + 1)..(Len(line) + 1) : ~Dotted(k + 1, m)
  <2>4. P(top + 1)
    <3>1. Dotted(k + 1, top + 1)
      BY <1>1, <2>3, DottedIs
    <3>2. ASSUME NEW m \in (top + 2)..(Len(line) + 1), Dotted(k + 1, m) PROVE FALSE
      <4>1. m - 1 \in k..Len(line) /\ (m - 1) + 1 = m /\ ~(m - 1 =< top)
        BY <1>0, <2>3
      <4>2. RefAt(k, m - 1)
        BY <1>1, <3>2, <4>1, DottedIs
      <4> QED BY <2>3, <4>1, <4>2
    <3>3. (top + 1) + 1 = top + 2
      BY <2>3
    <3> QED BY <3>1, <3>2, <3>3
  <2>5. ASSUME NEW x \in (k + 1)..(Len(line) + 1), P(x) PROVE x = top + 1
    <3>1. ~(x < top + 1)
      <4>1. x < top + 1 => top + 1 \in (x + 1)..(Len(line) + 1)
        BY <1>0, <2>3
      <4> QED BY <2>4, <2>5, <4>1
    <3>2. ~(top + 1 < x)
      <4>1. top + 1 < x => x \in ((top + 1) + 1)..(Len(line) + 1)
        BY <1>0, <2>3
      <4> QED BY <2>4, <2>5, <4>1
    <3> QED BY <1>0, <2>3, <3>1, <3>2
  <2>6. Ref(k) = {CHOOSE x \in (k + 1)..(Len(line) + 1) : P(x)}
    BY <1>0, <1>1 DEF Ref, Sigil
  <2>7. top + 1 \in (k + 1)..(Len(line) + 1)
    BY <1>0, <2>3
  <2> HIDE DEF P
  <2>8. Ref(k) = {top + 1}
    BY <2>4, <2>5, <2>6, <2>7
  <2>9. (top + 1) - 1 = top /\ top + 1 \in Nat
    BY <1>0, <2>3
  <2>10. \A m \in k..Len(line) : RefAt(k, m) => m < top + 1
    BY <1>0, <2>3
  <2> QED BY <2>3, <2>8, <2>9, <2>10
<1>2. CASE line[k] \in Sigil
  <2> DEFINE p == Past(k + 1, Name)
  <2>0. "end" \notin Name /\ k + 1 \in Nat \ {0} /\ line[k] # "$"
    BY <1>2 DEF Name, Sigil
  <2>1. /\ p \in Nat /\ k + 1 =< p /\ At(p) \notin Name
        /\ \A j \in (k + 1)..(p - 1) : j \in 1..Len(line) /\ line[j] \in Name
    BY <2>0, PastIs
  <2>2. Ref(k) = {n \in {p} : n > k + 1}
    BY <1>0, <1>2, <2>0 DEF Ref
  <2> HIDE DEF p
  <2>3. ASSUME NEW m \in k..Len(line), RefAt(k, m) PROVE k < m /\ m < p
    <3>1. m > k /\ \A j \in (k + 1)..m : line[j] \in Name
      BY <2>0, <2>3 DEF RefAt
    <3>2. ~(p =< m)
      <4>1. p =< m => At(p) = line[p] /\ p \in (k + 1)..m
        BY <1>0, <2>1 DEF At
      <4> QED BY <2>1, <3>1, <4>1
    <3> QED BY <1>0, <2>1, <3>1, <3>2
  <2>4. CASE p > k + 1
    <3>1. p - 1 \in (k + 1)..(p - 1)
      BY <1>0, <2>1, <2>4
    <3>2. p - 1 \in k..Len(line) /\ RefAt(k, p - 1)
      BY <1>0, <1>2, <2>1, <2>4, <3>1 DEF RefAt
    <3>3. Ref(k) = {p}
      BY <2>2, <2>4
    <3> QED BY <2>1, <2>3, <3>2, <3>3
  <2>5. CASE ~(p > k + 1)
    <3>1. p = k + 1 /\ Ref(k) = {}
      BY <1>0, <2>1, <2>2, <2>5
    <3>2. \A m \in k..Len(line) : ~RefAt(k, m)
      BY <1>0, <2>3, <3>1
    <3> QED BY <1>2, <2>1, <3>1, <3>2
  <2> QED BY <2>4, <2>5
<1>3. CASE line[k] \notin Sigil \cup {"$"}
  <2>1. Ref(k) = {}
    BY <1>0, <1>3 DEF Ref
  <2>2. \A m \in k..Len(line) : ~RefAt(k, m)
    BY <1>3 DEF RefAt
  <2> QED BY <1>3, <2>1, <2>2
<1> QED BY <1>1, <1>2, <1>3

LEMMA RefsFromIs ==
  ASSUME line \in Seq(Letters), NEW k \in 1..Len(line)
  PROVE  RefsFrom(k) = {m \in k..Len(line) : RefAt(k, m)}
  BY RefAtIs DEF RefsFrom

\* A reference that no name and no dot follows is the longest.
LEMMA RefEnds ==
  ASSUME line \in Seq(Letters), NEW k \in 1..Len(line), NEW m \in k..Len(line), RefAt(k, m),
         At(m + 1) \notin Name \cup {"."}
  PROVE  Ref(k) = {m + 1}
<1>0. Len(line) \in Nat
  OBVIOUS
<1>1. PICK r \in Ref(k) : TRUE
  BY RefLongest
<1>2. Ref(k) = {r} /\ r - 1 \in k..Len(line) /\ r \in Nat /\ RefAt(k, r - 1) /\ m < r
  BY RefLongest
<1>3. ASSUME m + 1 < r PROVE FALSE
  <2>1. m + 1 \in (k + 1)..(r - 1) /\ At(m + 1) = line[m + 1]
    BY <1>0, <1>2, <1>3 DEF At
  <2>2. r - 1 # k
    BY <1>0, <1>2, <1>3
  <2>3. line[m + 1] \in Name \cup {"."}
    BY <1>2, <2>1, <2>2 DEF RefAt
  <2> QED BY <2>1, <2>3
<1>4. m + 1 = r
  BY <1>0, <1>2, <1>3
<1> QED BY <1>2, <1>4

\* The characters of a reference.
LEMMA RefChars ==
  ASSUME line \in Seq(Letters), NEW k \in 1..Len(line), NEW m \in k..Len(line), RefAt(k, m)
  PROVE  line[k] \in Sigil \cup {"$"} /\ \A j \in (k + 1)..m : line[j] \in Name \cup {"."}
  BY DEF RefAt

\* A reference in braces.
BracedAt(k, i, j, n) ==
  /\ line[n] = Rbrace /\ i =< j /\ RefAt(i, j)
  /\ \A m \in ((k + 1)..(i - 1)) \cup ((j + 1)..(n - 1)) : line[m] \in Hws

LEMMA BracesIs ==
  ASSUME line \in Seq(Letters), NEW k \in 1..Len(line)
  PROVE  /\ \A n \in Braces(k) : n \in 1..Len(line) /\ \E i, j \in (k + 1)..(n - 1) : BracedAt(k, i, j, n)
         /\ \A n \in 1..Len(line) : \A i, j \in (k + 1)..(n - 1) : BracedAt(k, i, j, n) => n \in Braces(k)
<1>0. Len(line) \in Nat /\ DOMAIN line = 1..Len(line)
  OBVIOUS
<1>1. ASSUME NEW n \in 1..Len(line), NEW i \in (k + 1)..(n - 1), NEW j \in (k + 1)..(n - 1), i =< j
      PROVE  IsRef(SubSeq(line, i, j)) <=> RefAt(i, j)
  <2>1. i \in 1..Len(line) /\ j \in i..Len(line)
    BY <1>0, <1>1
  <2> QED BY <2>1, RefAtIs
<1>2. ASSUME NEW n \in Braces(k)
      PROVE  n \in 1..Len(line) /\ \E i, j \in (k + 1)..(n - 1) : BracedAt(k, i, j, n)
  <2>1. n \in 1..Len(line) /\ line[n] = Rbrace
    BY <1>0 DEF Braces
  <2>2. \E i, j \in (k + 1)..(n - 1) :
          /\ i =< j /\ IsRef(SubSeq(line, i, j))
          /\ \A m \in ((k + 1)..(i - 1)) \cup ((j + 1)..(n - 1)) : line[m] \in Hws
    BY DEF Braces
  <2> QED BY <1>1, <2>1, <2>2 DEF BracedAt
<1>3. ASSUME NEW n \in 1..Len(line), NEW i \in (k + 1)..(n - 1), NEW j \in (k + 1)..(n - 1), BracedAt(k, i, j, n)
      PROVE  n \in Braces(k)
  <2>1. /\ line[n] = Rbrace /\ i =< j /\ IsRef(SubSeq(line, i, j))
        /\ \A m \in ((k + 1)..(i - 1)) \cup ((j + 1)..(n - 1)) : line[m] \in Hws
    BY <1>1, <1>3 DEF BracedAt
  <2> QED BY <1>0, <2>1 DEF Braces
<1> QED BY <1>2, <1>3

LEMMA BracedFound ==
  ASSUME line \in Seq(Letters), NEW k \in 1..Len(line), line[k] = Lbrace, NEW n \in 1..Len(line),
         NEW i \in (k + 1)..(n - 1), NEW j \in (k + 1)..(n - 1), BracedAt(k, i, j, n)
  PROVE  [from |-> i, to |-> j + 1, end |-> n + 1] \in Interp(k)
<1>0. Len(line) \in Nat /\ "end" \notin Hws
  BY DEF Hws
<1>1. \A m \in 1..Len(line) : At(m) = line[m]
  BY DEF At
<1>2. i \in 1..Len(line) /\ j \in i..Len(line) /\ j + 1 \in 1..Len(line) /\ RefAt(i, j)
  BY <1>0 DEF BracedAt
<1>3. Past(k + 1, Hws) = i
  <2>1. \A m \in (k + 1)..(i - 1) : At(m) \in Hws
    BY <1>0, <1>1, <1>2 DEF BracedAt
  <2>2. At(i) \notin Hws
    BY <1>1, <1>2, RefChars DEF Hws, Sigil
  <2>3. k + 1 \in Nat \ {0} /\ i \in Nat /\ k + 1 =< i
    OBVIOUS
  <2> QED BY <1>0, <2>1, <2>2, <2>3, PastIsThere
<1>4. \A m \in (j + 1)..(n - 1) : At(m) \in Hws
  BY <1>0, <1>1, <1>2 DEF BracedAt
<1>5. At(n) = Rbrace /\ At(n) \notin Hws
  BY <1>1, BraceChars DEF BracedAt
<1>6. Past(j + 1, Hws) = n
  <2>1. j + 1 \in Nat \ {0} /\ n \in Nat /\ j + 1 =< n
    BY <1>0
  <2> QED BY <1>0, <1>4, <1>5, <2>1, PastIsThere
<1>7. At(j + 1) \in Hws \cup {Rbrace}
  <2>1. j + 1 = n \/ j + 1 \in (j + 1)..(n - 1)
    BY <1>0
  <2> QED BY <1>4, <1>5, <2>1
<1>8. Ref(i) = {j + 1}
  <2>1. At(j + 1) \notin Name \cup {"."}
    BY <1>7, BraceChars DEF Hws, Name
  <2> QED BY <1>2, <2>1, RefEnds
<1>9. At(k) = Lbrace
  BY <1>1
<1> QED BY <1>3, <1>5, <1>6, <1>8, <1>9 DEF Interp

\* interp_parser finds what the author may read as a reference in braces, and nothing else.
LEMMA InterpFinds ==
  ASSUME line \in Seq(Letters), NEW k \in 1..Len(line), line[k] = Lbrace
  PROVE  /\ Interp(k) = {} => Braces(k) = {}
         /\ \A i \in Interp(k) :
              /\ i.from \in (k + 1)..(i.end - 2) /\ i.to - 1 \in i.from..(i.end - 2) /\ i.to \in Nat
              /\ i.end - 1 \in 1..Len(line) /\ i.end \in Nat
              /\ BracedAt(k, i.from, i.to - 1, i.end - 1)
              /\ Braces(k) = {i.end - 1}
<1>0. Len(line) \in Nat /\ "end" \notin Hws
  BY DEF Hws
<1>1. \A m \in 1..Len(line) : At(m) = line[m]
  BY DEF At
<1> DEFINE start == Past(k + 1, Hws)
<1>2. ASSUME NEW i \in Interp(k)
      PROVE  /\ i = [from |-> start, to |-> i.to, end |-> i.end]
             /\ start \in (k + 1)..(i.end - 2) /\ i.to - 1 \in start..(i.end - 2)
             /\ i.to \in Nat /\ i.end - 1 \in 1..Len(line) /\ i.end \in Nat
             /\ BracedAt(k, start, i.to - 1, i.end - 1)
             /\ Ref(start) = {i.to} /\ i.end = Past(i.to, Hws) + 1
  <2>1. PICK n \in Ref(start) : i = [from |-> start, to |-> n, end |-> Past(n, Hws) + 1] /\ At(Past(n, Hws)) = Rbrace
    BY DEF Interp
  <2>2. /\ start \in Nat /\ k + 1 =< start
        /\ \A j \in (k + 1)..(start - 1) : j \in 1..Len(line) /\ line[j] \in Hws
    <3>1. k + 1 \in Nat \ {0}
      OBVIOUS
    <3> QED BY <1>0, <3>1, PastIs
  <2> HIDE DEF start
  <2>3. start \in 1..Len(line)
    <3>1. At(start) # "end"
      BY <2>1 DEF Ref, Sigil
    <3> QED BY <2>2, <3>1, AtIs
  <2>4. Ref(start) = {n} /\ n - 1 \in start..Len(line) /\ n \in Nat /\ RefAt(start, n - 1)
    BY <2>1, <2>3, RefLongest
  <2> DEFINE p == Past(n, Hws)
  <2>5. p \in Nat /\ n =< p /\ \A j \in n..(p - 1) : j \in 1..Len(line) /\ line[j] \in Hws
    <3>1. n \in Nat \ {0}
      BY <2>3, <2>4
    <3> QED BY <1>0, <3>1, PastIs
  <2>6. At(p) = Rbrace /\ i = [from |-> start, to |-> n, end |-> p + 1]
    BY <2>1
  <2> HIDE DEF p
  <2>7. p \in 1..Len(line) /\ line[p] = Rbrace
    <3>1. At(p) # "end"
      BY <2>6, BraceChars
    <3>2. p \in 1..Len(line)
      BY <2>5, <3>1, AtIs
    <3> QED BY <1>1, <2>6, <3>2
  <2>8. BracedAt(k, start, n - 1, p)
    BY <2>2, <2>3, <2>4, <2>5, <2>7 DEF BracedAt
  <2>9. i.to = n /\ i.end = p + 1 /\ i.from = start /\ i.end - 1 = p
    BY <2>5, <2>6
  <2>10. start \in (k + 1)..(i.end - 2) /\ i.to - 1 \in start..(i.end - 2)
    BY <2>2, <2>3, <2>4, <2>5, <2>7, <2>9
  <2>11. i.end = Past(i.to, Hws) + 1
    BY <2>9 DEF p
  <2> QED BY <2>4, <2>5, <2>6, <2>7, <2>8, <2>9, <2>10, <2>11
<1>3. ASSUME NEW n \in Braces(k)
      PROVE  \E i \in Interp(k) : n = i.end - 1
  <2>1. PICK i, j \in (k + 1)..(n - 1) : BracedAt(k, i, j, n)
    BY BracesIs
  <2>2. n \in 1..Len(line)
    BY BracesIs
  <2>3. [from |-> i, to |-> j + 1, end |-> n + 1] \in Interp(k)
    BY <2>1, <2>2, BracedFound
  <2>4. [from |-> i, to |-> j + 1, end |-> n + 1].end - 1 = n
    BY <2>2
  <2> QED BY <2>3, <2>4
<1>4. ASSUME NEW i \in Interp(k) PROVE Braces(k) = {i.end - 1}
  <2>1. i.end - 1 \in Braces(k)
    <3> DEFINE n == i.end - 1
               j == i.to - 1
    <3>0. start \in (k + 1)..(n - 1) /\ j \in (k + 1)..(n - 1) /\ n \in 1..Len(line) /\ BracedAt(k, start, j, n)
      BY <1>0, <1>2
    <3> HIDE DEF n, j, start
    <3>1. n \in Braces(k)
      BY <3>0, BracesIs
    <3> QED BY <3>1 DEF n
  <2>2. ASSUME NEW n \in Braces(k) PROVE n = i.end - 1
    <3>1. PICK x \in Interp(k) : n = x.end - 1
      BY <1>3
    <3>2. x.to = i.to
      BY <1>2
    <3>3. x.end = i.end
      BY <1>2, <3>2
    <3> QED BY <3>1, <3>3
  <2> QED BY <2>1, <2>2
<1>5. Interp(k) = {} => Braces(k) = {}
  BY <1>3
<1>6. ASSUME NEW i \in Interp(k) PROVE i.from = start
  <2>1. i = [from |-> start, to |-> i.to, end |-> i.end]
    BY <1>2
  <2> HIDE DEF start
  <2> QED BY <2>1
<1> HIDE DEF start
<1> QED BY <1>2, <1>4, <1>5, <1>6

----------------------------------------------------------------------------
(* One sequence after the other. *)

LEMMA FlattensTo ==
  ASSUME NEW s, NEW n \in Nat, NEW f, Flattens(s, n, f),
         NEW t, NEW g, NEW m \in n..(n + 1), Flattens(t, m, g), \A i \in 1..n : s[i] = t[i]
  PROVE  \A i \in 1..n : f[i] = g[i]
<1> DEFINE T == {i \in 1..n : f[i] # g[i]}
<1> SUFFICES ASSUME T # {} PROVE FALSE
  OBVIOUS
<1>1. PICK k \in T : \A i \in T : k =< i
  <2>1. T \subseteq Nat
    OBVIOUS
  <2> QED BY <2>1, LeastOf
<1>2. k \in 1..n /\ k \in 1..m /\ f[k] # g[k]
  OBVIOUS
<1>3. f[k] = (IF k = 1 THEN s[k] ELSE f[k - 1] \o s[k]) /\ g[k] = (IF k = 1 THEN t[k] ELSE g[k - 1] \o t[k])
  BY <1>2 DEF Flattens
<1>4. k # 1
  BY <1>2, <1>3
<1>5. k - 1 \in 1..n /\ k - 1 < k
  BY <1>2, <1>4
<1>6. f[k - 1] = g[k - 1]
  BY <1>1, <1>2, <1>5
<1> QED BY <1>2, <1>3, <1>4, <1>6

LEMMA FlattenLast ==
  ASSUME NEW S, NEW seqs \in Seq(Seq(S)), seqs # <<>>
  PROVE  \E f : Flattens(seqs, Len(seqs), f) /\ FlattenSeq(seqs) = f[Len(seqs)]
<1>1. Len(seqs) \in Nat /\ Len(seqs) # 0
  OBVIOUS
<1> DEFINE f == CHOOSE f : Flattens(seqs, Len(seqs), f)
<1>2. Flattens(seqs, Len(seqs), f)
  BY <1>1, FlattenEnds
<1>3. FlattenSeq(seqs) = f[Len(seqs)]
  BY <1>1 DEF FlattenSeq, Flattens
<1> QED BY <1>2, <1>3

LEMMA FlattenNone ==
  FlattenSeq(<<>>) = <<>>
  BY DEF FlattenSeq

LEMMA FlattenAppend ==
  ASSUME NEW S, NEW seqs \in Seq(Seq(S)), NEW x \in Seq(S)
  PROVE  FlattenSeq(Append(seqs, x)) = FlattenSeq(seqs) \o x
<1> DEFINE n == Len(seqs)
           t == Append(seqs, x)
<1>1. n \in Nat /\ t \in Seq(Seq(S)) /\ Len(t) = n + 1 /\ t # <<>> /\ t[n + 1] = x
      /\ \A i \in 1..n : seqs[i] = t[i]
  <2>1. /\ t \in Seq(Seq(S)) /\ t # <<>> /\ Len(t) = Len(seqs) + 1
        /\ \A i \in 1..Len(seqs) : t[i] = seqs[i]
        /\ t[Len(seqs) + 1] = x
    BY AppendProperties
  <2> QED BY <2>1
<1> HIDE DEF t
<1>2. PICK g : Flattens(t, n + 1, g) /\ FlattenSeq(t) = g[n + 1]
  BY <1>1, FlattenLast
<1>3. g[n + 1] = IF n + 1 = 1 THEN t[n + 1] ELSE g[(n + 1) - 1] \o t[n + 1]
  <2> HIDE DEF n
  <2>1. n + 1 \in 1..(n + 1)
    BY <1>1
  <2> QED BY <1>2, <2>1 DEF Flattens
<1>4. CASE n = 0
  <2>1. seqs = <<>>
    BY <1>4
  <2>2. FlattenSeq(seqs) = <<>>
    BY <2>1, FlattenNone
  <2>3. <<>> \o x = x
    OBVIOUS
  <2> QED BY <1>1, <1>2, <1>3, <1>4, <2>2, <2>3 DEF t
<1>5. CASE n # 0
  <2>1. seqs # <<>>
    BY <1>5
  <2>2. PICK f : Flattens(seqs, n, f) /\ FlattenSeq(seqs) = f[n]
    BY <2>1, FlattenLast
  <2> HIDE DEF n
  <2>3. n + 1 \in n..(n + 1) /\ n \in 1..n /\ (n + 1) - 1 = n /\ n + 1 # 1
    BY <1>1, <1>5
  <2>4. f[n] = g[n]
    <3>1. n \in Nat /\ (\A i \in 1..n : seqs[i] = t[i])
      BY <1>1
    <3>2. Flattens(seqs, n, f) /\ Flattens(t, n + 1, g) /\ n + 1 \in n..(n + 1)
      BY <1>2, <2>2, <2>3
    <3>3. \A i \in 1..n : f[i] = g[i]
      BY <3>1, <3>2, FlattensTo
    <3> QED BY <2>3, <3>3
  <2> QED BY <1>1, <1>2, <1>3, <2>2, <2>3, <2>4 DEF t
<1> QED BY <1>4, <1>5

LEMMA FlattenOne ==
  ASSUME NEW S, NEW x \in Seq(S)
  PROVE  FlattenSeq(<<x>>) = x
<1>1. <<>> \in Seq(Seq(S)) /\ Append(<<>>, x) = <<x>> /\ <<>> \o x = x
  OBVIOUS
<1>2. FlattenSeq(Append(<<>>, x)) = FlattenSeq(<<>>) \o x
  BY <1>1, FlattenAppend
<1> QED BY <1>1, <1>2, FlattenNone

----------------------------------------------------------------------------
(* Texts of words, of the author's and of the parser's. *)

Marked == Letters \X BOOLEAN
Spelled(a, b, flag) == [j \in 1..(b - a) |-> <<line[a + j - 1], flag>>]
TextFrom(f, m) == FlattenSeq([k \in 1..(m - f) |-> Shown(f + k - 1)])
PartShown(p) == [j \in DOMAIN p.text |-> <<p.text[j], p.ref>>]
PartsText(parts) == FlattenSeq([k \in DOMAIN parts |-> PartShown(parts[k])])

LEMMA ConcatOne ==
  ASSUME NEW S, NEW s \in Seq(S), NEW t \in Seq(S), NEW x \in S
  PROVE  (s \o t) \o <<x>> = s \o (t \o <<x>>)
  OBVIOUS

LEMMA ShownIs ==
  ASSUME line \in Seq(Letters), NEW k \in 1..Len(line)
  PROVE  Shown(k) \in Seq(Marked)
<1>1. InRef(k) \in BOOLEAN
  BY DEF InRef
<1>2. <<line[k], InRef(k)>> \in Marked
  BY <1>1 DEF Marked
<1>3. <<<<line[k], InRef(k)>>>> \in Seq(Marked)
  BY <1>2
<1> QED BY <1>3 DEF Shown

LEMMA SpelledIs ==
  ASSUME line \in Seq(Letters), NEW a \in 1..(Len(line) + 1), NEW b \in a..(Len(line) + 1), NEW flag \in BOOLEAN
  PROVE  Spelled(a, b, flag) \in Seq(Marked) /\ Len(Spelled(a, b, flag)) = b - a
<1>1. b - a \in Nat
  OBVIOUS
<1>2. ASSUME NEW j \in 1..(b - a) PROVE <<line[a + j - 1], flag>> \in Marked
  <2>1. a + j - 1 \in 1..Len(line)
    OBVIOUS
  <2>2. line[a + j - 1] \in Letters
    BY <2>1
  <2> QED BY <2>2 DEF Marked
<1>3. Spelled(a, b, flag) = [j \in 1..(b - a) |-> Spelled(a, b, flag)[j]]
      /\ \A j \in 1..(b - a) : Spelled(a, b, flag)[j] \in Marked
  BY <1>2 DEF Spelled
<1>4. Spelled(a, b, flag) \in Seq(Marked)
  BY <1>1, <1>3, SequenceOf
<1>5. DOMAIN Spelled(a, b, flag) = 1..(b - a)
  BY <1>3
<1> QED BY <1>1, <1>4, <1>5

LEMMA TextsAreMarked ==
  ASSUME line \in Seq(Letters), NEW f \in 1..(Len(line) + 1), NEW m \in f..(Len(line) + 1)
  PROVE  [k \in 1..(m - f) |-> Shown(f + k - 1)] \in Seq(Seq(Marked)) /\ TextFrom(f, m) \in Seq(Marked)
<1> DEFINE s == [k \in 1..(m - f) |-> Shown(f + k - 1)]
<1>1. m - f \in Nat
  OBVIOUS
<1>2. ASSUME NEW k \in 1..(m - f) PROVE Shown(f + k - 1) \in Seq(Marked)
  <2>1. f + k - 1 \in 1..Len(line)
    OBVIOUS
  <2> QED BY <2>1, ShownIs
<1>3. s \in Seq(Seq(Marked))
  <2>1. \A k \in 1..(m - f) : s[k] \in Seq(Marked)
    BY <1>2
  <2>2. s = [k \in 1..(m - f) |-> s[k]]
    OBVIOUS
  <2> HIDE DEF s
  <2> QED BY <1>1, <2>1, <2>2, SequenceOf
<1>4. FlattenSeq(s) \in Seq(Marked)
  <2> HIDE DEF s
  <2> QED BY <1>3, FlattenIs
<1> QED BY <1>3, <1>4 DEF TextFrom

LEMMA TextNone ==
  ASSUME line \in Seq(Letters), NEW f \in 1..(Len(line) + 1)
  PROVE  TextFrom(f, f) = <<>>
<1>1. f - f = 0
  OBVIOUS
<1>2. [k \in 1..0 |-> Shown(f + k - 1)] = <<>>
  OBVIOUS
<1>3. TextFrom(f, f) = FlattenSeq([k \in 1..0 |-> Shown(f + k - 1)])
  BY <1>1 DEF TextFrom
<1> QED BY <1>2, <1>3, FlattenNone

LEMMA TextNext ==
  ASSUME line \in Seq(Letters), NEW f \in 1..(Len(line) + 1), NEW m \in f..Len(line)
  PROVE  TextFrom(f, m + 1) = TextFrom(f, m) \o Shown(m)
<1> DEFINE s == [k \in 1..(m - f) |-> Shown(f + k - 1)]
           t == [k \in 1..((m + 1) - f) |-> Shown(f + k - 1)]
<1>0. f + ((m + 1) - f) - 1 = m /\ (m + 1) - f = (m - f) + 1 /\ m - f \in Nat /\ m \in 1..Len(line)
      /\ m \in f..(Len(line) + 1) /\ m + 1 \in f..(Len(line) + 1)
  OBVIOUS
<1>1. s \in Seq(Seq(Marked)) /\ t \in Seq(Seq(Marked))
  BY <1>0, TextsAreMarked
<1>2. Shown(m) \in Seq(Marked)
  BY <1>0, ShownIs
<1>3. Len(s) = m - f /\ Len(t) = (m - f) + 1
  BY <1>0
<1>4. \A i \in 1..(m - f) : t[i] = s[i]
  BY <1>0
<1>5. t[(m - f) + 1] = Shown(m)
  BY <1>0
<1>6. TextFrom(f, m) = FlattenSeq(s) /\ TextFrom(f, m + 1) = FlattenSeq(t)
  BY DEF TextFrom
<1> HIDE DEF s, t
<1>7. t = Append(s, Shown(m))
  BY <1>0, <1>1, <1>2, <1>3, <1>4, <1>5
<1> QED BY <1>1, <1>2, <1>6, <1>7, FlattenAppend

\* Characters that are not part of the text.
LEMMA TextSkips ==
  ASSUME line \in Seq(Letters), NEW f \in 1..(Len(line) + 1), NEW a \in f..(Len(line) + 1),
         NEW b \in a..(Len(line) + 1), \A k \in a..(b - 1) : ~Kept(k)
  PROVE  TextFrom(f, b) = TextFrom(f, a)
<1>0. Len(line) \in Nat
  OBVIOUS
<1> DEFINE T == {m \in a..b : TextFrom(f, m) # TextFrom(f, a)}
<1> SUFFICES ASSUME b \in T PROVE FALSE
  OBVIOUS
<1>1. PICK m \in T : \A k \in T : m =< k
  <2>1. T \subseteq Nat
    BY <1>0
  <2> QED BY <2>1, LeastOf
<1>2. m # a /\ m \in a..b /\ TextFrom(f, m) # TextFrom(f, a)
  OBVIOUS
<1>3. m - 1 \in a..b /\ m - 1 < m /\ m - 1 \in f..Len(line) /\ (m - 1) + 1 = m /\ m - 1 \in a..(b - 1)
  BY <1>0, <1>2
<1>4. TextFrom(f, m - 1) = TextFrom(f, a)
  BY <1>1, <1>2, <1>3
<1> HIDE DEF T
<1>5. TextFrom(f, m) = TextFrom(f, m - 1) \o Shown(m - 1)
  BY <1>3, TextNext
<1>6. Shown(m - 1) = <<>>
  BY <1>3 DEF Shown
<1>7. TextFrom(f, m - 1) \in Seq(Marked)
  <2>1. m - 1 \in f..(Len(line) + 1)
    BY <1>0, <1>3
  <2> QED BY <2>1, TextsAreMarked
<1>8. TextFrom(f, m - 1) \o <<>> = TextFrom(f, m - 1)
  BY <1>7
<1> QED BY <1>2, <1>4, <1>5, <1>6, <1>8

\* Characters that all are, each by itself or each in a reference.
LEMMA TextSpells ==
  ASSUME line \in Seq(Letters), NEW f \in 1..(Len(line) + 1), NEW a \in f..(Len(line) + 1),
         NEW b \in a..(Len(line) + 1), NEW flag \in BOOLEAN,
         \A k \in a..(b - 1) : Kept(k) /\ InRef(k) = flag
  PROVE  TextFrom(f, b) = TextFrom(f, a) \o Spelled(a, b, flag)
<1>0. Len(line) \in Nat /\ a \in 1..(Len(line) + 1)
  OBVIOUS
<1> DEFINE base == TextFrom(f, a)
           T == {m \in a..b : TextFrom(f, m) # base \o Spelled(a, m, flag)}
<1> SUFFICES ASSUME b \in T PROVE FALSE
  OBVIOUS
<1>1. base \in Seq(Marked)
  BY TextsAreMarked
<1>2. PICK m \in T : \A k \in T : m =< k
  <2>1. T \subseteq Nat
    BY <1>0
  <2> QED BY <2>1, LeastOf
<1>3. m \in a..b /\ TextFrom(f, m) # base \o Spelled(a, m, flag)
  OBVIOUS
<1>4. m # a
  <2>1. a - a = 0
    BY <1>0
  <2>2. Spelled(a, a, flag) = <<>>
    BY <2>1 DEF Spelled
  <2>3. base \o <<>> = base
    BY <1>1
  <2> QED BY <1>3, <2>2, <2>3
<1>5. m - 1 \in a..b /\ m - 1 < m /\ m - 1 \in f..Len(line) /\ (m - 1) + 1 = m /\ m - 1 \in a..(b - 1)
      /\ m - 1 \in a..(Len(line) + 1) /\ m \in a..(Len(line) + 1) /\ m - 1 \in 1..Len(line)
  BY <1>0, <1>3, <1>4
<1>6. TextFrom(f, m - 1) = base \o Spelled(a, m - 1, flag)
  <2> HIDE DEF base
  <2>1. m - 1 \notin T
    <3>1. m - 1 \in Nat /\ m \in Nat
      BY <1>0, <1>5
    <3> HIDE DEF T
    <3> QED BY <1>2, <1>5, <3>1
  <2> QED BY <1>5, <2>1
<1> HIDE DEF T, base
<1>7. TextFrom(f, m) = TextFrom(f, m - 1) \o Shown(m - 1)
  BY <1>5, TextNext
<1>8. Shown(m - 1) = <<<<line[m - 1], flag>>>>
  BY <1>5 DEF Shown
<1>9. Spelled(a, m - 1, flag) \in Seq(Marked) /\ Len(Spelled(a, m - 1, flag)) = (m - 1) - a
      /\ Spelled(a, m, flag) \in Seq(Marked) /\ Len(Spelled(a, m, flag)) = m - a
  BY <1>0, <1>5, SpelledIs
<1>10. <<line[m - 1], flag>> \in Marked
  BY <1>5 DEF Marked
<1>11. Spelled(a, m, flag) = Spelled(a, m - 1, flag) \o <<<<line[m - 1], flag>>>>
  <2> DEFINE p == Spelled(a, m - 1, flag)
             q == Spelled(a, m, flag)
             c == <<line[m - 1], flag>>
  <2>1. \A i \in 1..(m - a) : q[i] = <<line[a + i - 1], flag>>
    BY DEF Spelled
  <2>2. \A i \in 1..((m - 1) - a) : p[i] = <<line[a + i - 1], flag>>
    BY DEF Spelled
  <2>3. p \in Seq(Marked) /\ q \in Seq(Marked) /\ Len(p) = (m - 1) - a /\ Len(q) = m - a /\ c \in Marked
    BY <1>9, <1>10
  <2>4. q[m - a] = c
    <3>1. m - a \in 1..(m - a) /\ a + (m - a) - 1 = m - 1
      BY <1>0, <1>3, <1>4
    <3> HIDE DEF p, q
    <3> QED BY <2>1, <3>1
  <2> HIDE DEF p, q, c
  <2>5. m - a = Len(p) + 1 /\ Len(p) \in Nat
    BY <1>0, <1>3, <2>3
  <2>6. q = Append(p, c)
    <3> DEFINE r == Append(p, c)
    <3>1. /\ r \in Seq(Marked) /\ Len(r) = Len(p) + 1
          /\ \A i \in 1..Len(p) : r[i] = p[i]
          /\ r[Len(p) + 1] = c
      BY <2>3, AppendProperties
    <3> HIDE DEF r
    <3>2. Len(q) = Len(r)
      BY <2>3, <2>5, <3>1
    <3>3. ASSUME NEW i \in 1..Len(q) PROVE q[i] = r[i]
      <4>1. CASE i = Len(p) + 1
        BY <2>4, <2>5, <3>1, <4>1
      <4>2. CASE i # Len(p) + 1
        <5>1. i \in 1..Len(p) /\ i \in 1..(m - a) /\ i \in 1..((m - 1) - a)
          BY <1>0, <1>3, <2>3, <2>5, <4>2
        <5> QED BY <2>1, <2>2, <3>1, <5>1
      <4> QED BY <4>1, <4>2
    <3>4. q = r
      BY <2>3, <3>1, <3>2, <3>3, SeqEqual
    <3> QED BY <3>4 DEF r
  <2> QED BY <2>3, <2>6, AppendIsConcat DEF p, q, c
<1>12. (base \o Spelled(a, m - 1, flag)) \o <<<<line[m - 1], flag>>>>
         = base \o (Spelled(a, m - 1, flag) \o <<<<line[m - 1], flag>>>>)
  <2> DEFINE p == Spelled(a, m - 1, flag)
             c == <<line[m - 1], flag>>
  <2>1. p \in Seq(Marked) /\ c \in Marked /\ base \in Seq(Marked)
    BY <1>1, <1>9, <1>10
  <2> HIDE DEF p, c
  <2>3. (base \o p) \o <<c>> = base \o (p \o <<c>>)
    BY ONLY <2>1, ConcatOne
  <2> QED BY <2>3 DEF p, c
<1> QED BY <1>3, <1>6, <1>7, <1>8, <1>11, <1>12

LEMMA PartShownIs ==
  ASSUME NEW C, NEW p \in PartOf(C)
  PROVE  PartShown(p) \in Seq(Marked) /\ Len(PartShown(p)) = Len(p.text)
<1>1. p.text \in Seq(Letters) /\ p.ref \in BOOLEAN
  BY DEF PartOf
<1>2. Len(p.text) \in Nat /\ DOMAIN p.text = 1..Len(p.text)
  BY <1>1
<1> DEFINE s == PartShown(p)
<1>3. s = [j \in 1..Len(p.text) |-> <<p.text[j], p.ref>>]
  BY <1>2 DEF PartShown
<1>4. \A j \in 1..Len(p.text) : s[j] \in Marked
  BY <1>1, <1>3 DEF Marked
<1> HIDE DEF s
<1>5. s = [j \in 1..Len(p.text) |-> s[j]]
  BY <1>3
<1>6. s \in Seq(Marked)
  BY <1>2, <1>4, <1>5, SequenceOf
<1>7. Len(s) = Len(p.text)
  BY <1>2, <1>3, <1>6
<1> QED BY <1>6, <1>7 DEF s

LEMMA PartsAreMarked ==
  ASSUME NEW parts \in Seq(PartOf(Letters))
  PROVE  [k \in DOMAIN parts |-> PartShown(parts[k])] \in Seq(Seq(Marked)) /\ PartsText(parts) \in Seq(Marked)
<1> DEFINE s == [k \in DOMAIN parts |-> PartShown(parts[k])]
<1>1. Len(parts) \in Nat /\ DOMAIN parts = 1..Len(parts)
  OBVIOUS
<1>2. \A k \in 1..Len(parts) : s[k] \in Seq(Marked)
  <2>1. ASSUME NEW k \in 1..Len(parts) PROVE s[k] \in Seq(Marked)
    <3>1. parts[k] \in PartOf(Letters) /\ s[k] = PartShown(parts[k])
      OBVIOUS
    <3> HIDE DEF s
    <3> QED BY <3>1, PartShownIs
  <2> QED BY <2>1
<1>3. s = [k \in 1..Len(parts) |-> s[k]]
  BY <1>1
<1>4. s \in Seq(Seq(Marked))
  <2> HIDE DEF s
  <2> QED BY <1>1, <1>2, <1>3, SequenceOf
<1>5. FlattenSeq(s) \in Seq(Marked)
  <2> HIDE DEF s
  <2> QED BY <1>4, FlattenIs
<1> QED BY <1>4, <1>5 DEF PartsText

LEMMA PartsAppend ==
  ASSUME NEW parts \in Seq(PartOf(Letters)), NEW p \in PartOf(Letters)
  PROVE  PartsText(Append(parts, p)) = PartsText(parts) \o PartShown(p)
<1> DEFINE more == Append(parts, p)
           s == [k \in DOMAIN parts |-> PartShown(parts[k])]
           t == [k \in DOMAIN more |-> PartShown(more[k])]
<1>1. /\ more \in Seq(PartOf(Letters)) /\ Len(more) = Len(parts) + 1 /\ Len(parts) \in Nat
      /\ \A i \in 1..Len(parts) : more[i] = parts[i]
      /\ more[Len(parts) + 1] = p
  BY AppendProperties
<1> HIDE DEF more
<1>2. s \in Seq(Seq(Marked)) /\ t \in Seq(Seq(Marked)) /\ PartShown(p) \in Seq(Marked)
  BY <1>1, PartsAreMarked, PartShownIs
<1>3. DOMAIN parts = 1..Len(parts) /\ DOMAIN more = 1..(Len(parts) + 1)
  BY <1>1
<1>4. Len(s) = Len(parts) /\ Len(t) = Len(parts) + 1
  BY <1>1, <1>3
<1>5. \A i \in 1..Len(parts) : t[i] = s[i]
  BY <1>1, <1>3
<1>6. t[Len(parts) + 1] = PartShown(p)
  BY <1>1, <1>3
<1>7. PartsText(parts) = FlattenSeq(s) /\ PartsText(more) = FlattenSeq(t)
  BY DEF PartsText
<1> HIDE DEF s, t
<1>8. t = Append(s, PartShown(p))
  BY <1>1, <1>2, <1>4, <1>5, <1>6
<1>9. FlattenSeq(t) = FlattenSeq(s) \o PartShown(p)
  BY <1>2, <1>8, FlattenAppend
<1> QED BY <1>7, <1>9 DEF more

LEMMA FrontIs ==
  ASSUME NEW S, NEW s \in Seq(S), s # <<>>
  PROVE  Front(s) \in Seq(S) /\ s = Append(Front(s), Last(s))
<1>1. Len(s) \in Nat \ {0}
  OBVIOUS
<1> DEFINE n == Len(s) - 1
           f == SubSeq(s, 1, n)
<1>2. n \in Nat /\ n + 1 = Len(s) /\ n \in 0..Len(s)
  BY <1>1
<1> HIDE DEF n
<1>3. f \in Seq(S) /\ Len(f) = n /\ \A i \in 1..n : f[i] = s[i]
  <2>1. f \in Seq(S) /\ Len(f) = (IF 1 =< n THEN n - 1 + 1 ELSE 0) /\ \A i \in 1..(n - 1 + 1) : f[i] = s[1 + i - 1]
    BY <1>1, <1>2, SubSeqProperties
  <2> HIDE DEF f
  <2> QED BY <1>2, <2>1
<1> HIDE DEF f
<1>4. Front(s) = f
  BY DEF Front, f, n
<1>5. Last(s) = s[Len(s)] /\ s[Len(s)] \in S
  BY <1>1 DEF Last
<1> DEFINE a == Append(f, s[Len(s)])
<1>6. /\ a \in Seq(S) /\ Len(a) = n + 1 /\ \A i \in 1..n : a[i] = f[i]
      /\ a[n + 1] = s[Len(s)]
  BY <1>3, <1>5, AppendProperties
<1> HIDE DEF a
<1>7. ASSUME NEW i \in 1..Len(s) PROVE s[i] = a[i]
  <2>1. i = n + 1 \/ i \in 1..n
    BY <1>2
  <2> QED BY <1>2, <1>3, <1>6, <2>1
<1>8. s = a
  BY <1>2, <1>6, <1>7, SeqEqual
<1> QED BY <1>3, <1>4, <1>5, <1>8 DEF a

LEMMA LiteralShown ==
  ASSUME NEW s \in Seq(Letters), NEW t \in Seq(Letters)
  PROVE  PartShown(Literal(s \o t)) = PartShown(Literal(s)) \o PartShown(Literal(t))
<1>1. /\ s \o t \in Seq(Letters) /\ Len(s \o t) = Len(s) + Len(t) /\ Len(s) \in Nat /\ Len(t) \in Nat
      /\ \A i \in 1..(Len(s) + Len(t)) : (s \o t)[i] = IF i =< Len(s) THEN s[i] ELSE t[i - Len(s)]
  OBVIOUS
<1> DEFINE u == s \o t
<1>2. /\ PartShown(Literal(s)) = [j \in 1..Len(s) |-> <<s[j], FALSE>>]
      /\ PartShown(Literal(t)) = [j \in 1..Len(t) |-> <<t[j], FALSE>>]
      /\ PartShown(Literal(u)) = [j \in 1..Len(u) |-> <<u[j], FALSE>>]
  <2>1. DOMAIN s = 1..Len(s) /\ DOMAIN t = 1..Len(t) /\ DOMAIN u = 1..Len(u)
    BY <1>1
  <2> HIDE DEF u
  <2> QED BY <2>1 DEF PartShown, Literal
<1>3. Literal(s) \in PartOf(Letters) /\ Literal(t) \in PartOf(Letters) /\ Literal(u) \in PartOf(Letters)
  BY <1>1 DEF Literal, PartOf
<1> HIDE DEF u
<1> DEFINE a == PartShown(Literal(s))
           b == PartShown(Literal(t))
           c == PartShown(Literal(u))
<1>4. a \in Seq(Marked) /\ b \in Seq(Marked) /\ c \in Seq(Marked)
  BY <1>3, PartShownIs
<1>5. Len(a) = Len(s) /\ Len(b) = Len(t) /\ Len(c) = Len(s) + Len(t)
  BY <1>1, <1>2 DEF u
<1>6. /\ \A j \in 1..Len(s) : a[j] = <<s[j], FALSE>>
      /\ \A j \in 1..Len(t) : b[j] = <<t[j], FALSE>>
      /\ \A j \in 1..(Len(s) + Len(t)) : c[j] = <<u[j], FALSE>>
  BY <1>1, <1>2 DEF u
<1> HIDE DEF a, b, c
<1> DEFINE d == a \o b
<1>7. d \in Seq(Marked) /\ Len(d) = Len(a) + Len(b)
      /\ \A i \in 1..(Len(a) + Len(b)) : d[i] = IF i =< Len(a) THEN a[i] ELSE b[i - Len(a)]
  BY <1>4
<1> HIDE DEF d
<1>8. ASSUME NEW i \in 1..Len(c) PROVE c[i] = d[i]
  <2>1. CASE i =< Len(s)
    <3>1. i \in 1..Len(s) /\ u[i] = s[i]
      BY <1>1, <1>5, <2>1 DEF u
    <3> QED BY <1>1, <1>5, <1>6, <1>7, <2>1, <3>1
  <2>2. CASE ~(i =< Len(s))
    <3>1. i - Len(s) \in 1..Len(t) /\ u[i] = t[i - Len(s)]
      BY <1>1, <1>5, <2>2 DEF u
    <3> QED BY <1>1, <1>5, <1>6, <1>7, <2>2, <3>1
  <2> QED BY <2>1, <2>2
<1>9. c = d
  <2>1. Len(c) = Len(d)
    BY <1>5, <1>7
  <2> QED BY <1>4, <1>7, <1>8, <2>1, SeqEqual
<1> QED BY <1>9 DEF a, b, c, d, u

\* merge_literals keeps the text.
LEMMA MergedText ==
  ASSUME NEW parts \in Seq(PartOf(Letters)), NEW p \in PartOf(Letters)
  PROVE  PartsText(Merged(parts, p)) = PartsText(parts) \o PartShown(p)
<1>1. CASE ~p.ref /\ parts # <<>> /\ ~Last(parts).ref
  <2> DEFINE front == Front(parts)
             last == Last(parts)
             both == Literal(last.text \o p.text)
  <2>1. Len(parts) \in Nat \ {0} /\ last = parts[Len(parts)] /\ last \in PartOf(Letters)
    BY <1>1 DEF Last
  <2>2. front \in Seq(PartOf(Letters)) /\ parts = Append(front, last)
    BY <1>1, FrontIs
  <2> HIDE DEF front, last
  <2>3. parts = Append(front, last)
    BY <2>2
  <2>4. last.text \in Seq(Letters) /\ p.text \in Seq(Letters) /\ ~last.ref /\ ~p.ref
    BY <1>1, <2>1 DEF PartOf, last
  <2>5. Literal(last.text) = last /\ Literal(p.text) = p
    <3>1. last \in [ref : BOOLEAN, text : Seq(Letters)] /\ p \in [ref : BOOLEAN, text : Seq(Letters)]
      BY <2>1 DEF PartOf
    <3> QED BY <2>4, <3>1 DEF Literal
  <2>6. PartShown(both) = PartShown(last) \o PartShown(p)
    BY <2>4, <2>5, LiteralShown
  <2>7. both \in PartOf(Letters)
    <3>1. last.text \o p.text \in Seq(Letters)
      BY <2>4
    <3> QED BY <3>1 DEF Literal, PartOf
  <2> HIDE DEF both
  <2>8. PartsText(Append(front, both)) = PartsText(front) \o PartShown(both)
    BY <2>2, <2>7, PartsAppend
  <2>9. PartsText(parts) = PartsText(front) \o PartShown(last)
    BY <2>1, <2>2, <2>3, PartsAppend
  <2>10. PartsText(front) \in Seq(Marked) /\ PartShown(last) \in Seq(Marked) /\ PartShown(p) \in Seq(Marked)
    BY <2>1, <2>2, PartsAreMarked, PartShownIs
  <2>11. (PartsText(front) \o PartShown(last)) \o PartShown(p) = PartsText(front) \o (PartShown(last) \o PartShown(p))
    BY ONLY <2>10, ConcatAssociative
  <2>12. Merged(parts, p) = Append(front, both)
    BY <1>1 DEF Merged, front, last, both
  <2> QED BY <2>6, <2>8, <2>9, <2>11, <2>12
<1>2. CASE ~(~p.ref /\ parts # <<>> /\ ~Last(parts).ref)
  <2>1. Merged(parts, p) = Append(parts, p)
    BY <1>2 DEF Merged
  <2> QED BY <2>1, PartsAppend
<1> QED BY <1>1, <1>2

\* Parts taken from the line.
LEMMA SliceShown ==
  ASSUME line \in Seq(Letters), NEW a \in 1..Len(line), NEW b \in (a + 1)..(Len(line) + 1)
  PROVE  /\ PartShown(Literal(SubSeq(line, a, b - 1))) = Spelled(a, b, FALSE)
         /\ PartShown(RefPart(a, b)) = Spelled(a, b, TRUE)
         /\ Literal(SubSeq(line, a, b - 1)) \in PartOf(Letters)
         /\ RefPart(a, b) \in PartOf(Letters)
<1> DEFINE t == SubSeq(line, a, b - 1)
<1>0. Len(line) \in Nat
  OBVIOUS
<1>1. t \in Seq(Letters) /\ Len(t) = b - a /\ DOMAIN t = 1..(b - a) /\ \A j \in 1..(b - a) : t[j] = line[a + j - 1]
  BY <1>0
<1> HIDE DEF t
<1>2. [j \in DOMAIN t |-> <<t[j], FALSE>>] = Spelled(a, b, FALSE)
  BY <1>1 DEF Spelled
<1>3. [j \in DOMAIN t |-> <<t[j], TRUE>>] = Spelled(a, b, TRUE)
  BY <1>1 DEF Spelled
<1>4. PartShown(Literal(t)) = Spelled(a, b, FALSE)
  BY <1>2 DEF PartShown, Literal
<1>5. RefPart(a, b) = [ref |-> TRUE, text |-> t]
  BY DEF RefPart, t
<1>6. PartShown(RefPart(a, b)) = Spelled(a, b, TRUE)
  BY <1>3, <1>5 DEF PartShown
<1>7. Literal(t) \in PartOf(Letters) /\ RefPart(a, b) \in PartOf(Letters)
  BY <1>1, <1>5 DEF Literal, PartOf
<1> QED BY <1>4, <1>6, <1>7 DEF t

LEMMA OneShown ==
  ASSUME line \in Seq(Letters), NEW k \in 1..Len(line)
  PROVE  PartShown(Literal(<<line[k]>>)) = Spelled(k, k + 1, FALSE) /\ Literal(<<line[k]>>) \in PartOf(Letters)
<1>1. k + 1 \in (k + 1)..(Len(line) + 1) /\ (k + 1) - 1 = k
  OBVIOUS
<1>2. SubSeq(line, k, k) = <<line[k]>>
  <2> DEFINE s == SubSeq(line, k, k)
  <2>1. s \in Seq(Letters) /\ Len(s) = 1 /\ s[1] = line[k]
    <3>1. k - k + 1 = 1 /\ k + 1 - 1 = k
      OBVIOUS
    <3>2. s \in Seq(Letters) /\ Len(s) = k - k + 1 /\ \A i \in 1..(k - k + 1) : s[i] = line[k + i - 1]
      OBVIOUS
    <3> HIDE DEF s
    <3> QED BY <3>1, <3>2
  <2> HIDE DEF s
  <2>2. s = <<line[k]>>
    BY <2>1
  <2> QED BY <2>2 DEF s
<1> QED BY <1>1, <1>2, SliceShown

PiecesText(ps) == [m \in DOMAIN ps |-> ParsedWord(ps[m])]
TokensText(ts) == FlattenSeq([j \in DOMAIN ts |-> PiecesText(ts[j].pieces)])
StagesText(ss) == FlattenSeq([k \in DOMAIN ss |-> TokensText(ss[k].tokens)])
Text == Seq(Marked)

LEMMA ExtendIs ==
  ASSUME NEW S, NEW s \in Seq(S), NEW t \in Seq(S), NEW x \in S, Len(t) = Len(s) + 1,
         \A i \in 1..Len(s) : t[i] = s[i], t[Len(s) + 1] = x
  PROVE  t = Append(s, x)
  OBVIOUS

LEMMA PieceTextIs ==
  ASSUME NEW p \in PieceOf
  PROVE  ParsedWord(p) \in Text /\ ParsedWord(p) = PartsText(p.parts)
<1>1. p.parts \in Seq(PartOf(Letters))
  BY DEF PieceOf
<1>2. ParsedWord(p) = PartsText(p.parts)
  BY DEF ParsedWord, PartsText, PartShown
<1> QED BY <1>1, <1>2, PartsAreMarked DEF Text

LEMMA PiecesTextIs ==
  ASSUME NEW ps \in Seq(PieceOf)
  PROVE  PiecesText(ps) \in Seq(Text) /\ Len(PiecesText(ps)) = Len(ps)
<1> DEFINE s == PiecesText(ps)
<1>1. Len(ps) \in Nat /\ DOMAIN ps = 1..Len(ps)
  OBVIOUS
<1>2. s = [m \in 1..Len(ps) |-> ParsedWord(ps[m])]
  BY <1>1 DEF PiecesText
<1>3. \A m \in 1..Len(ps) : s[m] \in Text
  BY <1>2, PieceTextIs
<1> HIDE DEF s
<1>4. s = [m \in 1..Len(ps) |-> s[m]]
  BY <1>2
<1>5. s \in Seq(Text)
  BY <1>1, <1>3, <1>4, SequenceOf
<1>6. Len(s) = Len(ps)
  BY <1>1, <1>2, <1>5
<1> QED BY <1>5, <1>6 DEF s

LEMMA PiecesAppend ==
  ASSUME NEW ps \in Seq(PieceOf), NEW p \in PieceOf
  PROVE  PiecesText(Append(ps, p)) = Append(PiecesText(ps), ParsedWord(p))
<1> DEFINE more == Append(ps, p)
           s == PiecesText(ps)
           t == PiecesText(more)
<1>1. /\ more \in Seq(PieceOf) /\ Len(more) = Len(ps) + 1 /\ Len(ps) \in Nat
      /\ \A i \in 1..Len(ps) : more[i] = ps[i]
      /\ more[Len(ps) + 1] = p
  BY AppendProperties
<1> HIDE DEF more
<1>2. s \in Seq(Text) /\ t \in Seq(Text) /\ Len(s) = Len(ps) /\ Len(t) = Len(s) + 1 /\ ParsedWord(p) \in Text
  BY <1>1, PiecesTextIs, PieceTextIs
<1>3. DOMAIN ps = 1..Len(ps) /\ DOMAIN more = 1..(Len(ps) + 1)
  BY <1>1
<1>4. (\A i \in 1..Len(s) : t[i] = s[i]) /\ t[Len(s) + 1] = ParsedWord(p)
  <2>1. \A i \in 1..Len(ps) : t[i] = s[i]
    BY <1>1, <1>3 DEF PiecesText
  <2>2. t[Len(ps) + 1] = ParsedWord(p)
    BY <1>1, <1>3 DEF PiecesText
  <2> QED BY <1>2, <2>1, <2>2
<1> HIDE DEF s, t
<1>5. t = Append(s, ParsedWord(p))
  BY ONLY <1>2, <1>4, ExtendIs
<1> QED BY <1>5 DEF s, t, more

LEMMA TokensTextIs ==
  ASSUME NEW ts \in Seq(TokenOf)
  PROVE  [j \in DOMAIN ts |-> PiecesText(ts[j].pieces)] \in Seq(Seq(Text)) /\ TokensText(ts) \in Seq(Text)
<1> DEFINE s == [j \in DOMAIN ts |-> PiecesText(ts[j].pieces)]
<1>1. Len(ts) \in Nat /\ DOMAIN ts = 1..Len(ts)
  OBVIOUS
<1>2. \A m \in 1..Len(ts) : s[m] \in Seq(Text)
  <2>1. ASSUME NEW m \in 1..Len(ts) PROVE s[m] \in Seq(Text)
    <3>1. ts[m].pieces \in Seq(PieceOf)
      <4>1. ts[m] \in TokenOf
        OBVIOUS
      <4> QED BY <4>1 DEF TokenOf
    <3>2. s[m] = PiecesText(ts[m].pieces)
      BY <1>1
    <3> HIDE DEF s
    <3> QED BY <3>1, <3>2, PiecesTextIs
  <2> QED BY <2>1
<1>3. s = [m \in 1..Len(ts) |-> s[m]]
  BY <1>1
<1>4. s \in Seq(Seq(Text))
  <2> HIDE DEF s
  <2> QED BY <1>1, <1>2, <1>3, SequenceOf
<1>5. FlattenSeq(s) \in Seq(Text)
  <2> HIDE DEF s
  <2> QED BY <1>4, FlattenIs
<1> QED BY <1>4, <1>5 DEF TokensText

LEMMA TokensAppend ==
  ASSUME NEW ts \in Seq(TokenOf), NEW token \in TokenOf
  PROVE  TokensText(Append(ts, token)) = TokensText(ts) \o PiecesText(token.pieces)
<1> DEFINE more == Append(ts, token)
           s == [j \in DOMAIN ts |-> PiecesText(ts[j].pieces)]
           t == [j \in DOMAIN more |-> PiecesText(more[j].pieces)]
           x == PiecesText(token.pieces)
<1>1. /\ more \in Seq(TokenOf) /\ Len(more) = Len(ts) + 1 /\ Len(ts) \in Nat
      /\ \A i \in 1..Len(ts) : more[i] = ts[i]
      /\ more[Len(ts) + 1] = token
  BY AppendProperties
<1> HIDE DEF more
<1>2. s \in Seq(Seq(Text)) /\ t \in Seq(Seq(Text)) /\ x \in Seq(Text)
  <2>1. token.pieces \in Seq(PieceOf)
    BY DEF TokenOf
  <2> QED BY <1>1, <2>1, TokensTextIs, PiecesTextIs
<1>3. DOMAIN ts = 1..Len(ts) /\ DOMAIN more = 1..(Len(ts) + 1)
  BY <1>1
<1>4. Len(s) = Len(ts) /\ Len(t) = Len(s) + 1
  BY <1>1, <1>3
<1>5. (\A i \in 1..Len(s) : t[i] = s[i]) /\ t[Len(s) + 1] = x
  <2>1. \A i \in 1..Len(ts) : t[i] = s[i]
    BY <1>1, <1>3
  <2>2. t[Len(ts) + 1] = x
    BY <1>1, <1>3
  <2> HIDE DEF s, t, x
  <2> QED BY <1>4, <2>1, <2>2
<1>6. TokensText(ts) = FlattenSeq(s) /\ TokensText(more) = FlattenSeq(t)
  BY DEF TokensText
<1> HIDE DEF s, t, x
<1>7. t = Append(s, x)
  BY ONLY <1>2, <1>4, <1>5, ExtendIs
<1>8. FlattenSeq(t) = FlattenSeq(s) \o x
  BY <1>2, <1>7, FlattenAppend
<1> QED BY <1>6, <1>8 DEF more, x

LEMMA StagesTextIs ==
  ASSUME NEW ss \in Seq(StageOf)
  PROVE  [k \in DOMAIN ss |-> TokensText(ss[k].tokens)] \in Seq(Seq(Text)) /\ StagesText(ss) \in Seq(Text)
<1> DEFINE s == [k \in DOMAIN ss |-> TokensText(ss[k].tokens)]
<1>1. Len(ss) \in Nat /\ DOMAIN ss = 1..Len(ss)
  OBVIOUS
<1>2. \A m \in 1..Len(ss) : s[m] \in Seq(Text)
  <2>1. ASSUME NEW m \in 1..Len(ss) PROVE s[m] \in Seq(Text)
    <3>1. ss[m].tokens \in Seq(TokenOf)
      <4>1. ss[m] \in StageOf
        OBVIOUS
      <4> QED BY <4>1 DEF StageOf
    <3>2. s[m] = TokensText(ss[m].tokens)
      BY <1>1
    <3> HIDE DEF s
    <3> QED BY <3>1, <3>2, TokensTextIs
  <2> QED BY <2>1
<1>3. s = [m \in 1..Len(ss) |-> s[m]]
  BY <1>1
<1>4. s \in Seq(Seq(Text))
  <2> HIDE DEF s
  <2> QED BY <1>1, <1>2, <1>3, SequenceOf
<1>5. FlattenSeq(s) \in Seq(Text)
  <2> HIDE DEF s
  <2> QED BY <1>4, FlattenIs
<1> QED BY <1>4, <1>5 DEF StagesText

LEMMA StagesAppend ==
  ASSUME NEW ss \in Seq(StageOf), NEW stage \in StageOf
  PROVE  StagesText(Append(ss, stage)) = StagesText(ss) \o TokensText(stage.tokens)
<1> DEFINE more == Append(ss, stage)
           s == [k \in DOMAIN ss |-> TokensText(ss[k].tokens)]
           t == [k \in DOMAIN more |-> TokensText(more[k].tokens)]
           x == TokensText(stage.tokens)
<1>1. /\ more \in Seq(StageOf) /\ Len(more) = Len(ss) + 1 /\ Len(ss) \in Nat
      /\ \A i \in 1..Len(ss) : more[i] = ss[i]
      /\ more[Len(ss) + 1] = stage
  BY AppendProperties
<1> HIDE DEF more
<1>2. s \in Seq(Seq(Text)) /\ t \in Seq(Seq(Text)) /\ x \in Seq(Text)
  <2>1. stage.tokens \in Seq(TokenOf)
    BY DEF StageOf
  <2> QED BY <1>1, <2>1, StagesTextIs, TokensTextIs
<1>3. DOMAIN ss = 1..Len(ss) /\ DOMAIN more = 1..(Len(ss) + 1)
  BY <1>1
<1>4. Len(s) = Len(ss) /\ Len(t) = Len(s) + 1
  BY <1>1, <1>3
<1>5. (\A i \in 1..Len(s) : t[i] = s[i]) /\ t[Len(s) + 1] = x
  <2>1. \A i \in 1..Len(ss) : t[i] = s[i]
    BY <1>1, <1>3
  <2>2. t[Len(ss) + 1] = x
    BY <1>1, <1>3
  <2> HIDE DEF s, t, x
  <2> QED BY <1>4, <2>1, <2>2
<1>6. StagesText(ss) = FlattenSeq(s) /\ StagesText(more) = FlattenSeq(t)
  BY DEF StagesText
<1> HIDE DEF s, t, x
<1>7. t = Append(s, x)
  BY ONLY <1>2, <1>4, <1>5, ExtendIs
<1>8. FlattenSeq(t) = FlattenSeq(s) \o x
  BY <1>2, <1>7, FlattenAppend
<1> QED BY <1>6, <1>8 DEF more, x

LEMMA NoneText ==
  StagesText(<<>>) = <<>> /\ TokensText(<<>>) = <<>> /\ PiecesText(<<>>) = <<>> /\ PartsText(<<>>) = <<>>
<1>1. \A S : <<>> \in Seq(S)
  OBVIOUS
<1>2. [k \in DOMAIN <<>> |-> TokensText(<<>>[k].tokens)] = <<>> /\ [k \in DOMAIN <<>> |-> PiecesText(<<>>[k].pieces)] = <<>>
      /\ [k \in DOMAIN <<>> |-> PartShown(<<>>[k])] = <<>> /\ PiecesText(<<>>) = <<>>
  BY DEF PiecesText
<1> QED BY <1>2, FlattenNone DEF StagesText, TokensText, PartsText

LEMMA ParsedWordsAre ==
  ParsedWords = StagesText(stages)
  BY DEF ParsedWords, StagesText, TokensText, PiecesText

----------------------------------------------------------------------------
(* Where the parser is in a line, against what the author sees there. *)

Own == {w \in Stretches : ~Alone(w)}

\* A reference that begins at a place ends before another.
Behind(k, n) ==
  /\ InGroup(k) /\ line[k] \in Sigil \cup {"$"} => \A m \in RefsFrom(k) : m < n
  /\ Brace(k) => \A m \in Braces(k) : m < n

\* The parser's mode at place n is what the line before it says, and that is well formed.
LexicalAt(n) ==
  /\ State[n] = [quote |-> open, escaped |-> FALSE] /\ open \in Quotes \cup {"none"}
  /\ phase = "group" <=> Before(n) = "["
  /\ phase = "stage" => piece = {} /\ open = "none" /\ (n = 1 \/ Is(n - 1, {"|"}))
  /\ phase # "stage" /\ piece = {} => At(n) \notin Hws
  /\ \A k \in 1..(n - 1) : Fine(k) /\ Behind(k, n)

\* No source stage is where the parser is reading a command.
NoSource(n) ==
  \A w \in Stretches : Alone(w) =>
    \E p \in DOMAIN line : Is(p, {"|"}) /\ ((w[1] < p /\ p < n) \/ (n =< p /\ p < w[1]))
SegmentAt(n) ==
  /\ phase = "command" /\ tokens = <<>> /\ piece = {} => Vacant(n, {"|"})
  /\ phase # "stage" /\ tokens # <<>> => Held(n, {"|"})
  /\ phase = "group" /\ pieces = <<>> /\ piece = {} => Vacant(n, Marks)
  /\ phase = "group" /\ pieces # <<>> => Held(n, Marks)
  /\ phase # "stage" => NoSource(n)

\* The text token or piece being read is the text from place f on.
NoMore(n) == At(n) \notin Bare \cup Quotes /\ (phase = "group" => Ref(n) = {})
PieceAt(f, n) ==
  /\ \A k \in f..(n - 1) : ~Cut(k)
  /\ ParsedWord(Begun) = TextFrom(f, n)
  /\ piece = {} => f = n /\ (Cut(n - 1) \/ (phase # "stage" /\ NoMore(n)))
  /\ piece # {} => f < n /\ Cut(f - 1)

\* The words read are the stretches before it.
SoFar ==
  (StagesText(stages) \o (IF phase = "stage" THEN <<>> ELSE TokensText(tokens)))
    \o (IF phase = "group" THEN PiecesText(pieces) ELSE <<>>)
Listed(ws, f) ==
  /\ ws \in Seq(Own)
  /\ \A i, j \in 1..Len(ws) : i < j => ws[i][2] < ws[j][1]
  /\ \A w \in Own : w[2] < f <=> \E i \in 1..Len(ws) : ws[i] = w
Authors(ws) == [i \in 1..Len(ws) |-> AuthorsWord(ws[i])]
ReadTo(f) == \E ws : Listed(ws, f) /\ SoFar = Authors(ws)
WordsAt(n) == \E f \in 1..n : PieceAt(f, n) /\ ReadTo(f)

\* Nothing but an error can follow.
Doomed(n) == phase # "stage" /\ piece = {} /\ open = "none" /\ ~Cut(n) /\ NoMore(n)

Nth(S, k) == CHOOSE w \in S : Cardinality({v \in S : v[1] < w[1]}) = k - 1

Following ==
  \E n \in 1..(Len(line) + 1) : at = n /\ LexicalAt(n) /\ (Doomed(n) \/ (SegmentAt(n) /\ WordsAt(n)))
Followed ==
  /\ phase \in {"stage", "command", "group"} => Following
  /\ LineAsWritten

LEMMA Frozen ==
  ASSUME line' = line
  PROVE  /\ State' = State /\ Bracket' = Bracket /\ Stretches' = Stretches /\ Own' = Own
         /\ \A k : At(k)' = At(k) /\ Before(k)' = Before(k) /\ After(k)' = After(k) /\ Ref(k)' = Ref(k)
         /\ \A k : (Cut(k)' <=> Cut(k)) /\ (Fine(k)' <=> Fine(k)) /\ Shown(k)' = Shown(k)
         /\ \A k, s : (Is(k, s)' <=> Is(k, s)) /\ (Held(k, s)' <=> Held(k, s)) /\ (Vacant(k, s)' <=> Vacant(k, s))
         /\ \A k, n : (Behind(k, n)' <=> Behind(k, n)) /\ TextFrom(k, n)' = TextFrom(k, n)
         /\ \A n : NoSource(n)' <=> NoSource(n)
         /\ \A w : AuthorsWord(w)' = AuthorsWord(w)
         /\ AuthorsWords' = AuthorsWords /\ (WellFormed' <=> WellFormed)
<1>1. State' = State
  BY DEF State
<1>2. \A k : (Out(k)' <=> Out(k)) /\ (\A s : Is(k, s)' <=> Is(k, s)) /\ At(k)' = At(k)
  BY <1>1 DEF Out, Is, At
<1>3. Bracket' = Bracket /\ \A k : Cut(k)' <=> Cut(k)
  BY <1>1, <1>2 DEF Bracket, Cut
<1>4. Stretches' = Stretches
  BY <1>3 DEF Stretches
<1>5. \A k : Before(k)' = Before(k) /\ After(k)' = After(k)
  <2>1. ASSUME NEW k PROVE Before(k)' = Before(k) /\ After(k)' = After(k)
    BY <1>3 DEF Before, After
  <2> QED BY <2>1
<1>6. \A k : (InGroup(k)' <=> InGroup(k)) /\ (Brace(k)' <=> Brace(k)) /\ (Mark(k)' <=> Mark(k))
  BY <1>1, <1>2, <1>5 DEF InGroup, Brace, Mark
<1>7. \A k : Braces(k)' = Braces(k) /\ RefsFrom(k)' = RefsFrom(k)
  <2>1. ASSUME NEW k PROVE Braces(k)' = Braces(k) /\ RefsFrom(k)' = RefsFrom(k)
    BY DEF Braces, RefsFrom, IsRef
  <2> QED BY <2>1
<1>8. \A k, s : (Held(k, s)' <=> Held(k, s)) /\ (Vacant(k, s)' <=> Vacant(k, s))
  BY <1>2, <1>3, <1>4 DEF Held, Vacant
<1>9. \A k : Fine(k)' <=> Fine(k)
  BY <1>2, <1>5, <1>6, <1>7, <1>8 DEF Fine
<1>10. \A k, n : Behind(k, n)' <=> Behind(k, n)
  BY <1>6, <1>7 DEF Behind
<1>11. \A k : (InRef(k)' <=> InRef(k)) /\ (Braced(k)' <=> Braced(k))
  BY <1>6, <1>7 DEF InRef, Braced
<1>12. \A k : Shown(k)' = Shown(k)
  <2>1. ASSUME NEW k PROVE Kept(k)' <=> Kept(k)
    BY <1>6, <1>11 DEF Kept
  <2>2. ASSUME NEW k PROVE Shown(k)' = Shown(k)
    <3>1. InRef(k) \in BOOLEAN /\ InRef(k)' \in BOOLEAN
      BY DEF InRef
    <3>2. InRef(k)' = InRef(k)
      BY <1>11, <3>1
    <3> QED BY <2>1, <3>2 DEF Shown
  <2> QED BY <2>2
<1>13. \A k, n : TextFrom(k, n)' = TextFrom(k, n)
  BY <1>12 DEF TextFrom
<1>14. \A w : AuthorsWord(w)' = AuthorsWord(w)
  BY <1>12 DEF AuthorsWord
<1>15. \A w : Alone(w)' <=> Alone(w)
  BY <1>2, <1>4, <1>5 DEF Alone, IsRef
<1>16. Own' = Own
  BY <1>4, <1>15 DEF Own
<1>17. \A n : NoSource(n)' <=> NoSource(n)
  BY <1>2, <1>4, <1>15 DEF NoSource
<1>18. AuthorsWords' = AuthorsWords
  <2>1. AuthorsWords = [k \in 1..Cardinality(Own) |-> AuthorsWord(Nth(Own, k))]
    BY DEF AuthorsWords, Own, Nth
  <2>2. AuthorsWords' = [k \in 1..Cardinality(Own)' |-> AuthorsWord(Nth(Own, k))']
    BY DEF AuthorsWords, Own, Nth
  <2>3. \A k : AuthorsWord(Nth(Own, k))' = AuthorsWord(Nth(Own, k))
    <3>1. ASSUME NEW k PROVE AuthorsWord(Nth(Own, k))' = AuthorsWord(Nth(Own, k))
      <4>1. Nth(Own, k)' = Nth(Own, k)
        BY <1>16
      <4> QED BY <1>12, <4>1 DEF AuthorsWord
    <3> QED BY <3>1
  <2> QED BY <1>16, <2>1, <2>2, <2>3
<1>19. WellFormed' <=> WellFormed
  <2>1. ASSUME NEW k \in DOMAIN line
        PROVE (\E w \in Stretches : w[1] > k /\ After(w[1]) = "]" /\ ~\E j \in Bracket : k < j /\ j < w[1])'
                <=> \E w \in Stretches : w[1] > k /\ After(w[1]) = "]" /\ ~\E j \in Bracket : k < j /\ j < w[1]
    BY <1>3, <1>4, <1>5
  <2>2. \A b, e : (\E w \in Stretches : b < w[1] /\ w[2] < e)' <=> \E w \in Stretches : b < w[1] /\ w[2] < e
    BY <1>4
  <2> DEFINE there(k) ==
        \E w \in Stretches : w[1] > k /\ After(w[1]) = "]" /\ ~\E j \in Bracket : k < j /\ j < w[1]
             full(b, e) == \E w \in Stretches : b < w[1] /\ w[2] < e
             well(k) ==
        /\ ~Is(k, {Lbrace, "newline"})
        /\ InGroup(k) => ~Is(k, {Rbrace}) /\ (line[k] \in Sigil => At(k + 1) \in Name)
        /\ Is(k, {"["}) => After(k) = "]" /\ there(k)
        /\ Is(k, {"]"}) => Before(k) = "["
        /\ Brace(k) => Braces(k) # {}
             stage(b, e) ==
        b < e /\ (b = 0 \/ Is(b, {"|"})) /\ (e > Len(line) \/ Is(e, {"|"})) => full(b, e)
  <2>3. \A k \in DOMAIN line : well(k)' <=> well(k)
    <3>1. ASSUME NEW k \in DOMAIN line PROVE well(k)' <=> well(k)
      <4>1. there(k)' <=> there(k)
        BY <2>1
      <4> HIDE DEF there
      <4> QED BY <1>2, <1>5, <1>6, <1>7, <4>1
    <3> QED BY <3>1
  <2>4. \A b, e : stage(b, e)' <=> stage(b, e)
    <3>1. ASSUME NEW b, NEW e PROVE stage(b, e)' <=> stage(b, e)
      <4>1. full(b, e)' <=> full(b, e)
        BY <2>2
      <4> HIDE DEF full
      <4> QED BY <1>2, <4>1
    <3> QED BY <3>1
  <2>5. WellFormed <=> /\ State[Len(line) + 1].quote = "none"
                       /\ \A k \in DOMAIN line : well(k)
                       /\ \A b, e \in 0..(Len(line) + 1) : stage(b, e)
    BY DEF WellFormed
  <2>6. WellFormed' <=> /\ (State[Len(line) + 1].quote = "none")'
                        /\ \A k \in DOMAIN line' : well(k)'
                        /\ \A b, e \in 0..(Len(line') + 1) : stage(b, e)'
    BY DEF WellFormed
  <2> HIDE DEF well, stage
  <2> QED BY <1>1, <2>3, <2>4, <2>5, <2>6
<1>20. \A k : Ref(k)' = Ref(k)
  <2>1. \A k, c : Past(k, c)' = Past(k, c)
    BY <1>2 DEF Past
  <2>2. \A k, n : Dotted(k, n)' <=> Dotted(k, n)
    BY <1>2 DEF Dotted
  <2> QED BY <1>2, <2>1, <2>2 DEF Ref
<1> QED BY <1>1, <1>2, <1>3, <1>4, <1>5, <1>8, <1>9, <1>10, <1>12, <1>13, <1>14, <1>16, <1>17, <1>18, <1>19, <1>20

----------------------------------------------------------------------------
(* Chunks of a line: what the parser takes in one step, place by place. *)

LEMMA BehindLater ==
  ASSUME line \in Seq(Letters), NEW a \in Nat, NEW b \in Nat, a =< b, NEW k \in Nat, Behind(k, a)
  PROVE  Behind(k, b)
<1>1. Len(line) \in Nat /\ DOMAIN line = 1..Len(line)
  OBVIOUS
<1>2. \A n \in RefsFrom(k) \cup Braces(k) : n \in Nat
  BY <1>1 DEF RefsFrom, Braces
<1>3. \A n \in Nat : n < a => n < b
  OBVIOUS
<1> QED BY <1>2, <1>3 DEF Behind

\* No reference covers a character that none has begun before, or at it.
LEMMA ClearAt ==
  ASSUME line \in Seq(Letters), NEW k \in 1..Len(line), \A j \in 1..(k - 1) : Behind(j, k),
         ~Brace(k), InGroup(k) => line[k] \notin Sigil \cup {"$"}
  PROVE  InRef(k) = FALSE /\ (Kept(k) <=> ~Mark(k)) /\ \A n : Behind(k, n)
<1>1. Len(line) \in Nat /\ k \in Nat
  OBVIOUS
<1>2. ASSUME NEW j \in 1..k, Brace(j), NEW n \in Braces(j), k =< n PROVE FALSE
  <2>1. n \in Nat
    BY <1>1 DEF Braces
  <2>2. j # k
    BY <1>2
  <2>3. j \in 1..(k - 1)
    BY <1>1, <2>2
  <2>4. n < k
    BY <1>2, <2>3 DEF Behind
  <2> QED BY <1>1, <1>2, <2>1, <2>4
<1>3. ~Braced(k)
  BY <1>2 DEF Braced
<1>4. ASSUME NEW j \in 1..k, InGroup(j), line[j] \in Sigil \cup {"$"}, NEW n \in RefsFrom(j), k =< n PROVE FALSE
  <2>1. n \in Nat
    BY <1>1 DEF RefsFrom
  <2>2. j # k
    BY <1>4
  <2>3. j \in 1..(k - 1)
    BY <1>1, <2>2
  <2>4. n < k
    BY <1>4, <2>3 DEF Behind
  <2> QED BY <1>1, <1>4, <2>1, <2>4
<1>5. ASSUME NEW j \in 1..(k - 1), Brace(j), NEW n \in Braces(j), k < n PROVE FALSE
  <2>1. n \in Nat /\ j \in 1..k
    BY <1>1 DEF Braces
  <2> QED BY <1>1, <1>2, <1>5, <2>1
<1>6. ~InRef(k)
  BY <1>4, <1>5 DEF InRef
<1>7. InRef(k) \in BOOLEAN
  BY DEF InRef
<1>8. InRef(k) = FALSE
  BY <1>6, <1>7
<1>9. \A n : Behind(k, n)
  BY DEF Behind
<1>10. Kept(k) <=> ~Mark(k)
  BY <1>3 DEF Kept
<1> QED BY <1>8, <1>9, <1>10

LEMMA ClearRun ==
  ASSUME line \in Seq(Letters), NEW a \in 1..(Len(line) + 1), NEW b \in a..(Len(line) + 1),
         \A j \in 1..(a - 1) : Behind(j, a),
         \A k \in a..(b - 1) : ~Brace(k) /\ (InGroup(k) => line[k] \notin Sigil \cup {"$"})
  PROVE  \A k \in a..(b - 1) : InRef(k) = FALSE /\ (Kept(k) <=> ~Mark(k)) /\ Behind(k, b)
<1>1. Len(line) \in Nat /\ a \in Nat /\ b \in Nat
  OBVIOUS
<1>2. ASSUME NEW k \in a..(b - 1)
      PROVE  InRef(k) = FALSE /\ (Kept(k) <=> ~Mark(k)) /\ Behind(k, b)
  <2>1. k \in 1..Len(line) /\ k \in Nat /\ a =< k
    BY <1>1
  <2>2. ASSUME NEW j \in 1..(k - 1) PROVE Behind(j, k)
    <3>1. CASE j < a
      <4>1. j \in 1..(a - 1) /\ j \in Nat
        BY <1>1, <2>1, <3>1
      <4> QED BY <1>1, <2>1, <4>1, BehindLater
    <3>2. CASE ~(j < a)
      <4>1. j \in a..(b - 1)
        BY <1>1, <2>1, <3>2
      <4> QED BY <4>1 DEF Behind
    <3> QED BY <3>1, <3>2
  <2> QED BY <2>1, <2>2, ClearAt
<1> QED BY <1>2

\* What a character outside of quotes, or in them, needs.
LEMMA FineOut ==
  ASSUME NEW k, Out(k), line[k] \notin {Lbrace, "newline", "[", "]", "|"},
         InGroup(k) => line[k] # Rbrace /\ (line[k] \in Sigil => At(k + 1) \in Name)
  PROVE  Fine(k)
  BY DEF Fine, Is, Brace

LEMMA FineIn ==
  ASSUME NEW k, ~Out(k), Brace(k) => Braces(k) # {}
  PROVE  Fine(k)
  BY DEF Fine, Is, InGroup

\* A run of blanks.
LEMMA BlankRun ==
  ASSUME line \in Seq(Letters), NEW a \in 1..(Len(line) + 1), State[a] = [quote |-> "none", escaped |-> FALSE],
         \A j \in 1..(a - 1) : Behind(j, a), NEW b, b = Past(a, Hws)
  PROVE  /\ b \in a..(Len(line) + 1) /\ State[b] = [quote |-> "none", escaped |-> FALSE] /\ At(b) \notin Hws
         /\ Before(b) = Before(a)
         /\ \A k \in a..(b - 1) : Fine(k) /\ Behind(k, b) /\ Cut(k) /\ ~Is(k, Marks) /\ ~Is(k, {"|"})
<1>1. Len(line) \in Nat /\ a \in Nat /\ a \in Nat \ {0} /\ DOMAIN line = 1..Len(line)
  OBVIOUS
<1>2. "end" \notin Hws /\ \A c \in Hws : c \notin Quotes \cup Sigil \cup {Lbrace, Rbrace, "newline", "[", "]", "|", "$"}
  BY BraceChars DEF Hws, Quotes, Quote, Sigil
<1>3. b \in Nat /\ a =< b /\ At(b) \notin Hws
  BY <1>1, <1>2, PastIs
<1>4. \A j \in a..(b - 1) : j \in 1..Len(line) /\ line[j] \in Hws
  BY <1>1, <1>2, PastIs
<1>5. b \in a..(Len(line) + 1)
  <2>1. CASE b = a
    BY <1>1, <2>1
  <2>2. CASE b # a
    <3>1. b - 1 \in a..(b - 1)
      BY <1>1, <1>3, <2>2
    <3> QED BY <1>1, <1>3, <1>4, <3>1
  <2> QED BY <2>1, <2>2
<1>6. \A k \in a..b : State[k] = [quote |-> "none", escaped |-> FALSE]
  BY <1>2, <1>4, <1>5, OutStays
<1>7. \A k \in a..(b - 1) : Out(k)
  BY <1>1, <1>3, <1>6 DEF Out
<1>8. ASSUME NEW k \in a..(b - 1)
      PROVE Fine(k) /\ Cut(k) /\ ~Is(k, Marks) /\ ~Is(k, {"|"}) /\ ~Brace(k) /\ k \notin Bracket
  <2>1. Fine(k)
    BY <1>2, <1>4, <1>7, FineOut
  <2> QED BY <1>2, <1>4, <1>7, <2>1 DEF Cut, Is, Marks, Brace, Bracket
<1>9. \A k \in a..(b - 1) : Behind(k, b)
  BY <1>2, <1>4, <1>5, <1>8, ClearRun
<1>10. Before(b) = Before(a)
  BY <1>1, <1>3, <1>8, BeforeRun
<1>11. State[b] = [quote |-> "none", escaped |-> FALSE]
  BY <1>1, <1>3, <1>6
<1> QED BY <1>3, <1>5, <1>8, <1>9, <1>10, <1>11

\* A bare chunk.
LEMMA BareRun ==
  ASSUME line \in Seq(Letters), NEW a \in 1..Len(line), State[a] = [quote |-> "none", escaped |-> FALSE],
         \A j \in 1..(a - 1) : Behind(j, a), line[a] \in Bare, phase = "group" <=> Before(a) = "[",
         NEW b, b = Past(a, Bare)
  PROVE  /\ b \in (a + 1)..(Len(line) + 1) /\ State[b] = [quote |-> "none", escaped |-> FALSE]
         /\ Before(b) = Before(a)
         /\ \A k \in a..(b - 1) : Fine(k) /\ Behind(k, b) /\ ~Cut(k)
         /\ \A f \in 1..a : TextFrom(f, b) = TextFrom(f, a) \o Spelled(a, b, FALSE)
<1>1. Len(line) \in Nat /\ a \in Nat /\ a \in Nat \ {0} /\ DOMAIN line = 1..Len(line) /\ a \in 1..(Len(line) + 1)
  OBVIOUS
<1>2. /\ \A c \in Bare : c \notin Quotes \cup Hws \cup {Lbrace, "newline", "[", "]", "|"}
      /\ phase = "group" => \A c \in Bare : c \notin Sigil \cup {Rbrace, "$"}
  BY DEF Bare, Special, PieceSpecial, Hws
<1>3. b \in Nat /\ a =< b /\ At(b) \notin Bare
  BY <1>1, BareIs, PastIs
<1>4. \A j \in a..(b - 1) : j \in 1..Len(line) /\ line[j] \in Bare
  BY <1>1, BareIs, PastIs
<1>5. b \in (a + 1)..(Len(line) + 1)
  <2>1. b # a
    BY <1>3 DEF At
  <2>2. b - 1 \in a..(b - 1)
    BY <1>1, <1>3, <2>1
  <2> QED BY <1>1, <1>3, <1>4, <2>1, <2>2
<1>6. b \in a..(Len(line) + 1)
  BY <1>1, <1>5
<1>7. \A k \in a..b : State[k] = [quote |-> "none", escaped |-> FALSE]
  BY <1>1, <1>2, <1>4, <1>6, OutStays
<1>8. \A k \in a..(b - 1) : Out(k)
  BY <1>1, <1>3, <1>7 DEF Out
<1>9. \A k \in a..(b - 1) : k \notin Bracket /\ ~Cut(k) /\ ~Brace(k) /\ ~Mark(k)
  BY <1>1, <1>2, <1>4, <1>8 DEF Cut, Is, Brace, Bracket, Mark
<1>10. ASSUME NEW k \in a..(b - 1)
       PROVE Fine(k) /\ (InGroup(k) => line[k] \notin Sigil \cup {"$"})
  <2>1. k \in Nat /\ a =< k /\ \A m \in a..(k - 1) : m \in a..(b - 1)
    BY <1>1, <1>3
  <2>2. Before(k) = Before(a)
    BY <1>1, <1>9, <2>1, BeforeRun
  <2>3. InGroup(k) => phase = "group"
    BY <2>2 DEF InGroup
  <2>4. InGroup(k) => line[k] \notin Sigil \cup {Rbrace, "$"}
    BY <1>2, <1>4, <2>3
  <2>5. Fine(k)
    BY <1>2, <1>4, <1>8, <2>4, FineOut
  <2> QED BY <2>4, <2>5
<1>11. \A k \in a..(b - 1) : InRef(k) = FALSE /\ (Kept(k) <=> ~Mark(k)) /\ Behind(k, b)
  BY <1>1, <1>6, <1>9, <1>10, ClearRun
<1>12. Before(b) = Before(a)
  BY <1>1, <1>3, <1>9, BeforeRun
<1>13. ASSUME NEW f \in 1..a PROVE TextFrom(f, b) = TextFrom(f, a) \o Spelled(a, b, FALSE)
  <2>1. f \in 1..(Len(line) + 1) /\ a \in f..(Len(line) + 1)
    BY <1>1
  <2> QED BY <1>6, <1>9, <1>11, <2>1, TextSpells
<1>14. State[b] = [quote |-> "none", escaped |-> FALSE]
  BY <1>1, <1>3, <1>7
<1> QED BY <1>5, <1>9, <1>10, <1>11, <1>12, <1>13, <1>14

\* A reference inside of brackets.
LEMMA RefRun ==
  ASSUME line \in Seq(Letters), NEW a \in 1..Len(line), State[a] = [quote |-> "none", escaped |-> FALSE],
         \A j \in 1..(a - 1) : Behind(j, a), Before(a) = "[", NEW b \in Ref(a)
  PROVE  /\ b \in (a + 1)..(Len(line) + 1) /\ State[b] = [quote |-> "none", escaped |-> FALSE]
         /\ Before(b) = Before(a)
         /\ \A k \in a..(b - 1) : Fine(k) /\ Behind(k, b) /\ ~Cut(k)
         /\ \A f \in 1..a : TextFrom(f, b) = TextFrom(f, a) \o Spelled(a, b, TRUE)
<1>1. Len(line) \in Nat /\ a \in Nat /\ DOMAIN line = 1..Len(line) /\ a \in 1..(Len(line) + 1)
  OBVIOUS
<1>2. b \in Nat /\ b - 1 \in a..Len(line) /\ RefAt(a, b - 1) /\ \A m \in a..Len(line) : RefAt(a, m) => m < b
  BY RefLongest
<1>3. b \in (a + 1)..(Len(line) + 1) /\ b \in a..(Len(line) + 1)
  BY <1>1, <1>2
<1>4. line[a] \in Sigil \cup {"$"} /\ \A j \in (a + 1)..(b - 1) : line[j] \in Name \cup {"."}
  BY <1>2, RefChars
<1>5. /\ \A c \in Sigil \cup {"$"} \cup Name \cup {"."} :
           c \notin Quotes \cup Hws \cup {Lbrace, Rbrace, "newline", "[", "]", "|"}
      /\ \A c \in Name \cup {"."} : c \notin Sigil \cup {"$"}
  BY BraceChars DEF Hws, Quotes, Quote, Sigil, Name
<1>6. \A j \in a..(b - 1) : j \in 1..Len(line) /\ line[j] \in Sigil \cup {"$"} \cup Name \cup {"."}
  <2>1. ASSUME NEW j \in a..(b - 1) PROVE j \in 1..Len(line) /\ (j = a \/ j \in (a + 1)..(b - 1))
    BY <1>1, <1>2
  <2> QED BY <1>4, <2>1
<1>7. \A k \in a..b : State[k] = [quote |-> "none", escaped |-> FALSE]
  BY <1>1, <1>3, <1>5, <1>6, OutStays
<1>8. \A k \in a..(b - 1) : Out(k)
  BY <1>1, <1>2, <1>7 DEF Out
<1>9. \A k \in a..(b - 1) : k \notin Bracket /\ ~Cut(k) /\ ~Brace(k) /\ ~Mark(k)
  BY <1>1, <1>5, <1>6, <1>8 DEF Cut, Is, Brace, Bracket, Mark
<1>10. \A k \in a..(b - 1) : InGroup(k)
  <2>1. ASSUME NEW k \in a..(b - 1) PROVE InGroup(k)
    <3>1. k \in Nat /\ a =< k /\ \A m \in a..(k - 1) : m \in a..(b - 1)
      BY <1>1, <1>2
    <3>2. Before(k) = Before(a)
      BY <1>1, <1>9, <3>1, BeforeRun
    <3> QED BY <1>8, <3>2 DEF InGroup
  <2> QED BY <2>1
<1>11. a \in a..(b - 1) /\ b - 1 \in a..(b - 1)
  BY <1>1, <1>2
<1>12. RefsFrom(a) = {m \in a..Len(line) : RefAt(a, m)}
  BY RefsFromIs
<1>13. b - 1 \in RefsFrom(a) /\ \A m \in RefsFrom(a) : m < b
  BY <1>2, <1>12
<1>14. ASSUME NEW k \in a..(b - 1) PROVE Behind(k, b)
  <2>1. CASE k = a
    BY <1>9, <1>11, <1>13, <2>1 DEF Behind
  <2>2. CASE k # a
    <3>1. k \in (a + 1)..(b - 1)
      BY <1>1, <1>2, <2>2
    <3>2. line[k] \notin Sigil \cup {"$"}
      BY <1>4, <1>5, <3>1
    <3> QED BY <1>9, <3>2 DEF Behind
  <2> QED BY <2>1, <2>2
<1>15. ASSUME NEW k \in a..(b - 1) PROVE InRef(k) = TRUE /\ Kept(k)
  <2>1. a \in 1..k /\ k =< b - 1
    BY <1>1, <1>2
  <2>2. InRef(k)
    BY <1>4, <1>10, <1>11, <1>13, <2>1 DEF InRef
  <2>3. InRef(k) \in BOOLEAN
    BY DEF InRef
  <2>4. line[k] \notin Hws
    BY <1>5, <1>6
  <2>5. Kept(k)
    BY <1>9, <2>2, <2>4 DEF Kept
  <2> QED BY <2>2, <2>3, <2>5
<1>16. ASSUME NEW k \in a..(b - 1) PROVE Fine(k)
  <2>1. line[k] \in Sigil => At(k + 1) \in Name
    <3>1. CASE k = a
      <4>1. line[a] \in Sigil => a + 1 \in (a + 1)..(b - 1) /\ line[a + 1] \in Name
        BY <1>1, <1>2 DEF RefAt, Sigil
      <4>2. \A j \in (a + 1)..(b - 1) : j \in 1..Len(line)
        BY <1>1, <1>2
      <4> QED BY <1>1, <3>1, <4>1, <4>2 DEF At
    <3>2. CASE k # a
      <4>1. k \in (a + 1)..(b - 1)
        BY <1>1, <1>2, <3>2
      <4> QED BY <1>4, <1>5, <4>1
    <3> QED BY <3>1, <3>2
  <2> QED BY <1>5, <1>6, <1>8, <2>1, FineOut
<1>17. Before(b) = Before(a)
  BY <1>1, <1>2, <1>9, BeforeRun
<1>18. ASSUME NEW f \in 1..a PROVE TextFrom(f, b) = TextFrom(f, a) \o Spelled(a, b, TRUE)
  <2>1. f \in 1..(Len(line) + 1) /\ a \in f..(Len(line) + 1)
    BY <1>1
  <2> QED BY <1>3, <1>15, <2>1, TextSpells
<1>19. State[b] = [quote |-> "none", escaped |-> FALSE]
  BY <1>1, <1>2, <1>7
<1> QED BY <1>3, <1>9, <1>14, <1>16, <1>17, <1>18, <1>19

LEMMA LexedIs ==
  ASSUME NEW c, NEW q \in Quotes
  PROVE  /\ c \in Quotes =>
              Lexed([quote |-> "none", escaped |-> FALSE], c) = [quote |-> c, escaped |-> FALSE]
         /\ c # Backslash => Lexed([quote |-> q, escaped |-> FALSE], c)
                                = [quote |-> IF c = q THEN "none" ELSE q, escaped |-> FALSE]
         /\ c = Backslash => Lexed([quote |-> q, escaped |-> FALSE], c) = [quote |-> q, escaped |-> TRUE]
         /\ Lexed([quote |-> q, escaped |-> TRUE], c) = [quote |-> q, escaped |-> FALSE]
<1>1. q # "none" /\ q # Backslash
  BY DEF Quotes, Quote, Backslash
<1>2. c \in Quotes =>
        Lexed([quote |-> "none", escaped |-> FALSE], c) = [quote |-> c, escaped |-> FALSE]
  BY DEF Lexed
<1>3. c # Backslash => Lexed([quote |-> q, escaped |-> FALSE], c)
                         = [quote |-> IF c = q THEN "none" ELSE q, escaped |-> FALSE]
  BY <1>1 DEF Lexed
<1>4. c = Backslash => Lexed([quote |-> q, escaped |-> FALSE], c) = [quote |-> q, escaped |-> TRUE]
  BY <1>1 DEF Lexed
<1>5. Lexed([quote |-> q, escaped |-> TRUE], c) = [quote |-> q, escaped |-> FALSE]
  BY <1>1 DEF Lexed
<1> QED BY <1>2, <1>3, <1>4, <1>5

\* The state after a character.
LEMMA StateNext ==
  ASSUME line \in Seq(Letters), NEW k \in 1..Len(line)
  PROVE  State[k + 1] = Lexed(State[k], line[k])
  BY StateIs

\* A quote that opens.
LEMMA OpenAt ==
  ASSUME line \in Seq(Letters), NEW a \in 1..Len(line), State[a] = [quote |-> "none", escaped |-> FALSE],
         \A j \in 1..(a - 1) : Behind(j, a), line[a] \in Quotes
  PROVE  /\ State[a + 1] = [quote |-> line[a], escaped |-> FALSE] /\ Before(a + 1) = Before(a)
         /\ Fine(a) /\ Behind(a, a + 1) /\ ~Cut(a)
         /\ \A f \in 1..a : TextFrom(f, a + 1) = TextFrom(f, a)
<1>1. Len(line) \in Nat /\ a \in Nat /\ a + 1 \in Nat /\ DOMAIN line = 1..Len(line)
      /\ a =< a + 1 /\ (a + 1) - 1 = a /\ a..a = {a} /\ a + 1 \in a..(Len(line) + 1)
  OBVIOUS
<1>2. \A c \in Quotes : c \notin Hws \cup Sigil \cup {Lbrace, Rbrace, "newline", "[", "]", "|", "$"}
  BY BraceChars DEF Hws, Quotes, Quote, Sigil
<1>3. State[a + 1] = [quote |-> line[a], escaped |-> FALSE]
  <2>1. State[a + 1] = Lexed([quote |-> "none", escaped |-> FALSE], line[a])
    BY StateNext
  <2> QED BY <2>1, LexedIs
<1>4. Out(a)
  BY DEF Out
<1>5. Mark(a) /\ ~Cut(a) /\ a \notin Bracket /\ ~Brace(a)
  BY <1>1, <1>2, <1>4 DEF Mark, Cut, Is, Bracket, Brace
<1>6. Fine(a)
  BY <1>2, <1>4, FineOut
<1>7. (Kept(a) <=> ~Mark(a)) /\ Behind(a, a + 1)
  BY <1>2, <1>5, ClearAt
<1>8. Before(a + 1) = Before(a)
  <2>1. \A k \in a..((a + 1) - 1) : k \notin Bracket
    BY <1>1, <1>5
  <2> QED BY <1>1, <2>1, BeforeRun
<1>9. ASSUME NEW f \in 1..a PROVE TextFrom(f, a + 1) = TextFrom(f, a)
  <2>1. f \in 1..(Len(line) + 1) /\ a \in f..(Len(line) + 1)
    BY <1>1
  <2>2. \A k \in a..((a + 1) - 1) : ~Kept(k)
    BY <1>1, <1>5, <1>7
  <2> QED BY <1>1, <2>1, <2>2, TextSkips
<1> QED BY <1>3, <1>5, <1>6, <1>7, <1>8, <1>9

\* Nothing in quotes cuts, and nothing in them is a bracket.
LEMMA SafeInQuotes ==
  ASSUME line \in Seq(Letters), NEW k \in 1..Len(line), State[k].quote \in Quotes
  PROVE  ~Out(k) /\ ~InGroup(k) /\ ~Cut(k) /\ k \notin Bracket
<1>1. DOMAIN line = 1..Len(line)
  BY ONLY line \in Seq(Letters)
<1>2. "none" \notin Quotes
  BY DEF Quotes, Quote
<1>3. ~Out(k)
  BY <1>2 DEF Out
<1> QED BY <1>1, <1>3 DEF InGroup, Cut, Is, Bracket

\* A quote that closes, or any character in quotes but a brace or a backslash.
LEMMA QuotedAt ==
  ASSUME line \in Seq(Letters), NEW a \in 1..Len(line), NEW q \in Quotes, State[a] = [quote |-> q, escaped |-> FALSE],
         \A j \in 1..(a - 1) : Behind(j, a), line[a] \notin {Lbrace, Backslash}
  PROVE  /\ State[a + 1] = [quote |-> IF line[a] = q THEN "none" ELSE q, escaped |-> FALSE]
         /\ Before(a + 1) = Before(a)
         /\ Fine(a) /\ Behind(a, a + 1) /\ ~Cut(a)
         /\ line[a] = q => \A f \in 1..a : TextFrom(f, a + 1) = TextFrom(f, a)
         /\ line[a] # q => \A f \in 1..a : TextFrom(f, a + 1) = TextFrom(f, a) \o Spelled(a, a + 1, FALSE)
<1>1. Len(line) \in Nat /\ a \in Nat /\ a + 1 \in Nat /\ DOMAIN line = 1..Len(line)
      /\ a =< a + 1 /\ (a + 1) - 1 = a /\ a..a = {a} /\ a + 1 \in a..(Len(line) + 1)
  OBVIOUS
<1>2. q # "none"
  BY DEF Quotes, Quote
<1>3. State[a + 1] = [quote |-> IF line[a] = q THEN "none" ELSE q, escaped |-> FALSE]
  <2>1. State[a + 1] = Lexed([quote |-> q, escaped |-> FALSE], line[a])
    BY StateNext
  <2> QED BY <2>1, LexedIs
<1>4. ~Out(a) /\ ~InGroup(a) /\ ~Cut(a) /\ a \notin Bracket
  <2>1. State[a].quote = q
    OBVIOUS
  <2> QED BY <2>1, SafeInQuotes
<1>5. ~Brace(a)
  BY DEF Brace
<1>6. Fine(a)
  BY <1>4, <1>5, FineIn
<1>7. InRef(a) = FALSE /\ (Kept(a) <=> ~Mark(a)) /\ Behind(a, a + 1)
  BY <1>4, <1>5, ClearAt
<1>8. Before(a + 1) = Before(a)
  <2>1. \A k \in a..((a + 1) - 1) : k \notin Bracket
    BY <1>1, <1>4
  <2> QED BY <1>1, <2>1, BeforeRun
<1>9. Mark(a) <=> line[a] = q
  BY <1>4 DEF Mark, Is
<1>10. ASSUME NEW f \in 1..a
       PROVE  /\ line[a] = q => TextFrom(f, a + 1) = TextFrom(f, a)
              /\ line[a] # q => TextFrom(f, a + 1) = TextFrom(f, a) \o Spelled(a, a + 1, FALSE)
  <2>1. f \in 1..(Len(line) + 1) /\ a \in f..(Len(line) + 1)
    BY <1>1
  <2>2. line[a] = q => \A k \in a..((a + 1) - 1) : ~Kept(k)
    BY <1>1, <1>7, <1>9
  <2>3. line[a] # q => \A k \in a..((a + 1) - 1) : Kept(k) /\ InRef(k) = FALSE
    BY <1>1, <1>7, <1>9
  <2>4. CASE line[a] = q
    BY <1>1, <2>1, <2>2, <2>4, TextSkips
  <2>5. CASE line[a] # q
    BY <1>1, <2>1, <2>3, <2>5, TextSpells
  <2> QED BY <2>4, <2>5
<1> QED BY <1>3, <1>4, <1>6, <1>7, <1>8, <1>10

\* A backslash in quotes, and the character it escapes.
LEMMA EscapeRun ==
  ASSUME line \in Seq(Letters), NEW a \in 1..Len(line), NEW q \in Quotes, State[a] = [quote |-> q, escaped |-> FALSE],
         \A j \in 1..(a - 1) : Behind(j, a), line[a] = Backslash, a + 1 \in 1..Len(line)
  PROVE  /\ State[a + 2] = [quote |-> q, escaped |-> FALSE] /\ Before(a + 2) = Before(a)
         /\ \A k \in a..(a + 1) : Fine(k) /\ Behind(k, a + 2) /\ ~Cut(k)
         /\ \A f \in 1..a : TextFrom(f, a + 2) = TextFrom(f, a) \o Spelled(a + 1, a + 2, FALSE)
<1>1. Len(line) \in Nat /\ a \in Nat /\ a + 1 \in Nat /\ DOMAIN line = 1..Len(line) /\ (a + 1) + 1 = a + 2
      /\ a + 2 \in Nat /\ a..(a + 1) = {a, a + 1} /\ (a + 2) - 1 = a + 1 /\ a =< a + 2
      /\ a \in 1..(Len(line) + 1) /\ a + 2 \in a..(Len(line) + 1)
  OBVIOUS
<1>2. q # "none" /\ q # Backslash /\ Lbrace # Backslash
  BY BraceChars DEF Quotes, Quote, Backslash
<1>3. State[a + 1] = [quote |-> q, escaped |-> TRUE]
  <2>1. State[a + 1] = Lexed([quote |-> q, escaped |-> FALSE], line[a])
    BY StateNext
  <2> QED BY <2>1, LexedIs
<1>4. State[a + 2] = [quote |-> q, escaped |-> FALSE]
  <2>1. State[(a + 1) + 1] = Lexed(State[a + 1], line[a + 1])
    BY StateNext
  <2>2. State[(a + 1) + 1] = Lexed([quote |-> q, escaped |-> TRUE], line[a + 1])
    BY <1>3, <2>1
  <2> QED BY <1>1, <2>2, LexedIs
<1>5. \A k \in {a, a + 1} : ~Out(k) /\ ~InGroup(k) /\ ~Cut(k) /\ k \notin Bracket
  <2>1. State[a].quote = q /\ State[a + 1].quote = q
    BY <1>3
  <2>2. a \in 1..Len(line) /\ a + 1 \in 1..Len(line)
    OBVIOUS
  <2> QED BY <2>1, <2>2, SafeInQuotes
<1>6. \A k \in {a, a + 1} : ~Brace(k)
  BY <1>2, <1>3 DEF Brace
<1>7. \A k \in {a, a + 1} : Fine(k)
  BY <1>5, <1>6, FineIn
<1>8. \A k \in a..((a + 2) - 1) : InRef(k) = FALSE /\ (Kept(k) <=> ~Mark(k)) /\ Behind(k, a + 2)
  <2>1. \A k \in a..((a + 2) - 1) : ~Brace(k) /\ (InGroup(k) => line[k] \notin Sigil \cup {"$"})
    BY <1>1, <1>5, <1>6
  <2> QED BY <1>1, <2>1, ClearRun
<1>9. Before(a + 2) = Before(a)
  <2>1. \A k \in a..((a + 2) - 1) : k \notin Bracket
    BY <1>1, <1>5
  <2> QED BY <1>1, <2>1, BeforeRun
<1>10. Mark(a) /\ ~Mark(a + 1)
  BY <1>3, <1>5 DEF Mark, Is
<1>11. ASSUME NEW f \in 1..a PROVE TextFrom(f, a + 2) = TextFrom(f, a) \o Spelled(a + 1, a + 2, FALSE)
  <2>1. f \in 1..(Len(line) + 1) /\ a \in f..(Len(line) + 1) /\ a + 1 \in a..(Len(line) + 1)
        /\ a + 1 \in f..(Len(line) + 1) /\ a + 2 \in (a + 1)..(Len(line) + 1)
    BY <1>1
  <2>2. TextFrom(f, a + 1) = TextFrom(f, a)
    <3>1. \A k \in a..((a + 1) - 1) : ~Kept(k)
      BY <1>1, <1>8, <1>10
    <3> QED BY <2>1, <3>1, TextSkips
  <2>3. TextFrom(f, a + 2) = TextFrom(f, a + 1) \o Spelled(a + 1, a + 2, FALSE)
    <3>1. \A k \in (a + 1)..((a + 2) - 1) : k = a + 1
      BY <1>1
    <3>2. \A k \in (a + 1)..((a + 2) - 1) : Kept(k) /\ InRef(k) = FALSE
      BY <1>1, <1>8, <1>10, <3>1
    <3> QED BY <2>1, <3>2, TextSpells
  <2> QED BY <2>2, <2>3
<1> QED BY <1>1, <1>4, <1>5, <1>7, <1>8, <1>9, <1>11

\* A reference in braces, inside of quotes.
LEMMA BracesRun ==
  ASSUME line \in Seq(Letters), NEW a \in 1..Len(line), NEW q \in Quotes, State[a] = [quote |-> q, escaped |-> FALSE],
         \A j \in 1..(a - 1) : Behind(j, a), line[a] = Lbrace,
         NEW b \in (a + 3)..(Len(line) + 1), NEW f \in (a + 1)..(b - 2), NEW t \in (f + 1)..(b - 1),
         BracedAt(a, f, t - 1, b - 1), Braces(a) = {b - 1}
  PROVE  /\ State[b] = [quote |-> q, escaped |-> FALSE] /\ Before(b) = Before(a)
         /\ \A k \in a..(b - 1) : Fine(k) /\ Behind(k, b) /\ ~Cut(k)
         /\ \A w \in 1..a : TextFrom(w, b) = TextFrom(w, a) \o Spelled(f, t, TRUE)
<1>1. /\ Len(line) \in Nat /\ a \in Nat /\ b \in Nat /\ f \in Nat /\ t \in Nat
      /\ a \in 1..(Len(line) + 1) /\ a + 1 =< f /\ f < t /\ t =< b - 1 /\ b =< Len(line) + 1
      /\ f \in 1..Len(line) /\ t - 1 \in f..Len(line) /\ b \in a..(Len(line) + 1)
  OBVIOUS
<1>2. /\ line[b - 1] = Rbrace /\ RefAt(f, t - 1)
      /\ \A m \in (a + 1)..(f - 1) : line[m] \in Hws
      /\ \A m \in t..(b - 2) : line[m] \in Hws
  <2>1. /\ line[b - 1] = Rbrace /\ RefAt(f, t - 1)
        /\ \A m \in ((a + 1)..(f - 1)) \cup (((t - 1) + 1)..((b - 1) - 1)) : line[m] \in Hws
    BY DEF BracedAt
  <2>2. (t - 1) + 1 = t /\ (b - 1) - 1 = b - 2
    BY <1>1
  <2> QED BY <2>1, <2>2
<1>3. line[f] \in Sigil \cup {"$"} /\ \A j \in (f + 1)..(t - 1) : line[j] \in Name \cup {"."}
  BY <1>1, <1>2, RefChars
<1>4. \A k \in f..(t - 1) : line[k] \in Sigil \cup {"$"} \cup Name \cup {"."}
  <2>1. ASSUME NEW k \in f..(t - 1) PROVE line[k] \in Sigil \cup {"$"} \cup Name \cup {"."}
    <3>1. k = f \/ k \in (f + 1)..(t - 1)
      BY <1>1
    <3> QED BY <1>3, <3>1
  <2> QED BY <2>1
<1>5. \A c \in Sigil \cup {"$"} \cup Name \cup {"."} : c \notin Quotes \cup Hws \cup {Lbrace, Rbrace, Backslash}
  BY BraceChars DEF Hws, Quotes, Quote, Backslash, Sigil, Name
<1>6. \A c \in Hws : c \notin Quotes \cup {Lbrace, Rbrace, Backslash}
  BY BraceChars DEF Hws, Quotes, Quote, Backslash
<1>7. Rbrace \notin Quotes \cup {Lbrace, Backslash} /\ Lbrace \notin Quotes \cup {Backslash}
  BY BraceChars
<1>8. ASSUME NEW k \in a..(b - 1)
      PROVE  k = a \/ k = b - 1 \/ k \in (a + 1)..(f - 1) \/ k \in f..(t - 1) \/ k \in t..(b - 2)
  BY <1>1
<1>9. \A k \in a..(b - 1) : line[k] \notin Quotes \cup {Backslash} /\ (k # a => line[k] # Lbrace)
  <2>1. ASSUME NEW k \in a..(b - 1) PROVE line[k] \notin Quotes \cup {Backslash} /\ (k # a => line[k] # Lbrace)
    BY <1>2, <1>4, <1>5, <1>6, <1>7, <1>8
  <2> QED BY <2>1
<1>10. q # "none"
  BY DEF Quotes, Quote
<1>11. \A k \in a..b : State[k] = [quote |-> q, escaped |-> FALSE]
  <2>1. \A k \in a..(b - 1) : line[k] \notin {q, Backslash}
    BY <1>9
  <2> QED BY <1>1, <1>10, <2>1, QuotedStays
<1>12. \A k \in a..(b - 1) : k \in 1..Len(line)
  BY <1>1
<1>13. \A k \in a..(b - 1) : ~Out(k) /\ ~InGroup(k) /\ ~Cut(k) /\ k \notin Bracket
  <2>1. ASSUME NEW k \in a..(b - 1) PROVE ~Out(k) /\ ~InGroup(k) /\ ~Cut(k) /\ k \notin Bracket
    <3>1. State[k].quote = q
      BY <1>1, <1>11
    <3> QED BY <1>12, <3>1, SafeInQuotes
  <2> QED BY <2>1
<1>14. \A k \in a..(b - 1) : ~Mark(k)
  <2>1. ASSUME NEW k \in a..(b - 1) PROVE ~Mark(k)
    <3>1. State[k].quote = q
      BY <1>1, <1>11
    <3> QED BY <1>9, <1>13, <3>1 DEF Mark, Is
  <2> QED BY <2>1
<1>15. a \in a..(b - 1) /\ a \in a..b
  BY <1>1
<1>16. Brace(a)
  BY <1>11, <1>13, <1>15 DEF Brace
<1>17. \A k \in a..(b - 1) : k # a => ~Brace(k)
  BY <1>9 DEF Brace
<1>18. \A k \in a..(b - 1) : Fine(k)
  <2>1. ASSUME NEW k \in a..(b - 1) PROVE Fine(k)
    <3>1. Brace(k) => Braces(k) # {}
      BY <1>17
    <3> QED BY <1>13, <3>1, FineIn
  <2> QED BY <2>1
<1>19. \A k \in a..(b - 1) : Behind(k, b)
  <2>1. b - 1 < b
    BY <1>1
  <2> QED BY <1>13, <1>17, <2>1 DEF Behind
<1>20. ASSUME NEW k \in a..(b - 1)
       PROVE InRef(k) <=> k # a /\ k # b - 1
  <2>1. CASE k # a /\ k # b - 1
    <3>1. a \in 1..(k - 1) /\ k < b - 1
      BY <1>1, <2>1
    <3> QED BY <1>16, <2>1, <3>1 DEF InRef
  <2>2. ASSUME NEW j \in 1..k, InGroup(j), line[j] \in Sigil \cup {"$"}, NEW n \in RefsFrom(j), k =< n PROVE FALSE
    <3>1. n \in Nat
      BY <1>1 DEF RefsFrom
    <3>2. j \notin a..(b - 1)
      BY <1>13, <2>2
    <3>3. j \in 1..(a - 1)
      BY <1>1, <3>2
    <3>4. n < a
      BY <2>2, <3>3 DEF Behind
    <3> QED BY <1>1, <2>2, <3>1, <3>4
  <2>3. ASSUME k = a \/ k = b - 1, NEW j \in 1..(k - 1), Brace(j), NEW n \in Braces(j), k < n PROVE FALSE
    <3>1. n \in Nat
      BY <1>1 DEF Braces
    <3>2. CASE j \in 1..(a - 1)
      <4>1. n < a
        BY <2>3, <3>2 DEF Behind
      <4> QED BY <1>1, <2>3, <3>1, <4>1
    <3>3. CASE j \notin 1..(a - 1)
      <4>1. j \in a..(b - 1) /\ j < k
        BY <1>1, <3>3
      <4>2. j = a
        BY <1>17, <2>3, <4>1
      <4>3. k = b - 1 /\ n = b - 1
        BY <1>1, <2>3, <4>1, <4>2
      <4> QED BY <1>1, <2>3, <4>3
    <3> QED BY <3>2, <3>3
  <2>4. CASE k = a \/ k = b - 1
    BY <2>2, <2>3, <2>4 DEF InRef
  <2> QED BY <2>1, <2>4
<1>21. \A k \in a..(b - 1) : Braced(k)
  <2>1. ASSUME NEW k \in a..(b - 1) PROVE Braced(k)
    <3>1. a \in 1..k /\ k =< b - 1
      BY <1>1
    <3> QED BY <1>16, <3>1 DEF Braced
  <2> QED BY <2>1
<1>22. \A k \in a..(b - 1) : Kept(k) <=> InRef(k) /\ line[k] \notin Hws
  BY <1>14, <1>21 DEF Kept
<1>23. \A k \in a..(f - 1) : ~Kept(k)
  <2>1. ASSUME NEW k \in a..(f - 1) PROVE ~Kept(k)
    <3>1. k \in a..(b - 1) /\ (k = a \/ k \in (a + 1)..(f - 1))
      BY <1>1
    <3> QED BY <1>2, <1>20, <1>22, <3>1
  <2> QED BY <2>1
<1>24. \A k \in f..(t - 1) : Kept(k) /\ InRef(k) = TRUE
  <2>1. ASSUME NEW k \in f..(t - 1) PROVE Kept(k) /\ InRef(k) = TRUE
    <3>1. k \in a..(b - 1) /\ k # a /\ k # b - 1
      BY <1>1
    <3>2. InRef(k)
      BY <1>20, <3>1
    <3>3. InRef(k) \in BOOLEAN
      BY DEF InRef
    <3> QED BY <1>4, <1>5, <1>22, <3>1, <3>2, <3>3
  <2> QED BY <2>1
<1>25. \A k \in t..(b - 1) : ~Kept(k)
  <2>1. ASSUME NEW k \in t..(b - 1) PROVE ~Kept(k)
    <3>1. k \in a..(b - 1) /\ (k = b - 1 \/ k \in t..(b - 2))
      BY <1>1
    <3> QED BY <1>2, <1>20, <1>22, <3>1
  <2> QED BY <2>1
<1>26. ASSUME NEW w \in 1..a PROVE TextFrom(w, b) = TextFrom(w, a) \o Spelled(f, t, TRUE)
  <2>1. /\ w \in 1..(Len(line) + 1) /\ a \in w..(Len(line) + 1) /\ f \in a..(Len(line) + 1) /\ f \in w..(Len(line) + 1)
        /\ t \in f..(Len(line) + 1) /\ t \in w..(Len(line) + 1) /\ b \in t..(Len(line) + 1)
    BY <1>1
  <2>2. TextFrom(w, f) = TextFrom(w, a)
    BY <1>23, <2>1, TextSkips
  <2>3. TextFrom(w, t) = TextFrom(w, f) \o Spelled(f, t, TRUE)
    BY <1>24, <2>1, TextSpells
  <2>4. TextFrom(w, b) = TextFrom(w, t)
    BY <1>25, <2>1, TextSkips
  <2> QED BY <2>2, <2>3, <2>4
<1>27. Before(b) = Before(a)
  BY <1>1, <1>13, BeforeRun
<1>28. State[b] = [quote |-> q, escaped |-> FALSE]
  BY <1>1, <1>11
<1> QED BY <1>13, <1>18, <1>19, <1>26, <1>27, <1>28

LEMMA InterpRun ==
  ASSUME line \in Seq(Letters), NEW a \in 1..Len(line), NEW q \in Quotes, State[a] = [quote |-> q, escaped |-> FALSE],
         \A j \in 1..(a - 1) : Behind(j, a), line[a] = Lbrace, NEW i \in Interp(a)
  PROVE  /\ i.end \in (a + 1)..(Len(line) + 1) /\ i.from \in 1..Len(line) /\ i.to \in (i.from + 1)..(Len(line) + 1)
         /\ State[i.end] = [quote |-> q, escaped |-> FALSE] /\ Before(i.end) = Before(a)
         /\ \A k \in a..(i.end - 1) : Fine(k) /\ Behind(k, i.end) /\ ~Cut(k)
         /\ \A w \in 1..a : TextFrom(w, i.end) = TextFrom(w, a) \o Spelled(i.from, i.to, TRUE)
<1>1. /\ i.from \in (a + 1)..(i.end - 2) /\ i.to - 1 \in i.from..(i.end - 2) /\ i.to \in Nat
      /\ i.end - 1 \in 1..Len(line) /\ i.end \in Nat
      /\ BracedAt(a, i.from, i.to - 1, i.end - 1)
      /\ Braces(a) = {i.end - 1}
  BY InterpFinds
<1> DEFINE b == i.end
           f == i.from
           t == i.to
<1> HIDE DEF b, f, t
<1>2. /\ f \in (a + 1)..(b - 2) /\ t - 1 \in f..(b - 2) /\ t \in Nat /\ b - 1 \in 1..Len(line) /\ b \in Nat
      /\ BracedAt(a, f, t - 1, b - 1) /\ Braces(a) = {b - 1}
  BY <1>1 DEF b, f, t
<1>3. /\ b \in (a + 3)..(Len(line) + 1) /\ t \in (f + 1)..(b - 1) /\ b \in (a + 1)..(Len(line) + 1)
      /\ f \in 1..Len(line) /\ t \in (f + 1)..(Len(line) + 1)
  BY <1>2
<1>4. /\ State[b] = [quote |-> q, escaped |-> FALSE] /\ Before(b) = Before(a)
      /\ \A k \in a..(b - 1) : Fine(k) /\ Behind(k, b) /\ ~Cut(k)
      /\ \A w \in 1..a : TextFrom(w, b) = TextFrom(w, a) \o Spelled(f, t, TRUE)
  BY <1>2, <1>3, BracesRun
<1> QED BY <1>3, <1>4 DEF b, f, t

----------------------------------------------------------------------------
(* What is known before a place, further on. *)

LEMMA HeldMoves ==
  ASSUME line \in Seq(Letters), NEW S, NEW a \in Nat, NEW b \in Nat, a =< b, Held(a, S), \A j \in a..(b - 1) : ~Is(j, S)
  PROVE  Held(b, S)
<1>1. PICK w \in Stretches : w[2] < a /\ \A j \in w[1]..(a - 1) : ~Is(j, S)
  BY DEF Held
<1>2. w[1] \in Nat /\ w[2] \in Nat
  BY StretchIs
<1>3. w[2] < b /\ \A j \in w[1]..(b - 1) : j \in w[1]..(a - 1) \/ j \in a..(b - 1)
  BY <1>1, <1>2
<1> QED BY <1>1, <1>3 DEF Held

LEMMA HeldLess ==
  ASSUME NEW k, Held(k, Marks)
  PROVE  Held(k, {"|"})
<1>1. \A j : Is(j, {"|"}) => Is(j, Marks)
  BY DEF Is, Marks
<1> QED BY <1>1 DEF Held

LEMMA VacantMoves ==
  ASSUME NEW S, NEW a \in Nat, NEW b \in Nat, a =< b, Vacant(a, S), \A j \in a..(b - 1) : Cut(j)
  PROVE  Vacant(b, S)
<1>1. ASSUME NEW j \in 1..(b - 1), ~Cut(j) PROVE \E m \in j..(b - 1) : Is(m, S)
  <2>1. j \in 1..(a - 1)
    BY <1>1
  <2>2. PICK m \in j..(a - 1) : Is(m, S)
    BY <1>1, <2>1 DEF Vacant
  <2>3. m \in j..(b - 1)
    BY <2>1
  <2> QED BY <2>2, <2>3
<1> QED BY <1>1 DEF Vacant

LEMMA VacantAfter ==
  ASSUME NEW S, NEW a \in Nat, a = 1 \/ Is(a - 1, S)
  PROVE  Vacant(a, S)
<1>1. ASSUME NEW j \in 1..(a - 1) PROVE \E m \in j..(a - 1) : Is(m, S)
  <2>1. a - 1 \in j..(a - 1) /\ a # 1
    BY <1>1
  <2> QED BY <2>1
<1> QED BY <1>1 DEF Vacant

LEMMA VacantNotHeld ==
  ASSUME line \in Seq(Letters), NEW S, NEW k \in Nat, Vacant(k, S)
  PROVE  ~Held(k, S)
<1>1. SUFFICES ASSUME NEW w \in Stretches, w[2] < k, \A j \in w[1]..(k - 1) : ~Is(j, S) PROVE FALSE
  BY DEF Held
<1>2. w[1] \in 1..Len(line) /\ w[2] \in 1..Len(line) /\ w[1] =< w[2] /\ \A j \in w[1]..w[2] : ~Cut(j)
  BY StretchIs
<1>3. w[1] \in 1..(k - 1) /\ w[1] \in w[1]..w[2]
  BY <1>1, <1>2
<1> QED BY <1>1, <1>2, <1>3 DEF Vacant

LEMMA NoSourceMoves ==
  ASSUME line \in Seq(Letters), NEW a \in Nat, NEW b \in Nat, a =< b, NoSource(a), \A j \in a..(b - 1) : ~Is(j, {"|"})
  PROVE  NoSource(b)
<1>1. ASSUME NEW w \in Stretches, Alone(w)
      PROVE  \E p \in DOMAIN line : Is(p, {"|"}) /\ ((w[1] < p /\ p < b) \/ (b =< p /\ p < w[1]))
  <2>1. PICK p \in DOMAIN line : Is(p, {"|"}) /\ ((w[1] < p /\ p < a) \/ (a =< p /\ p < w[1]))
    BY <1>1 DEF NoSource
  <2>2. w[1] \in Nat /\ p \in Nat
    BY StretchIs
  <2>3. p \notin a..(b - 1)
    BY <2>1
  <2>4. (w[1] < p /\ p < b) \/ (b =< p /\ p < w[1])
    BY <2>1, <2>2, <2>3
  <2> QED BY <2>1, <2>4
<1> QED BY <1>1 DEF NoSource

LEMMA ListedMoves ==
  ASSUME line \in Seq(Letters), NEW ws, NEW a \in Nat, NEW b \in Nat, a =< b, Listed(ws, a),
         \A w \in Own : w[2] \notin a..(b - 1)
  PROVE  Listed(ws, b)
<1>1. ASSUME NEW w \in Own PROVE w[2] < b <=> w[2] < a
  <2>1. w[2] \in Nat
    BY StretchIs DEF Own
  <2> QED BY <2>1
<1> QED BY <1>1 DEF Listed

LEMMA ListedSkips ==
  ASSUME line \in Seq(Letters), NEW ws, NEW a \in Nat, NEW b \in Nat, a =< b, Listed(ws, a),
         \A k \in a..(b - 1) : Cut(k)
  PROVE  Listed(ws, b)
<1>1. ASSUME NEW w \in Own PROVE w[2] \notin a..(b - 1)
  <2>1. w[1] =< w[2] /\ w[1] \in Nat /\ w[2] \in Nat /\ \A j \in w[1]..w[2] : ~Cut(j)
    BY StretchIs DEF Own
  <2>2. w[2] \in w[1]..w[2]
    BY <2>1
  <2> QED BY <2>1, <2>2
<1> QED BY <1>1, ListedMoves

\* The stretch that ends before a cut is the next word.
LEMMA ListedNext ==
  ASSUME line \in Seq(Letters), NEW ws, NEW f \in 1..Len(line), NEW n \in (f + 1)..(Len(line) + 1), Listed(ws, f),
         <<f, n - 1>> \in Own
  PROVE  Listed(Append(ws, <<f, n - 1>>), n)
<1> DEFINE w == <<f, n - 1>>
<1>0. w[1] = f /\ w[2] = n - 1 /\ w \in Own
  OBVIOUS
<1> HIDE DEF w
<1>1. /\ ws \in Seq(Own) /\ \A i, j \in 1..Len(ws) : i < j => ws[i][2] < ws[j][1]
      /\ \A v \in Own : v[2] < f <=> \E i \in 1..Len(ws) : ws[i] = v
  BY DEF Listed
<1> DEFINE vs == Append(ws, w)
<1>2. /\ vs \in Seq(Own) /\ Len(vs) = Len(ws) + 1 /\ Len(ws) \in Nat /\ vs[Len(ws) + 1] = w
      /\ \A i \in 1..Len(ws) : vs[i] = ws[i]
  BY <1>0, <1>1
<1> HIDE DEF vs
<1>3. \A i \in 1..Len(vs) : i \in 1..Len(ws) \/ i = Len(ws) + 1
  BY <1>2
<1>4. ASSUME NEW i \in 1..Len(vs), NEW j \in 1..Len(vs), i < j PROVE vs[i][2] < vs[j][1]
  <2>1. i \in 1..Len(ws)
    BY <1>2, <1>4
  <2>2. CASE j \in 1..Len(ws)
    BY <1>1, <1>2, <1>4, <2>1, <2>2
  <2>3. CASE j = Len(ws) + 1
    <3>1. ws[i] \in Own
      BY <1>1, <2>1
    <3>2. ws[i][2] < f
      BY <1>1, <2>1, <3>1
    <3> QED BY <1>0, <1>2, <2>1, <2>3, <3>2
  <2> QED BY <1>3, <2>2, <2>3
<1>5. ASSUME NEW v \in Own PROVE v[2] < n <=> \E i \in 1..Len(vs) : vs[i] = v
  <2>0. v[1] \in Nat /\ v[2] \in Nat /\ v[1] =< v[2] /\ v \in Stretches /\ w \in Stretches
    BY <1>0, StretchIs DEF Own
  <2>1. CASE v[2] < f
    <3>1. PICK i \in 1..Len(ws) : ws[i] = v
      BY <1>1, <2>1
    <3>2. i \in 1..Len(vs) /\ vs[i] = v
      BY <1>2, <3>1
    <3> QED BY <2>0, <2>1, <3>2
  <2>2. CASE ~(v[2] < f) /\ v[2] < n
    <3>1. w[1] =< v[2] /\ v[2] =< w[2]
      BY <1>0, <2>0, <2>2
    <3>2. v = w
      BY <2>0, <3>1, OneStretch
    <3>3. Len(ws) + 1 \in 1..Len(vs)
      BY <1>2
    <3> QED BY <1>2, <2>2, <3>2, <3>3
  <2>3. CASE ~(v[2] < n)
    <3>1. ASSUME NEW i \in 1..Len(vs), vs[i] = v PROVE FALSE
      <4>1. CASE i \in 1..Len(ws)
        <5>1. ws[i] = v /\ v[2] < f
          BY <1>1, <1>2, <3>1, <4>1
        <5> QED BY <2>0, <2>3, <5>1
      <4>2. CASE i = Len(ws) + 1
        BY <1>0, <1>2, <2>3, <3>1, <4>2
      <4> QED BY <1>3, <4>1, <4>2
    <3> QED BY <2>3, <3>1
  <2> QED BY <2>1, <2>2, <2>3
<1>6. Listed(vs, n)
  BY <1>2, <1>4, <1>5 DEF Listed
<1> QED BY <1>6 DEF vs, w

----------------------------------------------------------------------------
(* The words of a line, in their order. *)

LEMMA FirstOnes ==
  ASSUME NEW S, NEW ws \in Seq(S), \A i, j \in 1..Len(ws) : i # j => ws[i] # ws[j], NEW n \in 0..Len(ws)
  PROVE  Cardinality({ws[i] : i \in 1..n}) = n
<1> DEFINE T == {ws[i] : i \in 1..n}
           f == [i \in 1..n |-> ws[i]]
<1>1. n \in Nat /\ \A i \in 1..n : i \in 1..Len(ws)
  OBVIOUS
<1>2. f \in [1..n -> T] /\ \A i \in 1..n : f[i] = ws[i]
  OBVIOUS
<1>3. \A t \in T : \E i \in 1..n : f[i] = t
  OBVIOUS
<1>4. \A i, j \in 1..n : f[i] = f[j] => i = j
  BY <1>1, <1>2
<1> HIDE DEF T, f
<1>5. DOMAIN f = 1..n
  BY <1>2
<1>6. f \in Bijection(1..n, T)
  BY <1>2, <1>3, <1>4, <1>5 DEF Bijection, Injection, Surjection, IsInjective
<1>7. ExistsBijection(1..n, T)
  BY <1>6 DEF ExistsBijection
<1>8. IsFiniteSet(1..n) /\ Cardinality(1..n) = n
  <2>1. 1 \in Int /\ n \in Int
    BY <1>1
  <2>2. IsFiniteSet(1..n) /\ Cardinality(1..n) = IF 1 > n THEN 0 ELSE n - 1 + 1
    BY <2>1, FS_Interval
  <2> QED BY <1>1, <2>2
<1>9. Cardinality(T) = n
  BY <1>7, <1>8, FS_Bijection
<1> QED BY <1>9 DEF T

\* All the words, in their order.
LEMMA ListedAll ==
  ASSUME line \in Seq(Letters), NEW ws, Listed(ws, Len(line) + 1)
  PROVE  AuthorsWords = Authors(ws)
<1>0. Len(line) \in Nat
  OBVIOUS
<1>1. /\ ws \in Seq(Own) /\ \A i, j \in 1..Len(ws) : i < j => ws[i][2] < ws[j][1]
      /\ \A w \in Own : w[2] < Len(line) + 1 <=> \E i \in 1..Len(ws) : ws[i] = w
  BY DEF Listed
<1>2. \A w \in Own : w[1] \in Nat /\ w[2] \in Nat /\ w[1] =< w[2] /\ w[2] < Len(line) + 1
  <2>1. ASSUME NEW w \in Own PROVE w[1] \in Nat /\ w[2] \in Nat /\ w[1] =< w[2] /\ w[2] < Len(line) + 1
    <3>1. w[1] \in 1..Len(line) /\ w[2] \in 1..Len(line) /\ w[1] =< w[2]
      BY StretchIs DEF Own
    <3> QED BY <1>0, <3>1
  <2> QED BY <2>1
<1>3. Len(ws) \in Nat /\ \A i \in 1..Len(ws) : ws[i] \in Own
  BY <1>1
<1>4. \A w \in Own : \E i \in 1..Len(ws) : ws[i] = w
  BY <1>1, <1>2
<1>5. \A i, j \in 1..Len(ws) : ws[i][1] < ws[j][1] <=> i < j
  <2>1. ASSUME NEW i \in 1..Len(ws), NEW j \in 1..Len(ws) PROVE ws[i][1] < ws[j][1] <=> i < j
    <3>1. /\ ws[i][1] \in Nat /\ ws[i][2] \in Nat /\ ws[i][1] =< ws[i][2]
          /\ ws[j][1] \in Nat /\ ws[j][2] \in Nat /\ ws[j][1] =< ws[j][2]
      BY <1>2, <1>3
    <3>2. CASE i < j
      <4>1. ws[i][2] < ws[j][1]
        BY <1>1, <3>2
      <4> QED BY <3>1, <3>2, <4>1
    <3>3. CASE j < i
      <4>1. ws[j][2] < ws[i][1]
        BY <1>1, <3>3
      <4> QED BY <3>1, <3>3, <4>1
    <3>4. CASE i = j
      BY <3>1, <3>4
    <3> QED BY <1>3, <3>2, <3>3, <3>4
  <2> QED BY <2>1
<1>6. \A i, j \in 1..Len(ws) : i # j => ws[i] # ws[j]
  <2>1. ASSUME NEW i \in 1..Len(ws), NEW j \in 1..Len(ws), i # j PROVE ws[i] # ws[j]
    <3>1. i < j \/ j < i
      BY <1>3, <2>1
    <3>2. ws[i][1] \in Nat /\ ws[j][1] \in Nat
      BY <1>2, <1>3
    <3> QED BY <1>5, <3>1, <3>2
  <2> QED BY <2>1
<1>7. Cardinality(Own) = Len(ws)
  <2>1. Own = {ws[i] : i \in 1..Len(ws)}
    BY <1>3, <1>4
  <2>2. Len(ws) \in 0..Len(ws)
    BY <1>3
  <2>3. Cardinality({ws[i] : i \in 1..Len(ws)}) = Len(ws)
    BY <1>1, <1>6, <2>2, FirstOnes
  <2> QED BY <2>1, <2>3
<1>8. ASSUME NEW k \in 1..Len(ws) PROVE Cardinality({v \in Own : v[1] < ws[k][1]}) = k - 1
  <2>1. {v \in Own : v[1] < ws[k][1]} = {ws[i] : i \in 1..(k - 1)}
    <3>1. ASSUME NEW v \in Own, v[1] < ws[k][1] PROVE \E i \in 1..(k - 1) : v = ws[i]
      <4>1. PICK i \in 1..Len(ws) : ws[i] = v
        BY <1>4
      <4>2. i < k
        BY <1>5, <3>1, <4>1
      <4> QED BY <1>3, <4>1, <4>2
    <3>2. ASSUME NEW i \in 1..(k - 1) PROVE ws[i] \in Own /\ ws[i][1] < ws[k][1]
      <4>1. i \in 1..Len(ws) /\ i < k
        BY <1>3
      <4> QED BY <1>3, <1>5, <4>1
    <3> QED BY <3>1, <3>2
  <2>2. k - 1 \in 0..Len(ws)
    BY <1>3
  <2> QED BY <1>1, <1>6, <2>1, <2>2, FirstOnes
<1>9. ASSUME NEW k \in 1..Len(ws) PROVE Nth(Own, k) = ws[k]
  <2>1. ASSUME NEW w \in Own, Cardinality({v \in Own : v[1] < w[1]}) = k - 1 PROVE w = ws[k]
    <3>1. PICK j \in 1..Len(ws) : ws[j] = w
      BY <1>4
    <3>2. j - 1 = k - 1
      BY <1>8, <2>1, <3>1
    <3> QED BY <1>3, <3>1, <3>2
  <2>2. ws[k] \in Own /\ Cardinality({v \in Own : v[1] < ws[k][1]}) = k - 1
    BY <1>3, <1>8
  <2> QED BY <2>1, <2>2 DEF Nth
<1>10. AuthorsWords = [k \in 1..Cardinality(Own) |-> AuthorsWord(Nth(Own, k))]
  BY DEF AuthorsWords, Own, Nth
<1> QED BY <1>7, <1>9, <1>10 DEF Authors

LEMMA AuthorsNext ==
  ASSUME line \in Seq(Letters), NEW ws \in Seq(Own), NEW w \in Own, Authors(ws) \in Seq(Text), AuthorsWord(w) \in Text
  PROVE  Authors(Append(ws, w)) = Authors(ws) \o <<AuthorsWord(w)>>
<1>1. Len(ws) \in Nat /\ Len(Authors(ws)) = Len(ws) /\ \A i \in 1..Len(ws) : Authors(ws)[i] = AuthorsWord(ws[i])
  BY DEF Authors
<1> DEFINE vs == Append(ws, w)
<1>2. /\ vs \in Seq(Own) /\ Len(vs) = Len(ws) + 1 /\ vs[Len(ws) + 1] = w /\ \A i \in 1..Len(ws) : vs[i] = ws[i]
  OBVIOUS
<1> HIDE DEF vs
<1>3. Authors(vs) \in Seq(Text)
  <2>1. ASSUME NEW i \in 1..Len(vs) PROVE AuthorsWord(vs[i]) \in Text
    <3>1. CASE i \in 1..Len(ws)
      <4>1. Authors(ws)[i] \in Text
        BY <1>1, <3>1
      <4> QED BY <1>1, <1>2, <3>1, <4>1
    <3>2. CASE i \notin 1..Len(ws)
      <4>1. i = Len(ws) + 1
        BY <1>1, <1>2, <3>2
      <4> QED BY <1>2, <4>1
    <3> QED BY <3>1, <3>2
  <2>2. Len(vs) \in Nat
    BY <1>1, <1>2
  <2> QED BY <2>1, <2>2 DEF Authors
<1>4. /\ Len(Authors(vs)) = Len(Authors(ws)) + 1
      /\ \A i \in 1..Len(Authors(ws)) : Authors(vs)[i] = Authors(ws)[i]
      /\ Authors(vs)[Len(Authors(ws)) + 1] = AuthorsWord(w)
  BY <1>1, <1>2 DEF Authors
<1>5. Authors(vs) = Append(Authors(ws), AuthorsWord(w))
  BY <1>3, <1>4, ExtendIs
<1>6. Append(Authors(ws), AuthorsWord(w)) = Authors(ws) \o <<AuthorsWord(w)>>
  OBVIOUS
<1> QED BY <1>5, <1>6 DEF vs

\* The word of a stretch is the text of its characters.
LEMMA StretchText ==
  ASSUME line \in Seq(Letters), NEW f \in 1..Len(line), NEW n \in (f + 1)..(Len(line) + 1)
  PROVE  AuthorsWord(<<f, n - 1>>) = TextFrom(f, n) /\ AuthorsWord(<<f, n - 1>>) \in Text
<1>1. Len(line) \in Nat /\ (n - 1) - f + 1 = n - f /\ f \in 1..(Len(line) + 1) /\ n \in f..(Len(line) + 1)
  OBVIOUS
<1>2. AuthorsWord(<<f, n - 1>>) = TextFrom(f, n)
  BY <1>1 DEF AuthorsWord, TextFrom
<1> QED BY <1>1, <1>2, TextsAreMarked DEF Text

\* What has been read to the end is what the author reads.
LEMMA Accepting ==
  ASSUME line \in Seq(Letters), State[Len(line) + 1].quote = "none", Before(Len(line) + 1) # "[",
         Held(Len(line) + 1, {"|"}), \A k \in 1..Len(line) : Fine(k)
  PROVE  WellFormed
  BY FineIsWellFormed DEF EndFine

\* The mode a chunk leaves is the one the line says.
LEMMA LexMoves ==
  ASSUME line \in Seq(Letters), line' = line, NEW a \in Nat, NEW b \in Nat, a =< b, LexicalAt(a),
         open' \in Quotes \cup {"none"}, State[b] = [quote |-> open', escaped |-> FALSE],
         phase' = "group" <=> Before(b) = "[",
         phase' = "stage" => piece' = {} /\ open' = "none" /\ Is(b - 1, {"|"}),
         phase' # "stage" /\ piece' = {} => At(b) \notin Hws,
         \A k \in a..(b - 1) : Fine(k) /\ Behind(k, b)
  PROVE  LexicalAt(b)'
<1>1. ASSUME NEW k \in 1..(b - 1) PROVE Fine(k) /\ Behind(k, b)
  <2>1. CASE k < a
    <3>1. k \in 1..(a - 1) /\ k \in Nat
      BY <2>1
    <3>2. Fine(k) /\ Behind(k, a)
      BY <3>1 DEF LexicalAt
    <3> QED BY <3>1, <3>2, BehindLater
  <2>2. CASE ~(k < a)
    <3>1. k \in a..(b - 1)
      BY <2>2
    <3> QED BY <3>1
  <2> QED BY <2>1, <2>2
<1>2. State'[b] = State[b]
  BY Frozen
<1>3. \A k : Before(k)' = Before(k) /\ At(k)' = At(k)
  BY Frozen
<1>4. \A k : Fine(k)' <=> Fine(k)
  BY Frozen
<1>5. \A k, s : Is(k, s)' <=> Is(k, s)
  BY Frozen
<1>6. \A k, n : Behind(k, n)' <=> Behind(k, n)
  BY Frozen
<1>7. \A k \in 1..(b - 1) : Fine(k)' /\ Behind(k, b)'
  BY <1>1, <1>4, <1>6
<1> QED BY <1>2, <1>3, <1>5, <1>7 DEF LexicalAt

\* Where a command begins: every source of the line is in another stage.
LEMMA CommandHere ==
  ASSUME line \in Seq(Letters), NEW a \in 1..(Len(line) + 1), State[a] = [quote |-> "none", escaped |-> FALSE],
         \A j \in 1..(a - 1) : Behind(j, a), a = 1 \/ Is(a - 1, {"|"}),
         NEW b, b = Past(a, Hws),
         \A n \in {Past(m, Hws) : m \in Ref(b)} : At(n) \notin {"|", "end"}
  PROVE  NoSource(b)
<1>1. /\ b \in a..(Len(line) + 1) /\ State[b] = [quote |-> "none", escaped |-> FALSE] /\ At(b) \notin Hws
      /\ \A k \in a..(b - 1) : Cut(k) /\ ~Is(k, {"|"})
  BY BlankRun
<1>2. Len(line) \in Nat /\ a \in Nat /\ b \in Nat /\ DOMAIN line = 1..Len(line) /\ a =< b /\ b =< Len(line) + 1 /\ 1 =< a
  <2>1. Len(line) \in Nat /\ a \in Nat
    OBVIOUS
  <2> QED BY <1>1, <2>1
<1>3. SUFFICES ASSUME NEW w \in Stretches, Alone(w),
                      \A p \in DOMAIN line : Is(p, {"|"}) => ~((w[1] < p /\ p < b) \/ (b =< p /\ p < w[1]))
               PROVE  FALSE
  BY DEF NoSource
<1>4. /\ w[1] \in 1..Len(line) /\ w[2] \in 1..Len(line) /\ w[1] =< w[2] /\ w[1] \in Nat /\ w[2] \in Nat
      /\ Cut(w[2] + 1) /\ \A j \in w[1]..w[2] : ~Cut(j)
  BY <1>2, StretchIs
<1>5. /\ IsRef(SubSeq(line, w[1], w[2])) /\ \A k \in w[1]..w[2] : Out(k)
      /\ \A v \in Stretches : v # w =>
           \E k \in DOMAIN line : Is(k, {"|"}) /\ ((v[1] < k /\ k < w[1]) \/ (w[1] < k /\ k < v[1]))
      /\ Before(w[1]) \in {"end", "|"} /\ After(w[2]) \in {"end", "|"}
  BY <1>3 DEF Alone
<1>6. ~Cut(w[1])
  <2>1. w[1] \in w[1]..w[2]
    BY <1>4
  <2> QED BY <1>4, <2>1
<1>7. \A k : Cut(k) <=> k \notin 1..Len(line) \/ Is(k, Hws) \/ Is(k, {"[", "]"}) \/ Is(k, {"|"})
  BY <1>2 DEF Cut, Is
<1>8. b =< w[1]
  <2>1. SUFFICES ASSUME w[1] < b PROVE FALSE
    BY <1>2, <1>4
  <2>2. w[1] < a
    <3>1. w[1] \notin a..(b - 1)
      BY <1>1, <1>6
    <3> QED BY <1>2, <1>4, <2>1, <3>1
  <2>3. Is(a - 1, {"|"}) /\ a - 1 \in 1..Len(line)
    BY <1>2, <1>4, <2>2
  <2>4. Cut(a - 1)
    BY <1>7, <2>3
  <2>5. w[1] # a - 1
    BY <1>6, <2>4
  <2>6. w[1] < a - 1 /\ a - 1 < b
    BY <1>2, <1>4, <2>2, <2>5
  <2> QED BY <1>2, <1>3, <2>3, <2>6
\* A stretch between the two would be in the same stage.
<1>9. ASSUME NEW k \in b..(w[1] - 1) PROVE Cut(k)
  <2>1. SUFFICES ASSUME ~Cut(k) PROVE FALSE
    OBVIOUS
  <2>2. k \in 1..Len(line) /\ k \in Nat /\ b =< k /\ k < w[1]
    BY <1>2, <1>4, <1>8
  <2>3. PICK v \in Stretches : v[1] =< k /\ k =< v[2]
    BY <2>1, <2>2, InStretch
  <2>4. v[1] \in Nat /\ v[2] \in Nat /\ v[1] \in 1..Len(line) /\ \A j \in v[1]..v[2] : ~Cut(j)
    BY <1>2, StretchIs
  <2>5. v # w
    BY <1>4, <2>2, <2>3, <2>4
  <2>6. PICK p \in DOMAIN line : Is(p, {"|"}) /\ ((v[1] < p /\ p < w[1]) \/ (w[1] < p /\ p < v[1]))
    BY <1>5, <2>5
  <2>7. p \in Nat /\ v[1] < p /\ p < w[1]
    BY <1>2, <1>4, <2>2, <2>3, <2>4, <2>6
  <2>8. v[1] >= b
    <3>1. SUFFICES ASSUME v[1] < b PROVE FALSE
      BY <1>2, <2>4
    <3>2. b - 1 \in v[1]..v[2]
      BY <1>2, <2>2, <2>3, <2>4, <3>1
    <3>3. Cut(b - 1)
      <4>1. CASE a < b
        <5>1. b - 1 \in a..(b - 1)
          BY <1>2, <4>1
        <5> QED BY <1>1, <5>1
      <4>2. CASE a = b
        <5>1. a # 1
          BY <2>4, <3>1, <4>2
        <5> QED BY <1>7, <4>2, <5>1
      <4> QED BY <1>2, <4>1, <4>2
    <3> QED BY <2>4, <3>2, <3>3
  <2> QED BY <1>2, <1>3, <2>4, <2>6, <2>7, <2>8
<1>10. w[1] = b
  <2>1. SUFFICES ASSUME b < w[1] PROVE FALSE
    BY <1>2, <1>4, <1>8
  <2>2. b \in b..(w[1] - 1) /\ b \in 1..Len(line)
    BY <1>2, <1>4, <2>1
  <2>3. Cut(b) /\ At(b) = line[b]
    BY <1>2, <1>9, <2>2 DEF At
  <2>4. ~Is(b, {"|"}) /\ ~Is(b, Hws)
    <3>1. ~Is(b, {"|"})
      BY <1>2, <1>3, <2>1, <2>2
    <3>2. ~Is(b, Hws)
      BY <1>1, <2>3 DEF Is
    <3> QED BY <3>1, <3>2
  <2>5. b \in Bracket
    BY <1>2, <1>7, <2>2, <2>3, <2>4 DEF Bracket, Is
  <2>6. PICK j \in Bracket : j < w[1] /\ Before(w[1]) = line[j] /\ \A m \in (j + 1)..(w[1] - 1) : m \notin Bracket
    BY <1>4, <2>1, <2>5, BeforeWhich
  <2>7. j \in 1..Len(line) /\ Is(j, {line[j]})
    BY BracketCuts
  <2>8. b =< j
    <3>1. SUFFICES ASSUME j < b PROVE FALSE
      BY <1>2, <2>7
    <3>2. b \in (j + 1)..(w[1] - 1)
      BY <1>2, <1>4, <2>1, <2>7, <3>1
    <3> QED BY <2>5, <2>6, <3>2
  <2>9. line[j] \in {"[", "]", "|"}
    BY DEF Bracket, Is
  <2>10. line[j] = "|"
    BY <1>5, <2>6, <2>9
  <2> QED BY <1>2, <1>3, <2>6, <2>7, <2>8, <2>10
<1>11. b \in 1..Len(line) /\ w[2] \in b..Len(line)
  BY <1>4, <1>10
<1>12. RefAt(b, w[2])
  BY <1>5, <1>10, <1>11, RefAtIs
<1> DEFINE e == w[2] + 1
           n == Past(e, Hws)
<1>13. e \in Nat /\ e \in 1..(Len(line) + 1) /\ w[2] = e - 1 /\ b < e
  BY <1>2, <1>4, <1>10
<1> HIDE DEF e
<1>14. Cut(e)
  BY <1>4 DEF e
<1>15. line[b] \in Sigil \cup {"$"} /\ \A j \in (b + 1)..w[2] : line[j] \in Name \cup {"."}
  BY <1>11, <1>12, RefChars
<1>16. \A k \in b..(e - 1) : line[k] \notin Quotes
  <2>1. \A c \in Sigil \cup {"$"} \cup Name \cup {"."} : c \notin Quotes
    BY DEF Quotes, Quote, Sigil, Name
  <2>2. ASSUME NEW k \in b..(e - 1) PROVE k = b \/ k \in (b + 1)..w[2]
    BY <1>2, <1>13
  <2> QED BY <1>15, <2>1, <2>2
<1>17. \A k \in b..e : State[k] = [quote |-> "none", escaped |-> FALSE]
  <2>1. b \in 1..(Len(line) + 1) /\ e \in b..(Len(line) + 1)
    BY <1>2, <1>11, <1>13
  <2> QED BY <1>1, <1>16, <2>1, OutStays
<1>18. State[e] = [quote |-> "none", escaped |-> FALSE]
  BY <1>2, <1>13, <1>17
<1>19. At(e) \notin Name \cup {"."}
  <2>1. CASE e \in 1..Len(line)
    <3>1. line[e] \in Hws \cup {"[", "]", "|"} /\ At(e) = line[e]
      BY <1>2, <1>14, <2>1 DEF Cut, Is, At
    <3> QED BY <3>1 DEF Hws, Name
  <2>2. CASE e \notin 1..Len(line)
    BY <1>2, <2>2 DEF At, Name
  <2> QED BY <2>1, <2>2
<1>20. Ref(b) = {e}
  BY <1>11, <1>12, <1>19, RefEnds DEF e
<1>21. At(n) \notin {"|", "end"}
  BY <1>20
<1>22. n \in Nat /\ e =< n /\ At(n) \notin Hws /\ \A j \in e..(n - 1) : j \in 1..Len(line) /\ line[j] \in Hws
  <2>1. e \in Nat \ {0} /\ "end" \notin Hws
    BY <1>13 DEF Hws
  <2> QED BY <2>1, PastIs
<1> HIDE DEF n
<1>23. n \in 1..Len(line) /\ At(n) = line[n] /\ n \in e..(Len(line) + 1)
  <2>1. n \in 1..Len(line) /\ At(n) = line[n]
    BY <1>2, <1>21 DEF At
  <2> QED BY <1>2, <1>13, <1>22, <2>1
<1>24. \A k \in e..n : State[k] = [quote |-> "none", escaped |-> FALSE]
  <2>1. \A k \in e..(n - 1) : line[k] \notin Quotes
    BY <1>22 DEF Hws, Quotes, Quote
  <2> QED BY <1>13, <1>18, <1>23, <2>1, OutStays
<1>25. \A k \in e..n : Out(k)
  BY <1>24 DEF Out
<1>26. \A k \in e..(n - 1) : k \notin Bracket /\ ~Is(k, {"|"})
  <2>1. \A c \in Hws : c \notin {"[", "]", "|"}
    BY DEF Hws
  <2> QED BY <1>22, <2>1 DEF Bracket, Is
<1>27. n \in e..n
  BY <1>13, <1>22
<1>28. CASE Cut(n)
  <2>1. line[n] \in {"[", "]"} /\ n \in Bracket
    BY <1>2, <1>21, <1>22, <1>23, <1>28 DEF Cut, Is, Bracket
  <2>2. \A m \in (w[2] + 1)..(n - 1) : m \notin Bracket
    BY <1>26 DEF e
  <2>3. w[2] < n
    BY <1>13, <1>22, <1>23, <1>4
  <2>4. After(w[2]) = line[n]
    BY <1>4, <2>1, <2>2, <2>3, AfterIs
  <2> QED BY <1>5, <2>1, <2>4
<1>29. CASE ~Cut(n)
  <2>1. PICK v \in Stretches : v[1] =< n /\ n =< v[2]
    BY <1>23, <1>29, InStretch
  <2>2. v[1] \in Nat /\ v[2] \in Nat /\ \A j \in v[1]..v[2] : ~Cut(j)
    BY StretchIs
  <2>3. e < v[1]
    <3>1. SUFFICES ASSUME v[1] =< e PROVE FALSE
      BY <1>13, <2>2
    <3>2. e \in v[1]..v[2]
      BY <1>13, <1>22, <2>1, <2>2, <3>1
    <3> QED BY <1>14, <2>2, <3>2
  <2>4. v # w
    BY <1>4, <1>13, <2>2, <2>3
  <2>5. PICK p \in DOMAIN line : Is(p, {"|"}) /\ ((v[1] < p /\ p < w[1]) \/ (w[1] < p /\ p < v[1]))
    BY <1>5, <2>4
  <2>6. p \in Nat /\ w[1] < p /\ p < n
    BY <1>2, <1>4, <1>10, <1>13, <1>22, <2>1, <2>2, <2>3, <2>5
  <2>7. CASE p \in e..(n - 1)
    BY <1>26, <2>5, <2>7
  <2>8. CASE p \notin e..(n - 1)
    <3>1. p \in w[1]..w[2]
      BY <1>4, <1>13, <1>22, <2>6, <2>8
    <3>2. Cut(p)
      BY <1>7, <2>5
    <3> QED BY <1>4, <3>1, <3>2
  <2> QED BY <2>7, <2>8
<1> QED BY <1>28, <1>29

LEMMA BehindOn ==
  ASSUME line \in Seq(Letters), NEW a \in Nat, NEW b \in Nat, a =< b, \A j \in 1..(a - 1) : Behind(j, a),
         \A k \in a..(b - 1) : Behind(k, b)
  PROVE  \A j \in 1..(b - 1) : Behind(j, b)
<1>1. ASSUME NEW j \in 1..(b - 1) PROVE Behind(j, b)
  <2>1. CASE j < a
    <3>1. j \in 1..(a - 1) /\ j \in Nat
      BY <2>1
    <3> QED BY <3>1, BehindLater
  <2>2. CASE ~(j < a)
    <3>1. j \in a..(b - 1)
      BY <2>2
    <3> QED BY <3>1
  <2> QED BY <2>1, <2>2
<1> QED BY <1>1

\* A source stage: one reference between blanks, which is the only stretch of its stage.
LEMMA SourceRun ==
  ASSUME line \in Seq(Letters), NEW a \in 1..(Len(line) + 1), State[a] = [quote |-> "none", escaped |-> FALSE],
         \A j \in 1..(a - 1) : Behind(j, a), a = 1 \/ Is(a - 1, {"|"}), Before(a) # "[",
         NEW b, b = Past(a, Hws), NEW e \in Ref(b), NEW n, n = Past(e, Hws), At(n) \in {"|", "end"}
  PROVE  /\ n \in a..(Len(line) + 1) /\ State[n] = [quote |-> "none", escaped |-> FALSE] /\ Before(n) = Before(a)
         /\ \A k \in a..(n - 1) : Fine(k) /\ Behind(k, n)
         /\ Held(n, {"|"})
         /\ \A w \in Own : w[2] \notin a..(n - 1)
<1>0. Len(line) \in Nat /\ DOMAIN line = 1..Len(line)
  OBVIOUS
<1>1. /\ b \in a..(Len(line) + 1) /\ State[b] = [quote |-> "none", escaped |-> FALSE] /\ At(b) \notin Hws
      /\ Before(b) = Before(a)
      /\ \A k \in a..(b - 1) : Fine(k) /\ Behind(k, b) /\ Cut(k) /\ ~Is(k, Marks) /\ ~Is(k, {"|"})
  BY BlankRun
<1>2. a \in Nat /\ b \in Nat /\ a =< b /\ b \in Nat \ {0} /\ 1 =< a
  BY <1>0, <1>1
<1>3. e \in Nat /\ b < e /\ e =< Len(line) + 1 /\ b \in 1..Len(line) /\ e \in b..(Len(line) + 1)
      /\ b \in 1..(Len(line) + 1) /\ e \in 1..(Len(line) + 1)
  <2>1. e \in Nat /\ b < e /\ e =< Len(line) + 1
    BY <1>2, RefIs
  <2> QED BY <1>0, <1>2, <2>1
<1>4. e - 1 \in b..Len(line) /\ RefAt(b, e - 1)
  BY <1>3, RefLongest
<1>5. line[b] \in Sigil \cup {"$"} /\ \A j \in (b + 1)..(e - 1) : line[j] \in Name \cup {"."}
  BY <1>3, <1>4, RefChars
<1>6. \A k \in b..(e - 1) : k \in 1..Len(line) /\ line[k] \in Sigil \cup {"$"} \cup Name \cup {"."}
  <2>1. ASSUME NEW k \in b..(e - 1) PROVE k \in 1..Len(line) /\ (k = b \/ k \in (b + 1)..(e - 1))
    BY <1>0, <1>2, <1>3
  <2> QED BY <1>5, <2>1
<1>7. \A c \in Sigil \cup {"$"} \cup Name \cup {"."} :
        c \notin Quotes \cup Hws \cup {Lbrace, Rbrace, "newline", "[", "]", "|"}
  BY BraceChars DEF Hws, Quotes, Quote, Sigil, Name
<1>8. \A k \in b..e : State[k] = [quote |-> "none", escaped |-> FALSE]
  BY <1>1, <1>3, <1>6, <1>7, OutStays
<1>9. \A k \in b..(e - 1) : Out(k)
  BY <1>2, <1>3, <1>8 DEF Out
<1>10. \A k \in b..(e - 1) : k \notin Bracket /\ ~Cut(k) /\ ~Brace(k)
  BY <1>0, <1>6, <1>7, <1>9 DEF Cut, Is, Brace, Bracket
<1>11. \A k \in b..(e - 1) : ~InGroup(k)
  <2>1. ASSUME NEW k \in b..(e - 1) PROVE ~InGroup(k)
    <3>1. k \in Nat /\ b =< k /\ \A m \in b..(k - 1) : m \in b..(e - 1)
      BY <1>2, <1>3
    <3>2. Before(k) = Before(b)
      BY <1>2, <1>10, <3>1, BeforeRun
    <3> QED BY <1>1, <3>2 DEF InGroup
  <2> QED BY <2>1
<1>12. \A k \in b..(e - 1) : Fine(k)
  <2>1. ASSUME NEW k \in b..(e - 1) PROVE Fine(k)
    <3>1. line[k] \notin {Lbrace, "newline", "[", "]", "|"}
      BY <1>6, <1>7
    <3> QED BY <1>9, <1>11, <3>1, FineOut
  <2> QED BY <2>1
<1>13. \A j \in 1..(b - 1) : Behind(j, b)
  BY <1>1, <1>2, BehindOn
<1>14. \A k \in b..(e - 1) : Behind(k, e)
  BY <1>3, <1>10, <1>11, <1>13, ClearRun
<1>15. \A j \in 1..(e - 1) : Behind(j, e)
  <2>1. b \in Nat /\ e \in Nat /\ b =< e
    BY <1>2, <1>3
  <2> QED BY <1>13, <1>14, <2>1, BehindOn
<1>16. State[e] = [quote |-> "none", escaped |-> FALSE]
  BY <1>2, <1>3, <1>8
<1>17. /\ n \in e..(Len(line) + 1) /\ State[n] = [quote |-> "none", escaped |-> FALSE] /\ At(n) \notin Hws
       /\ Before(n) = Before(e)
       /\ \A k \in e..(n - 1) : Fine(k) /\ Behind(k, n) /\ Cut(k) /\ ~Is(k, Marks) /\ ~Is(k, {"|"})
  BY <1>3, <1>15, <1>16, BlankRun
<1>18. n \in Nat /\ e =< n /\ n =< Len(line) + 1 /\ n \in a..(Len(line) + 1)
  BY <1>2, <1>3, <1>17
<1>19. Before(n) = Before(a)
  BY <1>1, <1>2, <1>3, <1>10, <1>17, BeforeRun
<1>20. \A j \in 1..(n - 1) : Behind(j, n)
  BY <1>3, <1>15, <1>17, <1>18, BehindOn
<1>21. \A k \in a..(n - 1) : k \in a..(b - 1) \/ k \in b..(e - 1) \/ k \in e..(n - 1)
  BY <1>2, <1>3, <1>18
<1>22. \A k \in a..(n - 1) : Fine(k) /\ Behind(k, n)
  <2>1. \A k \in a..(n - 1) : k \in 1..(n - 1)
    BY <1>2
  <2> QED BY <1>1, <1>12, <1>17, <1>20, <1>21, <2>1
<1>23. \A k \in a..(n - 1) : ~Is(k, {"|"})
  <2>1. \A k \in b..(e - 1) : ~Is(k, {"|"})
    BY <1>6, <1>7 DEF Is
  <2> QED BY <1>1, <1>17, <1>21, <2>1
\* The stretch of the reference.
<1> DEFINE w == <<b, e - 1>>
<1>24. w[1] = b /\ w[2] = e - 1
  OBVIOUS
<1>25. Cut(b - 1)
  <2>1. CASE a < b
    <3>1. b - 1 \in a..(b - 1)
      BY <1>2, <2>1
    <3> QED BY <1>1, <3>1
  <2>2. CASE a = b /\ a = 1
    BY <1>0, <2>2 DEF Cut
  <2>3. CASE a = b /\ Is(a - 1, {"|"})
    BY <2>3 DEF Cut, Is
  <2> QED BY <1>2, <2>1, <2>2, <2>3
<1>26. Cut(e)
  <2>1. CASE e < n
    <3>1. e \in e..(n - 1)
      BY <1>3, <1>18, <2>1
    <3> QED BY <1>17, <3>1
  <2>2. CASE e = n /\ n \in 1..Len(line)
    <3>1. line[n] \in {"|", "end"} /\ line[n] # "end" /\ Out(n)
      <4>1. line[n] \in Letters
        BY <2>2
      <4> QED BY <1>0, <1>17, <2>2, <4>1, NoEnd DEF At, Out
    <3> QED BY <2>2, <3>1 DEF Cut, Is
  <2>3. CASE e = n /\ n \notin 1..Len(line)
    BY <1>0, <2>3 DEF Cut
  <2> QED BY <1>3, <1>18, <2>1, <2>2, <2>3
<1>27. w \in Stretches
  <2>1. (e - 1) + 1 = e /\ b =< e - 1 /\ b \in DOMAIN line /\ e - 1 \in DOMAIN line
    BY <1>0, <1>2, <1>3
  <2>2. w \in (DOMAIN line) \X (DOMAIN line)
    BY <2>1
  <2> HIDE DEF w
  <2> QED BY <1>10, <1>24, <1>25, <1>26, <2>1, <2>2 DEF Stretches
<1> HIDE DEF w
\* The pipe that ends the stage, if one does.
<1>28. n \in 1..Len(line) => Is(n, {"|"}) /\ n \in Bracket /\ Cut(n) /\ line[n] = "|"
  <2>1. SUFFICES ASSUME n \in 1..Len(line) PROVE Is(n, {"|"}) /\ n \in Bracket /\ Cut(n) /\ line[n] = "|"
    OBVIOUS
  <2>2. line[n] = "|"
    <3>1. line[n] \in Letters /\ At(n) = line[n]
      BY <1>0, <2>1 DEF At
    <3> QED BY <3>1, NoEnd
  <2> QED BY <1>0, <1>17, <2>1, <2>2 DEF Is, Out, Bracket, Cut
<1>29. \A m \in e..(n - 1) : m \notin Bracket
  BY <1>17 DEF Bracket, Marks, Is
<1>30. After(e - 1) \in {"end", "|"}
  <2>1. e - 1 \in Nat /\ e - 1 < n /\ (e - 1) + 1 = e
    BY <1>2, <1>3, <1>18
  <2>2. CASE n \in 1..Len(line)
    <3>1. After(e - 1) = line[n]
      BY <1>28, <1>29, <2>1, <2>2, AfterIs
    <3> QED BY <1>28, <2>2, <3>1
  <2>3. CASE n \notin 1..Len(line)
    <3>1. ASSUME NEW j \in Bracket PROVE ~(e - 1 < j)
      <4>1. j \in 1..Len(line)
        BY <1>0 DEF Bracket
      <4>2. e - 1 < j => j \in e..(n - 1)
        BY <1>0, <1>2, <1>3, <1>18, <2>3, <4>1
      <4> QED BY <1>29, <4>2
    <3> QED BY <2>1, <3>1, AfterWhich
  <2> QED BY <2>2, <2>3
<1>31. ASSUME NEW v \in Stretches, v[2] \in a..(n - 1) PROVE v = w
  <2>1. v[1] \in Nat /\ v[2] \in Nat /\ v[1] =< v[2] /\ \A j \in v[1]..v[2] : ~Cut(j)
    BY StretchIs
  <2>2. v[2] \in v[1]..v[2]
    BY <2>1
  <2>3. v[2] \in b..(e - 1)
    BY <1>1, <1>17, <1>21, <1>31, <2>1, <2>2
  <2>4. w[1] =< v[2] /\ v[2] =< w[2]
    BY <1>2, <1>3, <1>24, <2>3
  <2> QED BY <1>27, <2>1, <2>4, OneStretch
<1>32. ASSUME NEW v \in Stretches, v # w
       PROVE  \E k \in DOMAIN line : Is(k, {"|"}) /\ ((v[1] < k /\ k < w[1]) \/ (w[1] < k /\ k < v[1]))
  <2>1. v[1] \in 1..Len(line) /\ v[2] \in 1..Len(line) /\ v[1] =< v[2] /\ \A j \in v[1]..v[2] : ~Cut(j)
    BY StretchIs
  <2>2. v[2] \notin a..(n - 1)
    BY <1>31, <1>32
  <2>3. CASE v[2] < a
    <3>1. Is(a - 1, {"|"}) /\ a - 1 \in DOMAIN line
      BY <1>0, <1>2, <2>1, <2>3
    <3>2. Cut(a - 1) /\ v[2] \in v[1]..v[2]
      BY <2>1, <3>1 DEF Cut, Is
    <3>3. v[2] # a - 1
      BY <2>1, <3>2
    <3>4. v[1] < a - 1 /\ a - 1 < w[1]
      BY <1>0, <1>2, <1>24, <2>1, <2>3, <3>3
    <3> QED BY <3>1, <3>4
  <2>4. CASE ~(v[2] < a)
    <3>1. n =< v[2] /\ n \in 1..Len(line)
      BY <1>0, <1>2, <1>3, <1>18, <2>1, <2>2, <2>4
    <3>2. Is(n, {"|"}) /\ Cut(n) /\ n \in DOMAIN line
      BY <1>0, <1>28, <3>1
    <3>3. n \notin v[1]..v[2]
      BY <2>1, <3>2
    <3>4. n < v[1] /\ w[1] < n
      BY <1>0, <1>2, <1>3, <1>18, <1>24, <2>1, <3>1, <3>3
    <3> QED BY <3>2, <3>4
  <2> QED BY <2>3, <2>4
<1>33. Before(b) \in {"end", "|"}
  <2>1. CASE a = 1
    <3>1. \A j \in Bracket : j \in 1..Len(line)
      BY <1>0 DEF Bracket
    <3>2. \A j \in Bracket : ~(j < 1)
      BY <1>0, <3>1
    <3>3. Before(1) = "end"
      BY <3>2, BeforeWhich
    <3> QED BY <1>1, <2>1, <3>3
  <2>2. CASE a # 1
    <3>1. a - 1 \in DOMAIN line /\ Is(a - 1, {"|"}) /\ line[a - 1] = "|"
      BY <1>0, <1>2, <1>1, <2>2 DEF Is
    <3>2. a - 1 \in Bracket
      BY <3>1 DEF Bracket, Is
    <3>3. \A m \in ((a - 1) + 1)..(a - 1) : m \notin Bracket
      BY <1>2
    <3>4. Before(a) = line[a - 1]
      BY <1>2, <3>2, <3>3, BeforeIs
    <3> QED BY <1>1, <3>1, <3>4
  <2> QED BY <2>1, <2>2
<1>34. Alone(w)
  <2>1. IsRef(SubSeq(line, w[1], w[2]))
    BY <1>3, <1>4, <1>24, RefAtIs
  <2>2. \A k \in w[1]..w[2] : Out(k)
    BY <1>9, <1>24
  <2> QED BY <1>24, <1>30, <1>32, <1>33, <2>1, <2>2 DEF Alone
<1>35. \A v \in Own : v[2] \notin a..(n - 1)
  BY <1>31, <1>34 DEF Own
<1>36. Held(n, {"|"})
  <2>1. w[2] < n
    BY <1>2, <1>3, <1>18, <1>24
  <2>2. \A j \in w[1]..(n - 1) : j \in a..(n - 1)
    BY <1>2, <1>18, <1>24
  <2> QED BY <1>23, <1>27, <2>1, <2>2 DEF Held
<1> QED BY <1>17, <1>18, <1>19, <1>22, <1>35, <1>36

----------------------------------------------------------------------------
(* A chunk of a text token or piece. *)

LEMMA ListedFrozen ==
  ASSUME line' = line
  PROVE  \A ws, f : (Listed(ws, f)' <=> Listed(ws, f)) /\ Authors(ws)' = Authors(ws)
<1>1. Own' = Own /\ \A w : AuthorsWord(w)' = AuthorsWord(w)
  BY Frozen
<1>2. ASSUME NEW ws, NEW f PROVE Listed(ws, f)' <=> Listed(ws, f)
  BY <1>1 DEF Listed
<1>3. ASSUME NEW ws PROVE Authors(ws)' = Authors(ws)
  BY <1>1 DEF Authors
<1> QED BY <1>2, <1>3

LEMMA MarkCuts ==
  ASSUME NEW j, ~Cut(j)
  PROVE  ~Is(j, {"|"}) /\ ~Is(j, Marks)
  BY DEF Cut, Is, Marks

\* A chunk of the text token or piece being read, or that begins one.
LEMMA Chunk ==
  ASSUME Parsed, Following, line' = line, phase \in {"command", "group"}, phase' = phase, stages' = stages,
         tokens' = tokens, pieces' = pieces, piece' # {}, piece # {} \/ ~NoMore(at),
         NEW b \in (at + 1)..(Len(line) + 1), at' = b, open' \in Quotes \cup {"none"},
         State[b] = [quote |-> open', escaped |-> FALSE], Before(b) = Before(at),
         \A k \in at..(b - 1) : Fine(k) /\ Behind(k, b) /\ ~Cut(k),
         NEW text, ParsedWord(Begun') = ParsedWord(Begun) \o text,
         \A f \in 1..at : TextFrom(f, b) = TextFrom(f, at) \o text
  PROVE  Following'
<1>1. line \in Seq(Letters) /\ Len(line) \in Nat
  BY LineIs DEF Parsed
<1>2. at \in 1..(Len(line) + 1) /\ LexicalAt(at) /\ SegmentAt(at) /\ WordsAt(at)
  BY DEF Following, Doomed
<1>3. b \in Nat /\ at \in Nat /\ at =< b /\ at < b /\ b \in 1..(Len(line) + 1)
  BY <1>1, <1>2
<1>4. LexicalAt(b)'
  <2>1. phase' = "group" <=> Before(b) = "["
    BY <1>2 DEF LexicalAt
  <2> QED BY <1>1, <1>2, <1>3, <2>1, LexMoves
<1>5. \A j \in at..(b - 1) : ~Is(j, {"|"}) /\ ~Is(j, Marks)
  BY MarkCuts
<1>6. SegmentAt(b)'
  <2>1. tokens # <<>> => Held(b, {"|"})
    BY <1>1, <1>2, <1>3, <1>5, HeldMoves DEF SegmentAt
  <2>2. phase = "group" /\ pieces # <<>> => Held(b, Marks)
    BY <1>1, <1>2, <1>3, <1>5, HeldMoves DEF SegmentAt
  <2>3. NoSource(b)
    BY <1>1, <1>2, <1>3, <1>5, NoSourceMoves DEF SegmentAt
  <2>4. \A k, s : Held(k, s)' <=> Held(k, s)
    BY Frozen
  <2>5. NoSource(b)' <=> NoSource(b)
    BY Frozen
  <2> QED BY <2>1, <2>2, <2>3, <2>4, <2>5 DEF SegmentAt
<1>7. PICK f \in 1..at : PieceAt(f, at) /\ ReadTo(f)
  BY <1>2 DEF WordsAt
<1>8. f \in 1..b /\ f < b /\ f \in Nat
  BY <1>3
<1>9. Cut(f - 1)
  BY <1>7 DEF PieceAt
<1>10. \A k \in f..(b - 1) : ~Cut(k)
  <2>1. ASSUME NEW k \in f..(b - 1) PROVE k \in f..(at - 1) \/ k \in at..(b - 1)
    BY <1>3, <1>8
  <2> QED BY <1>7, <2>1 DEF PieceAt
<1>11. ParsedWord(Begun') = TextFrom(f, b)
  BY <1>7 DEF PieceAt
<1>12. PieceAt(f, b)'
  <2>1. \A k : Cut(k)' <=> Cut(k)
    BY Frozen
  <2>2. TextFrom(f, b)' = TextFrom(f, b)
    BY Frozen
  <2>3. ParsedWord(Begun)' = TextFrom(f, b)'
    BY <1>11, <2>2
  <2> QED BY <1>8, <1>9, <1>10, <2>1, <2>3 DEF PieceAt
<1>13. ReadTo(f)'
  <2>1. PICK ws : Listed(ws, f) /\ SoFar = Authors(ws)
    BY <1>7 DEF ReadTo
  <2>2. SoFar' = SoFar
    BY DEF SoFar
  <2>3. Listed(ws, f)' /\ Authors(ws)' = Authors(ws)
    BY <2>1, ListedFrozen
  <2> QED BY <2>1, <2>2, <2>3 DEF ReadTo
<1>14. WordsAt(b)'
  BY <1>8, <1>12, <1>13 DEF WordsAt
<1>15. b \in 1..(Len(line') + 1)
  BY <1>3
<1> QED BY <1>4, <1>6, <1>14, <1>15 DEF Following

\* What is added to the piece.
LEMMA AddText ==
  ASSUME Parsed, NEW part \in PartOf(Letters), NEW n, Add(part, n)
  PROVE  /\ line' = line /\ phase' = phase /\ open' = open /\ pieces' = pieces /\ tokens' = tokens
         /\ stages' = stages /\ piece' # {} /\ at' = n
         /\ ParsedWord(Begun') = ParsedWord(Begun) \o PartShown(part)
<1> DEFINE more == [parts |-> Merged(Begun.parts, part), force |-> Begun.force]
<1>1. /\ line' = line /\ phase' = phase /\ open' = open /\ pieces' = pieces /\ tokens' = tokens
      /\ stages' = stages /\ piece' = {more} /\ at' = n
  BY DEF Add
<1>2. Begun \in PieceOf
  BY BegunIs
<1>3. Begun.parts \in Seq(PartOf(Letters))
  BY <1>2 DEF PieceOf
<1>4. more.parts = Merged(Begun.parts, part)
  OBVIOUS
<1> HIDE DEF more
<1>5. Begun' = more
  BY <1>1 DEF Begun
<1>6. ParsedWord(more) = PartsText(more.parts)
  BY DEF ParsedWord, PartsText, PartShown
<1>7. ParsedWord(Begun) = PartsText(Begun.parts)
  BY DEF ParsedWord, PartsText, PartShown
<1>8. PartsText(Merged(Begun.parts, part)) = PartsText(Begun.parts) \o PartShown(part)
  BY <1>3, MergedText
<1> QED BY <1>1, <1>4, <1>5, <1>6, <1>7, <1>8

\* Where the parser is.
LEMMA Here ==
  ASSUME Parsed, Following
  PROVE  /\ line \in Seq(Letters) /\ Len(line) \in Nat /\ DOMAIN line = 1..Len(line)
         /\ at \in 1..(Len(line) + 1) /\ at \in Nat /\ LexicalAt(at)
         /\ State[at] = [quote |-> open, escaped |-> FALSE] /\ \A j \in 1..(at - 1) : Behind(j, at)
         /\ (phase = "group" <=> Before(at) = "[") /\ open \in Quotes \cup {"none"}
         /\ \A c : c # "end" /\ At(at) = c => at \in 1..Len(line) /\ line[at] = c
         /\ At(at) = "end" => at = Len(line) + 1
<1>1. line \in Seq(Letters) /\ Len(line) \in Nat
  BY LineIs DEF Parsed
<1>2. DOMAIN line = 1..Len(line)
  BY <1>1
<1>3. at \in 1..(Len(line) + 1) /\ LexicalAt(at)
  BY DEF Following
<1>4. at \in Nat
  BY <1>1, <1>3
<1>5. \A c : c # "end" /\ At(at) = c => at \in 1..Len(line) /\ line[at] = c
  BY <1>2 DEF At
<1>6. At(at) = "end" => at = Len(line) + 1
  <2>1. SUFFICES ASSUME At(at) = "end", at \in 1..Len(line) PROVE FALSE
    BY <1>1, <1>3
  <2>2. line[at] = "end" /\ line[at] \in Letters
    BY <1>1, <1>2, <2>1 DEF At
  <2> QED BY <2>2, NoEnd
<1>7. State[at] = [quote |-> open, escaped |-> FALSE]
  BY <1>3 DEF LexicalAt
<1>8. (phase = "group" <=> Before(at) = "[") /\ open \in Quotes \cup {"none"}
  BY <1>3 DEF LexicalAt
<1>9. \A j \in 1..(at - 1) : Behind(j, at)
  BY <1>3 DEF LexicalAt
<1> QED BY <1>1, <1>2, <1>3, <1>4, <1>5, <1>6, <1>7, <1>8, <1>9

LEMMA TakeBareFollows ==
  ASSUME Parsed, Following, TakeBare
  PROVE  Following'
<1> DEFINE a == at
           b == Past(at, Bare)
           part == Literal(SubSeq(line, a, b - 1))
<1>1. /\ phase \in {"command", "group"} /\ open = "none" /\ At(at) \in Bare /\ Add(part, b)
  BY DEF TakeBare
<1>2. /\ line \in Seq(Letters) /\ Len(line) \in Nat /\ at \in Nat
      /\ State[at] = [quote |-> open, escaped |-> FALSE] /\ \A j \in 1..(at - 1) : Behind(j, at)
      /\ (phase = "group" <=> Before(at) = "[")
  BY Here
<1>3. at \in 1..Len(line) /\ line[at] \in Bare
  <2>1. At(at) # "end"
    BY <1>1, BareIs
  <2> QED BY <1>1, <2>1, Here
<1>4. /\ b \in (a + 1)..(Len(line) + 1) /\ State[b] = [quote |-> "none", escaped |-> FALSE]
      /\ Before(b) = Before(a)
      /\ \A k \in a..(b - 1) : Fine(k) /\ Behind(k, b) /\ ~Cut(k)
      /\ \A f \in 1..a : TextFrom(f, b) = TextFrom(f, a) \o Spelled(a, b, FALSE)
  BY <1>1, <1>2, <1>3, BareRun
<1> HIDE DEF b
<1>5. PartShown(part) = Spelled(a, b, FALSE) /\ part \in PartOf(Letters)
  BY <1>2, <1>3, <1>4, SliceShown
<1> HIDE DEF part
<1>6. /\ line' = line /\ phase' = phase /\ open' = open /\ pieces' = pieces /\ tokens' = tokens
      /\ stages' = stages /\ piece' # {} /\ at' = b
      /\ ParsedWord(Begun') = ParsedWord(Begun) \o Spelled(a, b, FALSE)
  BY <1>1, <1>5, AddText
<1>7. ~NoMore(at)
  BY <1>1 DEF NoMore
<1> QED BY <1>1, <1>4, <1>6, <1>7, Chunk

LEMMA TakeRefFollows ==
  ASSUME Parsed, Following, TakeRef
  PROVE  Following'
<1>1. phase = "group" /\ open = "none"
  BY DEF TakeRef
<1>2. PICK b \in Ref(at) : Add(RefPart(at, b), b)
  BY DEF TakeRef
<1>3. /\ line \in Seq(Letters) /\ Len(line) \in Nat /\ at \in Nat /\ at \in Nat \ {0}
      /\ State[at] = [quote |-> open, escaped |-> FALSE] /\ \A j \in 1..(at - 1) : Behind(j, at)
      /\ Before(at) = "["
  BY <1>1, Here
<1>4. at \in 1..Len(line)
  <2>1. b \in Nat /\ at < b /\ b =< Len(line) + 1
    BY <1>3, RefIs
  <2> QED BY <1>3, <2>1
<1>5. /\ b \in (at + 1)..(Len(line) + 1) /\ State[b] = [quote |-> "none", escaped |-> FALSE]
      /\ Before(b) = Before(at)
      /\ \A k \in at..(b - 1) : Fine(k) /\ Behind(k, b) /\ ~Cut(k)
      /\ \A f \in 1..at : TextFrom(f, b) = TextFrom(f, at) \o Spelled(at, b, TRUE)
  BY <1>1, <1>3, <1>4, RefRun
<1>6. PartShown(RefPart(at, b)) = Spelled(at, b, TRUE) /\ RefPart(at, b) \in PartOf(Letters)
  BY <1>3, <1>4, <1>5, SliceShown
<1>7. /\ line' = line /\ phase' = phase /\ open' = open /\ pieces' = pieces /\ tokens' = tokens
      /\ stages' = stages /\ piece' # {} /\ at' = b
      /\ ParsedWord(Begun') = ParsedWord(Begun) \o Spelled(at, b, TRUE)
  BY <1>2, <1>6, AddText
<1>8. ~NoMore(at)
  BY <1>1, <1>2 DEF NoMore
<1> QED BY <1>1, <1>5, <1>7, <1>8, Chunk

\* A quote opens or closes: nothing comes to the text.
LEMMA NoText ==
  ASSUME Parsed, line \in Seq(Letters), NEW a \in 1..Len(line)
  PROVE  /\ ParsedWord(Begun) = ParsedWord(Begun) \o <<>>
         /\ \A f \in 1..a : TextFrom(f, a) = TextFrom(f, a) \o <<>>
<1>1. ParsedWord(Begun) \in Seq(Marked)
  BY BegunIs, PieceTextIs DEF Text
<1>2. ASSUME NEW f \in 1..a PROVE TextFrom(f, a) \in Seq(Marked)
  <2>1. f \in 1..(Len(line) + 1) /\ a \in f..(Len(line) + 1)
    OBVIOUS
  <2> QED BY <2>1, TextsAreMarked
<1>3. \A s \in Seq(Marked) : s = s \o <<>>
  OBVIOUS
<1> QED BY <1>1, <1>2, <1>3

LEMMA OpenQuoteFollows ==
  ASSUME Parsed, Following, OpenQuote
  PROVE  Following'
<1> DEFINE b == at + 1
           more == [parts |-> Begun.parts, force |-> TRUE]
<1>1. /\ phase \in {"command", "group"} /\ open = "none" /\ At(at) \in Quotes
      /\ open' = At(at) /\ at' = b /\ piece' = {more}
      /\ line' = line /\ phase' = phase /\ pieces' = pieces /\ tokens' = tokens /\ stages' = stages
  BY DEF OpenQuote
<1>2. /\ line \in Seq(Letters) /\ Len(line) \in Nat /\ at \in Nat
      /\ State[at] = [quote |-> open, escaped |-> FALSE] /\ \A j \in 1..(at - 1) : Behind(j, at)
  BY Here
<1>3. at \in 1..Len(line) /\ line[at] = At(at)
  <2>1. "end" \notin Quotes
    BY DEF Quotes, Quote
  <2> QED BY <1>1, <2>1, Here
<1>4. /\ State[at + 1] = [quote |-> line[at], escaped |-> FALSE] /\ Before(at + 1) = Before(at)
      /\ Fine(at) /\ Behind(at, at + 1) /\ ~Cut(at)
      /\ \A f \in 1..at : TextFrom(f, at + 1) = TextFrom(f, at)
  BY <1>1, <1>2, <1>3, OpenAt
<1>5. b \in (at + 1)..(Len(line) + 1) /\ \A k \in at..(b - 1) : k = at
  BY <1>2, <1>3
<1>6. \A k \in at..(b - 1) : Fine(k) /\ Behind(k, b) /\ ~Cut(k)
  BY <1>4, <1>5
<1>7. ParsedWord(Begun') = ParsedWord(Begun)
  <2>1. Begun' = more
    BY <1>1 DEF Begun
  <2>2. more.parts = Begun.parts
    OBVIOUS
  <2> HIDE DEF more
  <2> QED BY <2>1, <2>2 DEF ParsedWord
<1>8. /\ ParsedWord(Begun') = ParsedWord(Begun) \o <<>>
      /\ \A f \in 1..at : TextFrom(f, b) = TextFrom(f, at) \o <<>>
  BY <1>2, <1>3, <1>4, <1>7, NoText
<1>9. ~NoMore(at)
  BY <1>1 DEF NoMore
<1>10. State[b] = [quote |-> open', escaped |-> FALSE] /\ Before(b) = Before(at) /\ open' \in Quotes \cup {"none"}
       /\ piece' # {}
  BY <1>1, <1>3, <1>4
<1> HIDE DEF b, more
<1> QED BY <1>1, <1>5, <1>6, <1>8, <1>9, <1>10, Chunk

LEMMA QuoteIsOpen ==
  ASSUME Parsed, Following, open # "none"
  PROVE  open \in Quotes /\ piece # {}
  BY Here DEF Parsed

LEMMA CloseQuoteFollows ==
  ASSUME Parsed, Following, phase \in {"command", "group"}, CloseQuote
  PROVE  Following'
<1> DEFINE b == at + 1
<1>1. /\ open # "none" /\ At(at) = open /\ open' = "none" /\ at' = b
      /\ line' = line /\ phase' = phase /\ piece' = piece /\ pieces' = pieces /\ tokens' = tokens /\ stages' = stages
  BY DEF CloseQuote
<1>2. /\ line \in Seq(Letters) /\ Len(line) \in Nat /\ at \in Nat
      /\ State[at] = [quote |-> open, escaped |-> FALSE] /\ \A j \in 1..(at - 1) : Behind(j, at)
  BY Here
<1>3. open \in Quotes /\ piece # {} /\ open # "end" /\ open \notin {Lbrace, Backslash}
  <2>1. open \in Quotes /\ piece # {}
    BY <1>1, QuoteIsOpen
  <2>2. \A c \in Quotes : c # "end" /\ c \notin {Lbrace, Backslash}
    BY BraceChars DEF Quotes, Quote, Backslash
  <2> QED BY <2>1, <2>2
<1>4. at \in 1..Len(line) /\ line[at] = open
  BY <1>1, <1>3, Here
<1>5. /\ State[at + 1] = [quote |-> "none", escaped |-> FALSE] /\ Before(at + 1) = Before(at)
      /\ Fine(at) /\ Behind(at, at + 1) /\ ~Cut(at)
      /\ \A f \in 1..at : TextFrom(f, at + 1) = TextFrom(f, at)
  BY <1>2, <1>3, <1>4, QuotedAt
<1>6. b \in (at + 1)..(Len(line) + 1) /\ \A k \in at..(b - 1) : k = at
  BY <1>2, <1>4
<1>7. \A k \in at..(b - 1) : Fine(k) /\ Behind(k, b) /\ ~Cut(k)
  BY <1>5, <1>6
<1>8. Begun' = Begun
  BY <1>1 DEF Begun
<1>9. /\ ParsedWord(Begun') = ParsedWord(Begun) \o <<>>
      /\ \A f \in 1..at : TextFrom(f, b) = TextFrom(f, at) \o <<>>
  <2>1. ParsedWord(Begun) = ParsedWord(Begun) \o <<>> /\ \A f \in 1..at : TextFrom(f, at) = TextFrom(f, at) \o <<>>
    BY <1>2, <1>4, NoText
  <2> QED BY <1>5, <1>8, <2>1
<1>10. State[b] = [quote |-> open', escaped |-> FALSE] /\ Before(b) = Before(at) /\ open' \in Quotes \cup {"none"}
       /\ piece' # {}
  BY <1>1, <1>3, <1>5
<1> HIDE DEF b
<1> QED BY <1>1, <1>3, <1>6, <1>7, <1>9, <1>10, Chunk

LEMMA TakeQuotedFollows ==
  ASSUME Parsed, Following, phase \in {"command", "group"}, TakeQuoted
  PROVE  Following'
<1>1. open # "none"
  BY DEF TakeQuoted
<1>2. /\ line \in Seq(Letters) /\ Len(line) \in Nat /\ at \in Nat /\ DOMAIN line = 1..Len(line)
      /\ State[at] = [quote |-> open, escaped |-> FALSE] /\ \A j \in 1..(at - 1) : Behind(j, at)
      /\ open \in Quotes \cup {"none"}
  BY Here
<1>3. open \in Quotes /\ piece # {}
  BY <1>1, QuoteIsOpen
<1>4. ASSUME NEW i \in Interp(at), Add(RefPart(i.from, i.to), i.end) PROVE Following'
  <2>1. at \in 1..Len(line) /\ line[at] = Lbrace
    <3>1. At(at) = Lbrace
      BY <1>4 DEF Interp
    <3>2. Lbrace # "end"
      BY BraceChars
    <3> QED BY <3>1, <3>2, Here
  <2> DEFINE b == i.end
             f == i.from
             t == i.to
  <2>2. /\ b \in (at + 1)..(Len(line) + 1) /\ f \in 1..Len(line) /\ t \in (f + 1)..(Len(line) + 1)
        /\ State[b] = [quote |-> open, escaped |-> FALSE] /\ Before(b) = Before(at)
        /\ \A k \in at..(b - 1) : Fine(k) /\ Behind(k, b) /\ ~Cut(k)
        /\ \A w \in 1..at : TextFrom(w, b) = TextFrom(w, at) \o Spelled(f, t, TRUE)
    BY <1>2, <1>3, <1>4, <2>1, InterpRun
  <2>3. Add(RefPart(f, t), b)
    BY <1>4
  <2> HIDE DEF b, f, t
  <2>4. PartShown(RefPart(f, t)) = Spelled(f, t, TRUE) /\ RefPart(f, t) \in PartOf(Letters)
    BY <1>2, <2>2, SliceShown
  <2>5. /\ line' = line /\ phase' = phase /\ open' = open /\ pieces' = pieces /\ tokens' = tokens
        /\ stages' = stages /\ piece' # {} /\ at' = b
        /\ ParsedWord(Begun') = ParsedWord(Begun) \o Spelled(f, t, TRUE)
    BY <2>3, <2>4, AddText
  <2>6. State[b] = [quote |-> open', escaped |-> FALSE] /\ open' \in Quotes \cup {"none"}
    BY <1>2, <2>2, <2>5
  <2> QED BY <1>3, <2>2, <2>5, <2>6, Chunk
<1>5. ASSUME At(at) = Backslash, At(at + 1) # "end", Add(Literal(<<At(at + 1)>>), at + 2) PROVE Following'
  <2>1. at \in 1..Len(line) /\ line[at] = Backslash
    <3>1. Backslash # "end"
      BY DEF Backslash
    <3> QED BY <1>5, <3>1, Here
  <2>2. at + 1 \in 1..Len(line) /\ At(at + 1) = line[at + 1]
    BY <1>2, <1>5 DEF At
  <2> DEFINE b == at + 2
             part == Literal(<<At(at + 1)>>)
  <2>3. /\ State[b] = [quote |-> open, escaped |-> FALSE] /\ Before(b) = Before(at)
        /\ \A k \in at..(at + 1) : Fine(k) /\ Behind(k, b) /\ ~Cut(k)
        /\ \A f \in 1..at : TextFrom(f, b) = TextFrom(f, at) \o Spelled(at + 1, at + 2, FALSE)
    BY <1>2, <1>3, <2>1, <2>2, EscapeRun
  <2>4. b \in (at + 1)..(Len(line) + 1) /\ b - 1 = at + 1 /\ (at + 1) + 1 = at + 2
    BY <1>2, <2>2
  <2>5. PartShown(part) = Spelled(at + 1, at + 2, FALSE) /\ part \in PartOf(Letters)
    <3>1. /\ PartShown(Literal(<<line[at + 1]>>)) = Spelled(at + 1, (at + 1) + 1, FALSE)
          /\ Literal(<<line[at + 1]>>) \in PartOf(Letters)
      BY <1>2, <2>2, OneShown
    <3> QED BY <2>2, <2>4, <3>1
  <2>6. Add(part, b)
    BY <1>5
  <2>7. \A k \in at..(b - 1) : Fine(k) /\ Behind(k, b) /\ ~Cut(k)
    BY <2>3, <2>4
  <2> HIDE DEF part, b
  <2>8. /\ line' = line /\ phase' = phase /\ open' = open /\ pieces' = pieces /\ tokens' = tokens
        /\ stages' = stages /\ piece' # {} /\ at' = b
        /\ ParsedWord(Begun') = ParsedWord(Begun) \o Spelled(at + 1, at + 2, FALSE)
    BY <2>5, <2>6, AddText
  <2>9. State[b] = [quote |-> open', escaped |-> FALSE] /\ open' \in Quotes \cup {"none"}
    BY <1>2, <2>3, <2>8
  <2> QED BY <1>3, <2>3, <2>4, <2>7, <2>8, <2>9, Chunk
<1>6. ASSUME At(at) \notin {open, Backslash, Lbrace, "end"}, Add(Literal(<<At(at)>>), at + 1) PROVE Following'
  <2>1. at \in 1..Len(line) /\ line[at] = At(at)
    BY <1>6, Here
  <2> DEFINE b == at + 1
             part == Literal(<<At(at)>>)
  <2>2. /\ State[b] = [quote |-> open, escaped |-> FALSE] /\ Before(b) = Before(at)
        /\ Fine(at) /\ Behind(at, b) /\ ~Cut(at)
        /\ \A f \in 1..at : TextFrom(f, b) = TextFrom(f, at) \o Spelled(at, at + 1, FALSE)
    <3>1. line[at] \notin {Lbrace, Backslash} /\ line[at] # open
      BY <1>6, <2>1
    <3> QED BY <1>2, <1>3, <2>1, <3>1, QuotedAt
  <2>3. b \in (at + 1)..(Len(line) + 1) /\ \A k \in at..(b - 1) : k = at
    BY <1>2, <2>1
  <2>4. PartShown(part) = Spelled(at, at + 1, FALSE) /\ part \in PartOf(Letters)
    <3>1. PartShown(Literal(<<line[at]>>)) = Spelled(at, at + 1, FALSE) /\ Literal(<<line[at]>>) \in PartOf(Letters)
      BY <1>2, <2>1, OneShown
    <3> QED BY <2>1, <3>1
  <2>5. Add(part, b)
    BY <1>6
  <2>6. \A k \in at..(b - 1) : Fine(k) /\ Behind(k, b) /\ ~Cut(k)
    BY <2>2, <2>3
  <2> HIDE DEF part, b
  <2>7. /\ line' = line /\ phase' = phase /\ open' = open /\ pieces' = pieces /\ tokens' = tokens
        /\ stages' = stages /\ piece' # {} /\ at' = b
        /\ ParsedWord(Begun') = ParsedWord(Begun) \o Spelled(at, at + 1, FALSE)
    BY <2>4, <2>5, AddText
  <2>8. State[b] = [quote |-> open', escaped |-> FALSE] /\ open' \in Quotes \cup {"none"}
    BY <1>2, <2>2, <2>7
  <2> QED BY <1>3, <2>2, <2>3, <2>6, <2>7, <2>8, Chunk
<1> QED BY <1>4, <1>5, <1>6 DEF TakeQuoted

----------------------------------------------------------------------------
(* What has been read, when a word is added. *)

LEMMA SoFarIs ==
  ASSUME Parsed
  PROVE  /\ StagesText(stages) \in Seq(Text) /\ TokensText(tokens) \in Seq(Text) /\ PiecesText(pieces) \in Seq(Text)
         /\ SoFar \in Seq(Text)
         /\ phase = "stage" => SoFar = StagesText(stages)
         /\ phase = "command" => SoFar = StagesText(stages) \o TokensText(tokens)
         /\ phase = "group" => SoFar = (StagesText(stages) \o TokensText(tokens)) \o PiecesText(pieces)
<1> DEFINE ss == StagesText(stages)
           ts == TokensText(tokens)
           ps == PiecesText(pieces)
<1>1. ss \in Seq(Text)
  BY StagesTextIs DEF Parsed
<1>2. ts \in Seq(Text)
  BY TokensTextIs DEF Parsed
<1>3. ps \in Seq(Text)
  BY PiecesTextIs DEF Parsed
<1>4. SoFar = (ss \o (IF phase = "stage" THEN <<>> ELSE ts)) \o (IF phase = "group" THEN ps ELSE <<>>)
  BY DEF SoFar
<1> HIDE DEF ss, ts, ps
<1>5. \A s \in Seq(Text) : s \o <<>> = s
  OBVIOUS
<1>6. <<>> \in Seq(Text) /\ ss \o ts \in Seq(Text) /\ ss \o <<>> \in Seq(Text) /\ (ss \o ts) \o ps \in Seq(Text)
  BY <1>1, <1>2, <1>3
<1>7. CASE phase = "stage"
  BY <1>1, <1>4, <1>5, <1>6, <1>7, <1>2, <1>3 DEF ss, ts, ps
<1>8. CASE phase = "command"
  BY <1>1, <1>4, <1>5, <1>6, <1>8, <1>2, <1>3 DEF ss, ts, ps
<1>9. CASE phase = "group"
  BY <1>1, <1>4, <1>5, <1>6, <1>9, <1>2, <1>3 DEF ss, ts, ps
<1>10. CASE phase \notin {"stage", "command", "group"}
  BY <1>1, <1>4, <1>5, <1>6, <1>10, <1>2, <1>3 DEF ss, ts, ps
<1> QED BY <1>7, <1>8, <1>9, <1>10

\* A piece that ends is the next word.
LEMMA SoFarNext ==
  ASSUME Parsed, phase \in {"command", "group"}, EndPiece
  PROVE  SoFar' = SoFar \o <<ParsedWord(Begun)>> /\ ParsedWord(Begun) \in Text
<1>1. Begun \in PieceOf
  BY BegunIs
<1> DEFINE x == ParsedWord(Begun)
<1>2. x \in Text
  BY <1>1, PieceTextIs
<1>3. /\ StagesText(stages) \in Seq(Text) /\ TokensText(tokens) \in Seq(Text) /\ PiecesText(pieces) \in Seq(Text)
      /\ phase = "command" => SoFar = StagesText(stages) \o TokensText(tokens)
      /\ phase = "group" => SoFar = (StagesText(stages) \o TokensText(tokens)) \o PiecesText(pieces)
  BY SoFarIs
<1>4. phase' = phase /\ stages' = stages
  BY DEF EndPiece
<1>5. Parsed'
  BY ParseKeeps DEF Parse
<1>6. CASE phase = "group"
  <2>1. pieces' = Append(pieces, Begun) /\ tokens' = tokens
    BY <1>6 DEF EndPiece
  <2>2. pieces \in Seq(PieceOf)
    BY DEF Parsed
  <2>3. PiecesText(pieces') = Append(PiecesText(pieces), x)
    BY <1>1, <2>1, <2>2, PiecesAppend
  <2>4. Append(PiecesText(pieces), x) = PiecesText(pieces) \o <<x>>
    BY <1>2, <1>3
  <2>5. SoFar' = (StagesText(stages) \o TokensText(tokens)) \o (PiecesText(pieces) \o <<x>>)
    BY <1>4, <1>6, <2>1, <2>3, <2>4 DEF SoFar
  <2>6. StagesText(stages) \o TokensText(tokens) \in Seq(Text)
    BY <1>3
  <2>7. ((StagesText(stages) \o TokensText(tokens)) \o PiecesText(pieces)) \o <<x>>
          = (StagesText(stages) \o TokensText(tokens)) \o (PiecesText(pieces) \o <<x>>)
    BY <1>2, <1>3, <2>6, ConcatOne
  <2> QED BY <1>2, <1>3, <1>6, <2>5, <2>7
<1>7. CASE phase = "command"
  <2> DEFINE token == [group |-> FALSE, pieces |-> <<Begun>>]
  <2>1. tokens' = Append(tokens, token) /\ pieces' = pieces
    BY <1>7 DEF EndPiece
  <2>2. tokens \in Seq(TokenOf)
    BY DEF Parsed
  <2>3. token \in TokenOf /\ token.pieces = <<Begun>>
    BY <1>1 DEF TokenOf
  <2> HIDE DEF token
  <2>4. TokensText(tokens') = TokensText(tokens) \o PiecesText(<<Begun>>)
    BY <2>1, <2>2, <2>3, TokensAppend
  <2>5. PiecesText(<<Begun>>) = <<x>>
    <3>1. <<Begun>> \in Seq(PieceOf) /\ DOMAIN <<Begun>> = 1..1 /\ <<Begun>>[1] = Begun
      BY <1>1
    <3>2. PiecesText(<<Begun>>) = [m \in 1..1 |-> x]
      BY <3>1 DEF PiecesText
    <3> QED BY <1>2, <3>2
  <2>6. SoFar' = (StagesText(stages) \o TokensText(tokens')) \o <<>>
    BY <1>4, <1>7 DEF SoFar
  <2>7. TokensText(tokens') \in Seq(Text) /\ StagesText(stages) \o TokensText(tokens') \in Seq(Text)
    <3>1. \A s, t \in Seq(Text) : s \o t \in Seq(Text)
      OBVIOUS
    <3>2. <<x>> \in Seq(Text)
      BY <1>2
    <3> HIDE DEF x
    <3>3. TokensText(tokens') \in Seq(Text)
      BY ONLY <1>3, <2>4, <2>5, <3>1, <3>2
    <3> QED BY <1>3, <3>1, <3>3
  <2>8. SoFar' = StagesText(stages) \o (TokensText(tokens) \o <<x>>)
    <3>1. \A s \in Seq(Text) : s \o <<>> = s
      OBVIOUS
    <3>2. SoFar' = StagesText(stages) \o TokensText(tokens')
      BY <2>6, <2>7, <3>1
    <3> QED BY ONLY <2>4, <2>5, <3>2
  <2>9. (StagesText(stages) \o TokensText(tokens)) \o <<x>> = StagesText(stages) \o (TokensText(tokens) \o <<x>>)
    BY <1>2, <1>3, ConcatOne
  <2> QED BY <1>2, <1>3, <1>7, <2>8, <2>9
<1> QED BY <1>6, <1>7

----------------------------------------------------------------------------
(* Where a piece, a group, a command or a source ends. *)

\* A place where no text token or piece is being read.
LEMMA NonePiece ==
  ASSUME line \in Seq(Letters), line' = line, piece' = {}, NEW b \in 1..(Len(line) + 1),
         Cut(b - 1) \/ (phase' # "stage" /\ NoMore(b)')
  PROVE  PieceAt(b, b)'
<1>1. Begun' = [parts |-> <<>>, force |-> FALSE]
  BY DEF Begun
<1>2. ParsedWord(Begun') = <<>>
  <2>1. ParsedWord(Begun') = PartsText(<<>>)
    BY <1>1 DEF ParsedWord, PartsText, PartShown
  <2> QED BY <2>1, NoneText
<1>3. TextFrom(b, b)' = <<>>
  <2>1. TextFrom(b, b)' = TextFrom(b, b)
    BY Frozen
  <2> QED BY <2>1, TextNone
<1>4. \A k \in b..(b - 1) : FALSE
  OBVIOUS
<1>5. Cut(b - 1)' <=> Cut(b - 1)
  BY Frozen
<1> QED BY <1>2, <1>3, <1>4, <1>5 DEF PieceAt

\* The piece that ends before a cut is a stretch, and none of a source.
LEMMA PieceEnds ==
  ASSUME line \in Seq(Letters), NEW f \in 1..Len(line), NEW n \in (f + 1)..(Len(line) + 1), Cut(f - 1), Cut(n),
         \A k \in f..(n - 1) : ~Cut(k), NoSource(n)
  PROVE  /\ <<f, n - 1>> \in Own
         /\ Held(n, {"|"}) /\ Held(n, Marks)
<1> DEFINE w == <<f, n - 1>>
<1>1. /\ w[1] = f /\ w[2] = n - 1 /\ f \in Nat /\ n \in Nat /\ (n - 1) + 1 = n /\ f =< n - 1
      /\ n - 1 \in 1..Len(line) /\ DOMAIN line = 1..Len(line)
  OBVIOUS
<1>2. w \in (DOMAIN line) \X (DOMAIN line)
  BY <1>1
<1> HIDE DEF w
<1>3. w \in Stretches
  BY <1>1, <1>2 DEF Stretches
<1>4. \A k \in f..(n - 1) : ~Is(k, {"|"}) /\ ~Is(k, Marks)
  BY MarkCuts
<1>5. ~Alone(w)
  <2>1. SUFFICES ASSUME Alone(w) PROVE FALSE
    OBVIOUS
  <2>2. PICK p \in DOMAIN line : Is(p, {"|"}) /\ ((w[1] < p /\ p < n) \/ (n =< p /\ p < w[1]))
    BY <1>3, <2>1 DEF NoSource
  <2>3. p \in f..(n - 1)
    BY <1>1, <2>2
  <2> QED BY <1>4, <2>2, <2>3
<1>6. w[2] < n
  BY <1>1
<1>7. Held(n, {"|"}) /\ Held(n, Marks)
  BY <1>1, <1>3, <1>4, <1>6 DEF Held
<1> QED BY <1>3, <1>5, <1>7 DEF Own, w

LEMMA NoMoreFrozen ==
  ASSUME line' = line, phase' = phase
  PROVE  \A k : NoMore(k) => NoMore(k)'
<1>1. Bare' = Bare
  BY DEF Bare, Chars
<1>2. ASSUME NEW k, NoMore(k) PROVE NoMore(k)'
  <2>1. At(k)' = At(k) /\ Ref(k)' = Ref(k)
    BY Frozen
  <2> QED BY <1>1, <1>2, <2>1 DEF NoMore
<1> QED BY <1>2

LEMMA EndPieceFollows ==
  ASSUME Parsed, Following, phase \in {"command", "group"}, EndPiece
  PROVE  Following'
<1>0. PICK n, b : n = at /\ b = Past(at, Hws)
  OBVIOUS
<1>1. /\ piece # {} /\ open = "none" /\ NoMore(n)
      /\ piece' = {} /\ at' = b /\ line' = line /\ phase' = phase /\ open' = open /\ stages' = stages
      /\ phase = "group" => tokens' = tokens
  BY <1>0 DEF EndPiece, NoMore
<1>2. /\ line \in Seq(Letters) /\ Len(line) \in Nat /\ n \in Nat /\ n \in 1..(Len(line) + 1) /\ LexicalAt(n)
      /\ State[n] = [quote |-> "none", escaped |-> FALSE] /\ \A j \in 1..(n - 1) : Behind(j, n)
      /\ (phase = "group" <=> Before(n) = "[") /\ DOMAIN line = 1..Len(line)
      /\ \A c : c # "end" /\ At(n) = c => n \in 1..Len(line) /\ line[n] = c
  BY <1>0, <1>1, Here
<1>3. SegmentAt(n) /\ WordsAt(n)
  BY <1>0, <1>1 DEF Following, Doomed
<1>4. /\ b \in n..(Len(line) + 1) /\ State[b] = [quote |-> "none", escaped |-> FALSE] /\ At(b) \notin Hws
      /\ Before(b) = Before(n)
      /\ \A k \in n..(b - 1) : Fine(k) /\ Behind(k, b) /\ Cut(k) /\ ~Is(k, Marks) /\ ~Is(k, {"|"})
  BY <1>0, <1>2, BlankRun
<1>5. b \in Nat /\ n =< b /\ b \in 1..(Len(line) + 1)
  BY <1>2, <1>4
<1>6. LexicalAt(b)'
  <2>1. phase' = "group" <=> Before(b) = "["
    BY <1>1, <1>2, <1>4
  <2>2. open' \in Quotes \cup {"none"} /\ State[b] = [quote |-> open', escaped |-> FALSE]
    BY <1>1, <1>4
  <2>3. phase' # "stage" /\ \A k \in n..(b - 1) : Fine(k) /\ Behind(k, b)
    BY <1>1, <1>4
  <2>4. phase' # "stage" /\ piece' = {} => At(b) \notin Hws
    BY <1>4
  <2>5. n =< b /\ LexicalAt(n) /\ line' = line /\ n \in Nat /\ b \in Nat /\ line \in Seq(Letters)
    BY <1>1, <1>2, <1>5
  <2> QED BY ONLY <2>1, <2>2, <2>3, <2>4, <2>5, LexMoves
<1>7. \A k : NoMore(k) => NoMore(k)'
  BY <1>1, NoMoreFrozen
<1>8. CASE ~Cut(n)
  <2>1. b = n
    <3>1. n < b => n \in n..(b - 1)
      BY <1>2, <1>5
    <3> QED BY <1>2, <1>4, <1>5, <1>8, <3>1
  <2>2. ~Cut(n)'
    BY <1>1, <1>8, Frozen
  <2>3. Doomed(b)'
    BY <1>1, <1>7, <2>1, <2>2 DEF Doomed
  <2>4. b \in 1..(Len(line') + 1)
    BY <1>1, <1>5
  <2> QED BY <1>1, <1>6, <2>3, <2>4 DEF Following
<1>9. CASE Cut(n)
  <2>1. PICK f \in 1..n : PieceAt(f, n) /\ ReadTo(f)
    BY <1>3 DEF WordsAt
  <2>2. f < n /\ Cut(f - 1) /\ (\A k \in f..(n - 1) : ~Cut(k)) /\ ParsedWord(Begun) = TextFrom(f, n)
    BY <1>1, <2>1 DEF PieceAt
  <2>3. f \in 1..Len(line) /\ n \in (f + 1)..(Len(line) + 1)
    BY <1>2, <2>2
  <2>4. NoSource(n)
    BY <1>3 DEF SegmentAt
  <2>5. PICK w : w = <<f, n - 1>>
    OBVIOUS
  <2>6. w \in Own /\ Held(n, {"|"}) /\ Held(n, Marks)
    BY <1>2, <1>9, <2>2, <2>3, <2>4, <2>5, PieceEnds
  <2>7. Held(b, {"|"}) /\ Held(b, Marks) /\ NoSource(b)
    BY <1>2, <1>4, <1>5, <2>4, <2>6, HeldMoves, NoSourceMoves
  <2>8. SegmentAt(b)'
    <3>1. (Held(b, {"|"})' <=> Held(b, {"|"})) /\ (Held(b, Marks)' <=> Held(b, Marks)) /\ (NoSource(b)' <=> NoSource(b))
      BY <1>1, Frozen
    <3>2. phase' = "group" => pieces' # <<>>
      <4>1. SUFFICES ASSUME phase = "group" PROVE pieces' # <<>>
        BY <1>1
      <4>2. pieces' = Append(pieces, Begun) /\ pieces \in Seq(PieceOf) /\ Begun \in PieceOf
        BY <4>1, BegunIs DEF EndPiece, Parsed
      <4> QED BY <4>2
    <3>3. phase' = "command" => tokens' # <<>>
      <4>1. SUFFICES ASSUME phase = "command" PROVE tokens' # <<>>
        BY <1>1
      <4>2. tokens' = Append(tokens, [group |-> FALSE, pieces |-> <<Begun>>]) /\ tokens \in Seq(TokenOf)
        BY <4>1 DEF EndPiece, Parsed
      <4>3. [group |-> FALSE, pieces |-> <<Begun>>] \in TokenOf
        BY BegunIs DEF TokenOf
      <4> QED BY <4>2, <4>3
    <3> QED BY <1>1, <2>7, <3>1, <3>2, <3>3 DEF SegmentAt
  <2>9. PieceAt(b, b)'
    <3>1. Cut(b - 1) \/ (phase' # "stage" /\ NoMore(b)')
      <4>1. CASE n < b
        <5>1. b - 1 \in n..(b - 1)
          BY <1>2, <1>5, <4>1
        <5> QED BY <1>4, <5>1
      <4>2. CASE n = b
        BY <1>1, <1>7, <4>2
      <4> QED BY <1>2, <1>5, <4>1, <4>2
    <3> QED BY <1>1, <1>2, <1>5, <3>1, NonePiece
  <2>10. ReadTo(b)'
    <3>1. PICK ws : Listed(ws, f) /\ SoFar = Authors(ws)
      BY <2>1 DEF ReadTo
    <3>2. PICK vs : vs = Append(ws, w)
      OBVIOUS
    <3>3. Listed(vs, n)
      BY <1>2, <2>3, <2>5, <2>6, <3>1, <3>2, ListedNext
    <3>4. Listed(vs, b)
      BY <1>2, <1>4, <1>5, <3>3, ListedSkips
    <3>5. SoFar' = SoFar \o <<ParsedWord(Begun)>> /\ ParsedWord(Begun) \in Text /\ SoFar \in Seq(Text)
      BY SoFarNext, SoFarIs
    <3>6. AuthorsWord(w) = ParsedWord(Begun)
      BY <1>2, <2>2, <2>3, <2>5, StretchText
    <3>7. ws \in Seq(Own)
      BY <3>1 DEF Listed
    <3>8. SoFar' = Authors(vs)
      BY <1>2, <2>6, <3>1, <3>2, <3>5, <3>6, <3>7, AuthorsNext
    <3>9. Listed(vs, b)' /\ Authors(vs)' = Authors(vs)
      BY <1>1, <3>4, ListedFrozen
    <3> QED BY <3>8, <3>9 DEF ReadTo
  <2>11. WordsAt(b)'
    <3>1. b \in 1..b
      BY <1>5
    <3> QED BY <2>9, <2>10, <3>1 DEF WordsAt
  <2>12. b \in 1..(Len(line') + 1)
    BY <1>1, <1>5
  <2> QED BY <1>1, <1>6, <2>8, <2>11, <2>12 DEF Following
<1> QED BY <1>8, <1>9

\* A bracket, or the pipe, outside of quotes, and what it does to the mode.
LEMMA BracketAt ==
  ASSUME line \in Seq(Letters), NEW n \in 1..Len(line), State[n] = [quote |-> "none", escaped |-> FALSE],
         \A j \in 1..(n - 1) : Behind(j, n), line[n] \in Marks
  PROVE  /\ n + 1 \in 1..(Len(line) + 1) /\ State[n + 1] = [quote |-> "none", escaped |-> FALSE]
         /\ Before(n + 1) = line[n] /\ Is(n, {line[n]}) /\ Cut(n) /\ Is(n, Marks) /\ n \in Bracket
         /\ Behind(n, n + 1) /\ \A j \in 1..((n + 1) - 1) : Behind(j, n + 1)
<1>1. Len(line) \in Nat /\ n \in Nat /\ n + 1 \in Nat /\ DOMAIN line = 1..Len(line) /\ (n + 1) - 1 = n
      /\ n =< n + 1 /\ n \in 1..(Len(line) + 1) /\ n + 1 \in n..(Len(line) + 1) /\ n..n = {n}
      /\ n + 1 \in 1..(Len(line) + 1)
  OBVIOUS
<1>2. \A c \in Marks : c \notin Quotes \cup Sigil \cup {"$", Lbrace}
  BY BraceChars DEF Marks, Quotes, Quote, Sigil
<1>3. Out(n)
  BY DEF Out
<1>4. Is(n, {line[n]}) /\ Cut(n) /\ Is(n, Marks) /\ n \in Bracket
  BY <1>1, <1>3 DEF Is, Cut, Marks, Bracket
<1>5. Behind(n, n + 1)
  BY <1>2, <1>3 DEF Behind, Brace
<1>6. State[n + 1] = [quote |-> "none", escaped |-> FALSE]
  <2>1. \A k \in n..((n + 1) - 1) : line[k] \notin Quotes
    BY <1>1, <1>2
  <2>2. n + 1 \in n..(n + 1)
    BY <1>1
  <2> QED BY <1>1, <2>1, <2>2, OutStays
<1>7. Before(n + 1) = line[n]
  <2>1. \A m \in (n + 1)..((n + 1) - 1) : m \notin Bracket
    BY <1>1
  <2>2. n < n + 1
    BY <1>1
  <2> QED BY <1>1, <1>4, <2>1, <2>2, BeforeIs
<1>8. \A j \in 1..((n + 1) - 1) : Behind(j, n + 1)
  <2>1. \A k \in n..((n + 1) - 1) : Behind(k, n + 1)
    BY <1>1, <1>5
  <2> QED BY <1>1, <2>1, BehindOn
<1> QED BY <1>1, <1>4, <1>5, <1>6, <1>7, <1>8

\* A bracket and the blanks after it.
LEMMA BracketRun ==
  ASSUME line \in Seq(Letters), NEW n \in 1..Len(line), State[n] = [quote |-> "none", escaped |-> FALSE],
         \A j \in 1..(n - 1) : Behind(j, n), line[n] \in {"[", "]"}, Fine(n), NEW b, b = Past(n + 1, Hws)
  PROVE  /\ b \in (n + 1)..(Len(line) + 1) /\ State[b] = [quote |-> "none", escaped |-> FALSE] /\ At(b) \notin Hws
         /\ Before(b) = line[n] /\ Vacant(b, Marks) /\ Cut(b - 1)
         /\ \A k \in n..(b - 1) : Fine(k) /\ Behind(k, b) /\ Cut(k) /\ ~Is(k, {"|"})
<1>1. /\ n + 1 \in 1..(Len(line) + 1) /\ State[n + 1] = [quote |-> "none", escaped |-> FALSE]
      /\ Before(n + 1) = line[n] /\ Cut(n) /\ Is(n, Marks) /\ \A j \in 1..((n + 1) - 1) : Behind(j, n + 1)
  BY BracketAt DEF Marks
<1>2. /\ b \in (n + 1)..(Len(line) + 1) /\ State[b] = [quote |-> "none", escaped |-> FALSE] /\ At(b) \notin Hws
      /\ Before(b) = Before(n + 1)
      /\ \A k \in (n + 1)..(b - 1) : Fine(k) /\ Behind(k, b) /\ Cut(k) /\ ~Is(k, Marks) /\ ~Is(k, {"|"})
  BY <1>1, BlankRun
<1>3. Len(line) \in Nat /\ n \in Nat /\ b \in Nat /\ n + 1 =< b /\ n + 1 \in Nat /\ (n + 1) - 1 = n
  BY <1>2
<1>4. \A k \in n..(b - 1) : k = n \/ k \in (n + 1)..(b - 1)
  BY <1>3
<1>5. \A j \in 1..(b - 1) : Behind(j, b)
  BY <1>1, <1>2, <1>3, BehindOn
<1>6. ~Is(n, {"|"})
  BY DEF Is
<1>7. \A k \in n..(b - 1) : Fine(k) /\ Behind(k, b) /\ Cut(k) /\ ~Is(k, {"|"})
  <2>1. n \in 1..(b - 1)
    BY <1>3
  <2> QED BY <1>1, <1>2, <1>4, <1>5, <1>6, <2>1
<1>8. Vacant(b, Marks)
  <2>1. Vacant(n + 1, Marks)
    BY <1>1, <1>3, VacantAfter
  <2>2. \A j \in (n + 1)..(b - 1) : Cut(j)
    BY <1>2
  <2> QED BY <1>3, <2>1, <2>2, VacantMoves
<1>9. Cut(b - 1)
  <2>1. b - 1 \in n..(b - 1)
    BY <1>3
  <2> QED BY <1>7, <2>1
<1> QED BY <1>1, <1>2, <1>7, <1>8, <1>9

LEMMA AtWord ==
  ASSUME NEW n, piece = {}, WordsAt(n)
  PROVE  ReadTo(n)
  BY DEF WordsAt, PieceAt

\* The next word begins at a place, and what is read stays read.
LEMMA WordsGoOn ==
  ASSUME line \in Seq(Letters), line' = line, NEW n \in Nat, NEW b \in 1..(Len(line) + 1), n =< b, ReadTo(n),
         \A k \in n..(b - 1) : Cut(k), Cut(b - 1), piece' = {}, SoFar' = SoFar
  PROVE  WordsAt(b)'
<1>1. PieceAt(b, b)'
  BY NonePiece
<1>2. PICK ws : Listed(ws, n) /\ SoFar = Authors(ws)
  BY DEF ReadTo
<1>3. b \in Nat
  OBVIOUS
<1>4. Listed(ws, b)
  BY <1>2, <1>3, ListedSkips
<1>5. Listed(ws, b)' /\ Authors(ws)' = Authors(ws)
  BY <1>4, ListedFrozen
<1>6. ReadTo(b)'
  BY <1>2, <1>5 DEF ReadTo
<1>7. b \in 1..b
  BY <1>3
<1> QED BY <1>1, <1>6, <1>7 DEF WordsAt

LEMMA OpenGroupFollows ==
  ASSUME Parsed, Following, OpenGroup
  PROVE  Following'
<1>0. PICK n, b : n = at /\ b = Past(at + 1, Hws)
  OBVIOUS
<1>1. /\ phase = "command" /\ piece = {} /\ At(n) = "[" /\ phase' = "group" /\ at' = b /\ pieces' = <<>>
      /\ line' = line /\ open' = open /\ piece' = piece /\ tokens' = tokens /\ stages' = stages
  BY <1>0 DEF OpenGroup
<1>2. open = "none"
  BY <1>1 DEF Parsed
<1>3. /\ line \in Seq(Letters) /\ Len(line) \in Nat /\ n \in Nat /\ n \in 1..(Len(line) + 1) /\ LexicalAt(n)
      /\ State[n] = [quote |-> "none", escaped |-> FALSE] /\ \A j \in 1..(n - 1) : Behind(j, n)
      /\ Before(n) # "[" /\ DOMAIN line = 1..Len(line)
      /\ n \in 1..Len(line) /\ line[n] = "["
  BY <1>0, <1>1, <1>2, Here
<1>4. Fine(n)
  <2>1. Out(n)
    BY <1>3 DEF Out
  <2>2. Lbrace # "[" /\ Rbrace # "["
    BY BraceChars
  <2> QED BY <1>3, <2>1, <2>2 DEF Fine, Is, InGroup, Brace
<1>5. /\ b \in (n + 1)..(Len(line) + 1) /\ State[b] = [quote |-> "none", escaped |-> FALSE] /\ At(b) \notin Hws
      /\ Before(b) = "[" /\ Vacant(b, Marks) /\ Cut(b - 1)
      /\ \A k \in n..(b - 1) : Fine(k) /\ Behind(k, b) /\ Cut(k) /\ ~Is(k, {"|"})
  BY <1>0, <1>3, <1>4, BracketRun
<1>6. b \in Nat /\ n =< b /\ b \in 1..(Len(line) + 1) /\ n \in n..(b - 1)
  BY <1>3, <1>5
<1>7. SegmentAt(n) /\ WordsAt(n)
  BY <1>0, <1>5, <1>6 DEF Following, Doomed
<1>8. LexicalAt(b)'
  <2>1. /\ open' \in Quotes \cup {"none"} /\ State[b] = [quote |-> open', escaped |-> FALSE]
        /\ (phase' = "group" <=> Before(b) = "[") /\ phase' # "stage"
        /\ \A k \in n..(b - 1) : Fine(k) /\ Behind(k, b)
    BY <1>1, <1>2, <1>5
  <2> QED BY <1>1, <1>3, <1>5, <1>6, <2>1, LexMoves
<1>9. SegmentAt(b)'
  <2>1. tokens # <<>> => Held(b, {"|"})
    BY <1>1, <1>3, <1>5, <1>6, <1>7, HeldMoves DEF SegmentAt
  <2>2. NoSource(b)
    BY <1>1, <1>3, <1>5, <1>6, <1>7, NoSourceMoves DEF SegmentAt
  <2>3. /\ Held(b, {"|"})' <=> Held(b, {"|"})
        /\ NoSource(b)' <=> NoSource(b)
        /\ Vacant(b, Marks)' <=> Vacant(b, Marks)
    BY <1>1, Frozen
  <2> QED BY <1>1, <1>5, <2>1, <2>2, <2>3 DEF SegmentAt
<1>10. WordsAt(b)'
  <2>1. ReadTo(n)
    BY <1>1, <1>7, AtWord
  <2>2. SoFar' = SoFar
    <3>1. Parsed'
      BY ParseKeeps DEF Parse
    <3>2. SoFar' = (StagesText(stages) \o TokensText(tokens)) \o PiecesText(<<>>)
      BY <1>1 DEF SoFar
    <3>3. SoFar = (StagesText(stages) \o TokensText(tokens)) \o <<>>
      BY <1>1 DEF SoFar
    <3> QED BY <3>2, <3>3, NoneText
  <2> QED BY <1>1, <1>3, <1>5, <1>6, <2>1, <2>2, WordsGoOn
<1>11. b \in 1..(Len(line') + 1)
  BY <1>1, <1>6
<1> QED BY <1>1, <1>8, <1>9, <1>10, <1>11 DEF Following

LEMMA CloseGroupFollows ==
  ASSUME Parsed, Following, CloseGroup
  PROVE  Following'
<1>0. PICK n, b : n = at /\ b = Past(at + 1, Hws)
  OBVIOUS
<1> DEFINE token == [group |-> TRUE, pieces |-> pieces]
<1>1. /\ phase = "group" /\ piece = {} /\ pieces # <<>> /\ At(n) = "]" /\ phase' = "command" /\ at' = b
      /\ tokens' = Append(tokens, token)
      /\ line' = line /\ open' = open /\ piece' = piece /\ pieces' = pieces /\ stages' = stages
  BY <1>0 DEF CloseGroup
<1>2. open = "none" /\ pieces \in Seq(PieceOf) /\ tokens \in Seq(TokenOf) /\ token \in TokenOf /\ token.pieces = pieces
  BY <1>1 DEF Parsed, TokenOf
<1> HIDE DEF token
<1>3. /\ line \in Seq(Letters) /\ Len(line) \in Nat /\ n \in Nat /\ n \in 1..(Len(line) + 1) /\ LexicalAt(n)
      /\ State[n] = [quote |-> "none", escaped |-> FALSE] /\ \A j \in 1..(n - 1) : Behind(j, n)
      /\ Before(n) = "[" /\ DOMAIN line = 1..Len(line)
      /\ n \in 1..Len(line) /\ line[n] = "]"
  BY <1>0, <1>1, <1>2, Here
<1>4. Cut(n)
  BY <1>3, BracketAt DEF Marks
<1>5. SegmentAt(n) /\ WordsAt(n)
  BY <1>0, <1>4 DEF Following, Doomed
<1>6. Held(n, Marks)
  BY <1>1, <1>5 DEF SegmentAt
<1>7. Fine(n)
  <2>1. Out(n)
    BY <1>3 DEF Out
  <2>2. Lbrace # "]" /\ Rbrace # "]"
    BY BraceChars
  <2> QED BY <1>3, <1>6, <2>1, <2>2 DEF Fine, Is, InGroup, Brace, Sigil
<1>8. /\ b \in (n + 1)..(Len(line) + 1) /\ State[b] = [quote |-> "none", escaped |-> FALSE] /\ At(b) \notin Hws
      /\ Before(b) = "]" /\ Cut(b - 1)
      /\ \A k \in n..(b - 1) : Fine(k) /\ Behind(k, b) /\ Cut(k) /\ ~Is(k, {"|"})
  BY <1>0, <1>3, <1>7, BracketRun
<1>9. b \in Nat /\ n =< b /\ b \in 1..(Len(line) + 1)
  BY <1>3, <1>8
<1>10. LexicalAt(b)'
  <2>1. /\ open' \in Quotes \cup {"none"} /\ State[b] = [quote |-> open', escaped |-> FALSE]
        /\ (phase' = "group" <=> Before(b) = "[") /\ phase' # "stage"
        /\ \A k \in n..(b - 1) : Fine(k) /\ Behind(k, b)
    BY <1>1, <1>2, <1>8
  <2> QED BY <1>1, <1>3, <1>8, <1>9, <2>1, LexMoves
<1>11. SegmentAt(b)'
  <2>1. Held(b, {"|"})
    <3>1. Held(n, {"|"})
      BY <1>6, HeldLess
    <3> QED BY <1>3, <1>8, <1>9, <3>1, HeldMoves
  <2>2. NoSource(b)
    BY <1>1, <1>3, <1>5, <1>8, <1>9, NoSourceMoves DEF SegmentAt
  <2>3. (Held(b, {"|"})' <=> Held(b, {"|"})) /\ (NoSource(b)' <=> NoSource(b))
    BY <1>1, Frozen
  <2>4. tokens' # <<>>
    BY <1>1, <1>2
  <2> QED BY <1>1, <2>1, <2>2, <2>3, <2>4 DEF SegmentAt
<1>12. WordsAt(b)'
  <2>1. ReadTo(n)
    BY <1>1, <1>5, AtWord
  <2>2. SoFar' = SoFar
    <3>1. /\ StagesText(stages) \in Seq(Text) /\ TokensText(tokens) \in Seq(Text) /\ PiecesText(pieces) \in Seq(Text)
          /\ SoFar = (StagesText(stages) \o TokensText(tokens)) \o PiecesText(pieces)
      BY <1>1, SoFarIs
    <3>2. TokensText(tokens') = TokensText(tokens) \o PiecesText(pieces)
      BY <1>1, <1>2, TokensAppend
    <3>3. SoFar' = (StagesText(stages) \o TokensText(tokens')) \o <<>>
      BY <1>1 DEF SoFar
    <3>4. \A s, t \in Seq(Text) : s \o t \in Seq(Text)
      OBVIOUS
    <3>5. \A s \in Seq(Text) : s \o <<>> = s
      OBVIOUS
    <3>6. TokensText(tokens') \in Seq(Text)
      BY ONLY <3>1, <3>2, <3>4
    <3>7. SoFar' = StagesText(stages) \o (TokensText(tokens) \o PiecesText(pieces))
      BY ONLY <3>1, <3>2, <3>3, <3>4, <3>5, <3>6
    <3>8. (StagesText(stages) \o TokensText(tokens)) \o PiecesText(pieces)
            = StagesText(stages) \o (TokensText(tokens) \o PiecesText(pieces))
      BY ONLY <3>1, ConcatAssociative
    <3> QED BY <3>1, <3>7, <3>8
  <2>3. \A k \in n..(b - 1) : Cut(k)
    BY <1>8
  <2> QED BY <1>1, <1>3, <1>8, <1>9, <2>1, <2>2, <2>3, WordsGoOn
<1>13. b \in 1..(Len(line') + 1)
  BY <1>1, <1>9
<1> QED BY <1>1, <1>10, <1>11, <1>12, <1>13 DEF Following

\* A stage ends: at the pipe the next begins, at the end the line is as written.
LEMMA StageEnds ==
  ASSUME Parsed, line \in Seq(Letters), NEW a \in 1..(Len(line) + 1), NEW n \in a..(Len(line) + 1), LexicalAt(a),
         State[n] = [quote |-> "none", escaped |-> FALSE], Before(n) # "[", At(n) \in {"|", "end"},
         Held(n, {"|"}), \A k \in a..(n - 1) : Fine(k) /\ Behind(k, n),
         NEW ws, Listed(ws, n), NEW stage \in StageOf, EndStage(stage, n),
         StagesText(Append(stages, stage)) = Authors(ws),
         line' = line, open' = "none", piece' = {}
  PROVE  Followed'
<1>0. Len(line) \in Nat /\ DOMAIN line = 1..Len(line) /\ a \in Nat
  OBVIOUS
<1>1. n \in Nat /\ a =< n /\ n \in 1..(Len(line) + 1) /\ n + 1 \in Nat /\ (n + 1) - 1 = n
  BY <1>0
<1>2. /\ stages' = Append(stages, stage) /\ at' = n + 1
      /\ phase' = IF At(n) = "|" THEN "stage" ELSE "accepted"
  BY DEF EndStage
<1>3. StagesText(stages') = Authors(ws) /\ StagesText(stages') \in Seq(Text)
  <2>1. stages' \in Seq(StageOf)
    BY <1>2 DEF Parsed
  <2> QED BY <1>2, <2>1, StagesTextIs
<1>4. CASE At(n) = "|"
  <2>1. n \in 1..Len(line) /\ line[n] = "|"
    BY <1>0, <1>4 DEF At
  <2>2. \A j \in 1..(n - 1) : Behind(j, n)
    <3>1. \A j \in 1..(a - 1) : Behind(j, a)
      BY DEF LexicalAt
    <3> QED BY <1>0, <1>1, <3>1, BehindOn
  <2>3. /\ n + 1 \in 1..(Len(line) + 1) /\ State[n + 1] = [quote |-> "none", escaped |-> FALSE]
        /\ Before(n + 1) = "|" /\ Is(n, {"|"}) /\ Cut(n) /\ \A j \in 1..n : Behind(j, n + 1)
    BY <1>1, <2>1, <2>2, BracketAt DEF Marks
  <2>4. Fine(n)
    <3>1. Out(n)
      BY DEF Out
    <3>2. Lbrace # "|" /\ Rbrace # "|"
      BY BraceChars
    <3> QED BY <2>1, <3>1, <3>2 DEF Fine, Is, InGroup, Brace
  <2>5. \A k \in a..((n + 1) - 1) : Fine(k) /\ Behind(k, n + 1)
    <3>1. ASSUME NEW k \in a..n PROVE Fine(k) /\ Behind(k, n + 1)
      <4>1. k \in 1..n /\ (k \in a..(n - 1) \/ k = n)
        BY <1>0, <1>1
      <4> QED BY <2>3, <2>4, <4>1
    <3> QED BY <1>1, <3>1
  <2>6. LexicalAt(n + 1)'
    <3>1. /\ open' \in Quotes \cup {"none"} /\ State[n + 1] = [quote |-> open', escaped |-> FALSE]
          /\ (phase' = "group" <=> Before(n + 1) = "[")
          /\ (phase' = "stage" => piece' = {} /\ open' = "none" /\ Is((n + 1) - 1, {"|"}))
          /\ (phase' # "stage" /\ piece' = {} => At(n + 1) \notin Hws)
      BY <1>1, <1>2, <1>4, <2>3
    <3>2. a =< n + 1
      BY <1>0, <1>1
    <3> QED BY <1>0, <1>1, <2>5, <3>1, <3>2, LexMoves
  <2>7. SegmentAt(n + 1)'
    BY <1>2, <1>4 DEF SegmentAt
  <2>8. WordsAt(n + 1)'
    <3>1. PieceAt(n + 1, n + 1)'
      BY <1>1, <2>3, NonePiece
    <3>2. Listed(ws, n + 1)
      <4>1. \A k \in n..((n + 1) - 1) : k = n
        BY <1>1
      <4>2. n =< n + 1 /\ \A k \in n..((n + 1) - 1) : Cut(k)
        BY <1>1, <2>3, <4>1
      <4> QED BY <1>1, <4>2, ListedSkips
    <3>3. SoFar' = Authors(ws)
      <4>1. SoFar' = (StagesText(stages') \o <<>>) \o <<>>
        BY <1>2, <1>4 DEF SoFar
      <4>2. \A s \in Seq(Text) : s \o <<>> = s
        OBVIOUS
      <4> QED BY <1>3, <4>1, <4>2
    <3>4. Listed(ws, n + 1)' /\ Authors(ws)' = Authors(ws)
      BY <3>2, ListedFrozen
    <3>5. ReadTo(n + 1)'
      BY <3>3, <3>4 DEF ReadTo
    <3>6. n + 1 \in 1..(n + 1)
      BY <1>1
    <3> QED BY <3>1, <3>5, <3>6 DEF WordsAt
  <2>9. Following'
    <3>1. n + 1 \in 1..(Len(line') + 1) /\ at' = n + 1
      BY <1>2, <2>3
    <3> QED BY <2>6, <2>7, <2>8, <3>1 DEF Following
  <2> QED BY <1>2, <1>4, <2>9 DEF Followed, LineAsWritten
<1>5. CASE At(n) # "|"
  <2>1. n = Len(line) + 1
    <3>1. SUFFICES ASSUME n \in 1..Len(line) PROVE FALSE
      BY <1>0, <1>1
    <3>2. line[n] = "end" /\ line[n] \in Letters
      BY <1>0, <1>5, <3>1 DEF At
    <3> QED BY <3>2, NoEnd
  <2>2. \A k \in 1..Len(line) : Fine(k)
    <3>1. ASSUME NEW k \in 1..Len(line) PROVE Fine(k)
      <4>1. k \in 1..(a - 1) \/ k \in a..(n - 1)
        BY <1>0, <1>1, <2>1
      <4> QED BY <4>1 DEF LexicalAt
    <3> QED BY <3>1
  <2>3. WellFormed
    BY <2>1, <2>2, Accepting
  <2>4. AuthorsWords = Authors(ws)
    BY <2>1, ListedAll
  <2>5. ParsedWords' = StagesText(stages')
    BY DEF ParsedWords, StagesText, TokensText, PiecesText
  <2>6. AuthorsWords' = AuthorsWords /\ (WellFormed' <=> WellFormed)
    BY Frozen
  <2>7. phase' = "accepted"
    BY <1>2, <1>5
  <2> QED BY <1>3, <2>3, <2>4, <2>5, <2>6, <2>7 DEF Followed, LineAsWritten
<1> QED BY <1>4, <1>5

LEMMA CommandEndsFollows ==
  ASSUME Parsed, Following, CommandEnds
  PROVE  Followed'
<1>0. PICK n : n = at
  OBVIOUS
<1> DEFINE stage == [source |-> FALSE, tokens |-> tokens]
<1>1. /\ phase = "command" /\ piece = {} /\ tokens # <<>> /\ At(n) \in {"|", "end"} /\ EndStage(stage, n)
      /\ line' = line /\ open' = open /\ piece' = piece
  BY <1>0 DEF CommandEnds
<1>2. open = "none" /\ stage \in StageOf /\ stage.tokens = tokens /\ stages \in Seq(StageOf)
  BY <1>1 DEF Parsed, StageOf
<1> HIDE DEF stage
<1>3. /\ line \in Seq(Letters) /\ Len(line) \in Nat /\ n \in Nat /\ n \in 1..(Len(line) + 1) /\ LexicalAt(n)
      /\ State[n] = [quote |-> "none", escaped |-> FALSE]
      /\ Before(n) # "[" /\ DOMAIN line = 1..Len(line)
      /\ (At(n) = "|" => n \in 1..Len(line) /\ line[n] = "|") /\ (At(n) = "end" => n = Len(line) + 1)
  BY <1>0, <1>1, <1>2, Here
<1>4. Cut(n)
  BY <1>1, <1>3 DEF Cut, Is, Out
<1>5. SegmentAt(n) /\ WordsAt(n)
  BY <1>0, <1>4 DEF Following, Doomed
<1>6. Held(n, {"|"})
  BY <1>1, <1>5 DEF SegmentAt
<1>7. PICK ws : Listed(ws, n) /\ SoFar = Authors(ws)
  BY <1>1, <1>5, AtWord DEF ReadTo
<1>8. StagesText(Append(stages, stage)) = Authors(ws)
  <2>1. StagesText(Append(stages, stage)) = StagesText(stages) \o TokensText(tokens)
    BY <1>2, StagesAppend
  <2> QED BY <1>1, <1>7, <2>1, SoFarIs
<1>9. n \in n..(Len(line) + 1) /\ \A k \in n..(n - 1) : Fine(k) /\ Behind(k, n)
  BY <1>3
<1> QED BY <1>1, <1>2, <1>3, <1>6, <1>7, <1>8, <1>9, StageEnds

\* A stage is read from its first character, and nothing is being read then.
LEMMA StageHere ==
  ASSUME Parsed, Following, phase = "stage"
  PROVE  /\ piece = {} /\ open = "none" /\ (at = 1 \/ Is(at - 1, {"|"})) /\ Before(at) # "["
         /\ ReadTo(at) /\ SoFar = StagesText(stages)
<1>1. piece = {} /\ open = "none" /\ (at = 1 \/ Is(at - 1, {"|"})) /\ Before(at) # "["
  BY Here DEF LexicalAt
<1>2. WordsAt(at)
  BY DEF Following, Doomed
<1> QED BY <1>1, <1>2, AtWord, SoFarIs

LEMMA SourceFollows ==
  ASSUME Parsed, Following, Source
  PROVE  Followed'
<1> DEFINE stage == [source |-> TRUE, tokens |-> <<>>]
<1>1. phase = "stage" /\ line' = line /\ open' = open /\ piece' = piece
  BY DEF Source
<1>2. PICK n : n \in SourceEnd /\ EndStage(stage, n)
  BY DEF Source
<1>3. PICK a, b : a = at /\ b = Past(at, Hws)
  OBVIOUS
<1>4. PICK e \in Ref(b) : n = Past(e, Hws) /\ At(n) \in {"|", "end"}
  BY <1>2, <1>3 DEF SourceEnd
<1>5. stage \in StageOf /\ stage.tokens = <<>> /\ stages \in Seq(StageOf)
  BY DEF Parsed, StageOf
<1> HIDE DEF stage
<1>6. /\ piece = {} /\ open = "none" /\ (a = 1 \/ Is(a - 1, {"|"})) /\ Before(a) # "["
      /\ ReadTo(a) /\ SoFar = StagesText(stages)
  BY <1>1, <1>3, StageHere
<1>7. /\ line \in Seq(Letters) /\ Len(line) \in Nat /\ a \in Nat /\ a \in 1..(Len(line) + 1) /\ LexicalAt(a)
      /\ State[a] = [quote |-> "none", escaped |-> FALSE] /\ \A j \in 1..(a - 1) : Behind(j, a)
  BY <1>3, <1>6, Here
<1>8. /\ n \in a..(Len(line) + 1) /\ State[n] = [quote |-> "none", escaped |-> FALSE] /\ Before(n) = Before(a)
      /\ \A k \in a..(n - 1) : Fine(k) /\ Behind(k, n)
      /\ Held(n, {"|"})
      /\ \A w \in Own : w[2] \notin a..(n - 1)
  BY <1>3, <1>4, <1>6, <1>7, SourceRun
<1>9. PICK ws : Listed(ws, a) /\ SoFar = Authors(ws)
  BY <1>6 DEF ReadTo
<1>10. Listed(ws, n)
  <2>1. n \in Nat /\ a =< n
    BY <1>7, <1>8
  <2> QED BY <1>7, <1>8, <1>9, <2>1, ListedMoves
<1>11. StagesText(Append(stages, stage)) = Authors(ws)
  <2>1. StagesText(Append(stages, stage)) = StagesText(stages) \o <<>>
    BY <1>5, StagesAppend, NoneText
  <2>2. StagesText(stages) \in Seq(Text)
    BY SoFarIs
  <2>3. \A s \in Seq(Text) : s \o <<>> = s
    OBVIOUS
  <2> QED BY <1>6, <1>9, <2>1, <2>2, <2>3
<1> QED BY <1>1, <1>2, <1>4, <1>5, <1>6, <1>7, <1>8, <1>10, <1>11, StageEnds

LEMMA CommandFollows ==
  ASSUME Parsed, Following, Command
  PROVE  Following'
<1>1. PICK a, b : a = at /\ b = Past(at, Hws)
  OBVIOUS
<1>2. /\ phase = "stage" /\ SourceEnd = {} /\ phase' = "command" /\ at' = b /\ tokens' = <<>>
      /\ line' = line /\ open' = open /\ piece' = piece /\ pieces' = pieces /\ stages' = stages
  BY <1>1 DEF Command
<1>3. /\ piece = {} /\ open = "none" /\ (a = 1 \/ Is(a - 1, {"|"})) /\ Before(a) # "["
      /\ ReadTo(a) /\ SoFar = StagesText(stages)
  BY <1>1, <1>2, StageHere
<1>4. /\ line \in Seq(Letters) /\ Len(line) \in Nat /\ a \in Nat /\ a \in 1..(Len(line) + 1) /\ LexicalAt(a)
      /\ State[a] = [quote |-> "none", escaped |-> FALSE] /\ \A j \in 1..(a - 1) : Behind(j, a)
      /\ DOMAIN line = 1..Len(line)
  BY <1>1, <1>3, Here
<1>5. /\ b \in a..(Len(line) + 1) /\ State[b] = [quote |-> "none", escaped |-> FALSE] /\ At(b) \notin Hws
      /\ Before(b) = Before(a)
      /\ \A k \in a..(b - 1) : Fine(k) /\ Behind(k, b) /\ Cut(k) /\ ~Is(k, Marks) /\ ~Is(k, {"|"})
  BY <1>1, <1>4, BlankRun
<1>6. b \in Nat /\ a =< b /\ b \in 1..(Len(line) + 1)
  BY <1>4, <1>5
<1>7. LexicalAt(b)'
  <2>1. /\ open' \in Quotes \cup {"none"} /\ State[b] = [quote |-> open', escaped |-> FALSE]
        /\ (phase' = "group" <=> Before(b) = "[") /\ phase' # "stage"
        /\ \A k \in a..(b - 1) : Fine(k) /\ Behind(k, b)
    BY <1>2, <1>3, <1>5
  <2> QED BY <1>2, <1>4, <1>5, <1>6, <2>1, LexMoves
<1>8. SegmentAt(b)'
  <2>1. Vacant(b, {"|"})
    <3>1. Vacant(a, {"|"})
      BY <1>3, <1>4, VacantAfter
    <3> QED BY <1>4, <1>5, <1>6, <3>1, VacantMoves
  <2>2. NoSource(b)
    <3>1. \A n \in {Past(m, Hws) : m \in Ref(b)} : At(n) \notin {"|", "end"}
      BY <1>1, <1>2 DEF SourceEnd
    <3> QED BY <1>1, <1>3, <1>4, <3>1, CommandHere
  <2>3. (Vacant(b, {"|"})' <=> Vacant(b, {"|"})) /\ (NoSource(b)' <=> NoSource(b))
    BY <1>2, Frozen
  <2> QED BY <1>2, <2>1, <2>2, <2>3 DEF SegmentAt
<1>9. WordsAt(b)'
  <2>1. Cut(b - 1)
    <3>1. CASE a < b
      <4>1. b - 1 \in a..(b - 1)
        BY <1>4, <1>6, <3>1
      <4> QED BY <1>5, <4>1
    <3>2. CASE a = b /\ a = 1
      BY <1>4, <3>2 DEF Cut
    <3>3. CASE a = b /\ Is(a - 1, {"|"})
      BY <3>3 DEF Cut, Is
    <3> QED BY <1>3, <1>4, <1>6, <3>1, <3>2, <3>3
  <2>2. SoFar' = SoFar
    <3>1. SoFar' = (StagesText(stages) \o TokensText(<<>>)) \o <<>>
      BY <1>2 DEF SoFar
    <3>2. StagesText(stages) \in Seq(Text)
      BY SoFarIs
    <3>3. \A s \in Seq(Text) : (s \o <<>>) \o <<>> = s
      OBVIOUS
    <3> QED BY <1>3, <3>1, <3>2, <3>3, NoneText
  <2>3. \A k \in a..(b - 1) : Cut(k)
    BY <1>5
  <2> QED BY <1>2, <1>3, <1>4, <1>6, <2>1, <2>2, <2>3, WordsGoOn
<1>10. b \in 1..(Len(line') + 1)
  BY <1>2, <1>6
<1> QED BY <1>2, <1>7, <1>8, <1>9, <1>10 DEF Following

----------------------------------------------------------------------------
(* An error, and every step of the parser. *)

\* What is no bare character is one of the special ones, or the end.
LEMMA NotBare ==
  ASSUME line \in Seq(Letters), NEW n \in 1..(Len(line) + 1), At(n) \notin Bare
  PROVE  At(n) \in (IF phase = "group" THEN PieceSpecial ELSE Special)
<1>1. CASE n \in 1..Len(line)
  <2>1. At(n) = line[n] /\ n \in DOMAIN line
    BY <1>1 DEF At
  <2>2. At(n) \in Chars
    BY <2>1 DEF Chars, ToSet
  <2> QED BY <2>2 DEF Bare
<1>2. CASE n \notin 1..Len(line)
  <2>1. At(n) = "end"
    BY <1>2 DEF At
  <2> QED BY <2>1 DEF Special, PieceSpecial
<1> QED BY <1>1, <1>2

LEMMA RejectFollows ==
  ASSUME Parsed, Following, Reject
  PROVE  Followed'
<1>0. PICK n : n = at
  OBVIOUS
<1>1. line' = line /\ phase' = "rejected"
  BY DEF Reject
<1>2. /\ line \in Seq(Letters) /\ Len(line) \in Nat /\ n \in Nat /\ n \in 1..(Len(line) + 1) /\ LexicalAt(n)
      /\ State[n] = [quote |-> open, escaped |-> FALSE] /\ open \in Quotes \cup {"none"}
      /\ (phase = "group" <=> Before(n) = "[") /\ DOMAIN line = 1..Len(line)
      /\ (\A c : c # "end" /\ At(n) = c => n \in 1..Len(line) /\ line[n] = c) /\ (At(n) = "end" => n = Len(line) + 1)
  BY <1>0, Here
<1>3. SUFFICES ASSUME WellFormed PROVE FALSE
  <2>1. ~WellFormed => Followed'
    <3>1. WellFormed' <=> WellFormed
      BY <1>1, Frozen
    <3> QED BY <1>1, <3>1 DEF Followed, LineAsWritten
  <2> QED BY <2>1
<1>4. /\ State[Len(line) + 1].quote = "none" /\ Before(Len(line) + 1) # "[" /\ Held(Len(line) + 1, {"|"})
      /\ \A k \in 1..Len(line) : Fine(k)
  BY <1>2, <1>3, WellFormedIsFine DEF EndFine
<1>5. Lbrace # "end" /\ Lbrace \notin Quotes \cup {Backslash} /\ Rbrace # "end" /\ Backslash # "end"
  BY BraceChars DEF Quotes, Quote, Backslash
<1>6. ASSUME open # "none", At(n) # open, Interp(n) = {},
             At(n) \in {Lbrace, "end"} \/ (At(n) = Backslash /\ At(n + 1) = "end")
      PROVE  FALSE
  <2>1. open \in Quotes /\ open \notin {Backslash, "none"}
    BY <1>2, <1>6 DEF Quotes, Quote, Backslash
  <2>2. CASE At(n) = "end"
    BY <1>2, <1>4, <1>6, <2>2
  <2>3. CASE At(n) = Lbrace
    <3>1. n \in 1..Len(line) /\ line[n] = Lbrace
      BY <1>2, <1>5, <2>3
    <3>2. Brace(n)
      BY <1>2, <1>6, <3>1 DEF Brace, Out
    <3>3. Braces(n) = {}
      BY <1>2, <1>6, <3>1, InterpFinds
    <3> QED BY <1>4, <3>1, <3>2, <3>3 DEF Fine
  <2>4. CASE At(n) = Backslash /\ At(n + 1) = "end"
    <3>1. n \in 1..Len(line) /\ line[n] = Backslash
      BY <1>2, <1>5, <2>4
    <3>2. n + 1 = Len(line) + 1
      <4>1. SUFFICES ASSUME n + 1 \in 1..Len(line) PROVE FALSE
        BY <1>2, <3>1
      <4>2. line[n + 1] = "end" /\ line[n + 1] \in Letters
        BY <1>2, <2>4, <4>1 DEF At
      <4> QED BY <4>2, NoEnd
    <3>3. State[n + 1] = Lexed([quote |-> open, escaped |-> FALSE], Backslash)
      BY <1>2, <3>1, StateNext
    <3>4. State[n + 1] = [quote |-> open, escaped |-> TRUE]
      BY <2>1, <3>3, LexedIs
    <3> QED BY <1>4, <1>6, <3>2, <3>4
  <2> QED BY <1>6, <2>2, <2>3, <2>4
\* Outside of quotes.
<1>7. SUFFICES ASSUME piece = {}, At(n) \notin Bare \cup Quotes,
               \/ phase = "command" /\ At(n) # "[" /\ ~(tokens # <<>> /\ At(n) \in {"|", "end"})
               \/ phase = "group" /\ Ref(n) = {} /\ ~(pieces # <<>> /\ At(n) = "]")
               PROVE FALSE
  BY <1>0, <1>6 DEF Reject
<1>8. open = "none"
  BY <1>7 DEF Parsed
<1>9. \A c : c # "end" /\ At(n) = c => n \in 1..Len(line) /\ line[n] = c /\ Out(n) /\ Is(n, {c}) /\ Fine(n)
  BY <1>2, <1>4, <1>8 DEF Is, Out
<1>10. At(n) \notin {"newline", Lbrace}
  BY <1>5, <1>9 DEF Fine, Is
<1>11. At(n) \notin Hws
  BY <1>2, <1>7 DEF LexicalAt
<1>12. At(n) \in {"|", "[", "]", "end"} \/ (phase = "group" /\ At(n) \in Sigil \cup {Rbrace, "$"})
  <2>1. At(n) \in (IF phase = "group" THEN PieceSpecial ELSE Special)
    BY <1>2, <1>7, NotBare
  <2>2. At(n) \notin Quotes /\ At(n) # "space"
    BY <1>7, <1>11 DEF Hws
  <2> QED BY <1>10, <2>1, <2>2 DEF Special, PieceSpecial
<1>13. CASE phase = "group" /\ At(n) \in Sigil \cup {Rbrace, "$"}
  <2>1. At(n) # "end"
    BY <1>5, <1>13 DEF Sigil
  <2>2. n \in 1..Len(line) /\ line[n] = At(n) /\ Out(n) /\ Fine(n)
    <3>1. PICK c : c = At(n)
      OBVIOUS
    <3>2. n \in 1..Len(line) /\ line[n] = c
      BY <1>2, <2>1, <3>1
    <3>3. Out(n) /\ Fine(n)
      BY <1>2, <1>4, <1>8, <3>2 DEF Out
    <3> QED BY <3>1, <3>2, <3>3
  <2>3. InGroup(n)
    BY <1>2, <1>13, <2>2 DEF InGroup
  <2>4. line[n] # Rbrace /\ (line[n] \in Sigil => At(n + 1) \in Name)
    BY <2>2, <2>3 DEF Fine, Is
  <2>5. (line[n] \in Sigil /\ At(n + 1) \notin Name) \/ line[n] \notin Sigil \cup {"$"}
    BY <1>2, <1>7, <1>13, <2>2, RefLongest
  <2> QED BY <1>13, <2>2, <2>4, <2>5
<1>14. CASE At(n) \in {"|", "[", "]", "end"}
  <2>1. Cut(n)
    <3>1. At(n) = "end" => n = Len(line) + 1
      BY <1>2
    <3> QED BY <1>2, <1>9, <1>14, <3>1 DEF Cut, Is
  <2>2. SegmentAt(n)
    BY <1>0, <2>1 DEF Following, Doomed
  <2>3. CASE At(n) = "["
    <3>1. Is(n, {"["}) /\ Fine(n)
      BY <1>9, <2>3
    <3>2. phase = "group" /\ Before(n) # "["
      BY <1>7, <2>3, <3>1 DEF Fine, Is
    <3> QED BY <1>2, <3>2
  <2>4. CASE At(n) = "]"
    <3>1. Before(n) = "[" /\ Held(n, Marks)
      BY <1>9, <2>4 DEF Fine
    <3>2. phase = "group" /\ pieces = <<>>
      BY <1>2, <1>7, <2>4, <3>1
    <3>3. Vacant(n, Marks)
      BY <1>7, <2>2, <3>2 DEF SegmentAt
    <3> QED BY <1>2, <3>1, <3>3, VacantNotHeld
  <2>5. CASE At(n) \in {"|", "end"}
    <3>1. Before(n) # "[" /\ Held(n, {"|"})
      <4>1. CASE At(n) = "|"
        BY <1>9, <4>1 DEF Fine, Is
      <4>2. CASE At(n) = "end"
        BY <1>2, <1>4, <4>2
      <4> QED BY <2>5, <4>1, <4>2
    <3>2. phase = "command" /\ tokens = <<>>
      BY <1>2, <1>7, <2>5, <3>1
    <3>3. Vacant(n, {"|"})
      BY <1>7, <2>2, <3>2 DEF SegmentAt
    <3> QED BY <1>2, <3>1, <3>3, VacantNotHeld
  <2> QED BY <1>14, <2>3, <2>4, <2>5
<1> QED BY <1>12, <1>13, <1>14

Phases == {"stage", "command", "group", "accepted", "rejected", "rendered", "failed"}

\* A step of the parser.
LEMMA ParseFollows ==
  ASSUME Parsed, Quiet, Followed, phase \in Phases, Parse
  PROVE  Followed'
<1>1. CASE phase \in {"stage", "command", "group"}
  <2>1. Following
    BY <1>1 DEF Followed
  <2>2. LexicalAt(at)
    BY <2>1 DEF Following
  <2>3. piece # {} \/ open # "none" => phase \in {"command", "group"}
    BY <1>1, <2>2 DEF LexicalAt
  <2>4. CASE Source
    BY <2>1, <2>4, SourceFollows
  <2>5. CASE CommandEnds
    BY <2>1, <2>5, CommandEndsFollows
  <2>6. CASE Reject
    BY <2>1, <2>6, RejectFollows
  <2>7. ASSUME Following', phase' \notin {"accepted", "rejected"} PROVE Followed'
    BY <2>7 DEF Followed, LineAsWritten
  <2>8. CASE Command
    BY <2>1, <2>7, <2>8, CommandFollows DEF Command
  <2>9. CASE OpenGroup
    BY <2>1, <2>7, <2>9, OpenGroupFollows DEF OpenGroup
  <2>10. CASE TakeBare
    <3>1. phase' = phase
      BY <2>10 DEF TakeBare, Add
    <3> QED BY <1>1, <2>1, <2>7, <2>10, <3>1, TakeBareFollows
  <2>11. CASE TakeRef
    <3>1. phase' = phase
      BY <2>11 DEF TakeRef, Add
    <3> QED BY <1>1, <2>1, <2>7, <2>11, <3>1, TakeRefFollows
  <2>12. CASE OpenQuote
    <3>1. phase' = phase
      BY <2>12 DEF OpenQuote
    <3> QED BY <1>1, <2>1, <2>7, <2>12, <3>1, OpenQuoteFollows
  <2>13. CASE TakeQuoted
    <3>1. phase' = phase /\ open # "none"
      BY <2>13 DEF TakeQuoted, Add
    <3> QED BY <1>1, <2>1, <2>3, <2>7, <2>13, <3>1, TakeQuotedFollows
  <2>14. CASE CloseQuote
    <3>1. phase' = phase /\ open # "none"
      BY <2>14 DEF CloseQuote
    <3> QED BY <1>1, <2>1, <2>3, <2>7, <2>14, <3>1, CloseQuoteFollows
  <2>15. CASE EndPiece
    <3>1. phase' = phase /\ piece # {}
      BY <2>15 DEF EndPiece
    <3> QED BY <1>1, <2>1, <2>3, <2>7, <2>15, <3>1, EndPieceFollows
  <2>16. CASE CloseGroup
    BY <2>1, <2>7, <2>16, CloseGroupFollows DEF CloseGroup
  <2> QED BY <2>4, <2>5, <2>6, <2>8, <2>9, <2>10, <2>11, <2>12, <2>13, <2>14, <2>15, <2>16 DEF Parse
<1>2. CASE phase = "rejected"
  <2>1. phase' = "rejected" /\ line' = line
    BY <1>2 DEF Parse, Source, Command, OpenGroup, TakeBare, TakeRef, OpenQuote, TakeQuoted, CloseQuote, EndPiece,
                CloseGroup, CommandEnds, Reject, Add
  <2>2. ~WellFormed
    BY <1>2 DEF Followed, LineAsWritten
  <2>3. WellFormed' <=> WellFormed
    BY <2>1, Frozen
  <2> QED BY <2>1, <2>2, <2>3 DEF Followed, LineAsWritten
<1>3. CASE phase \in {"accepted", "rendered", "failed"}
  <2>1. piece = {} /\ open = "none"
    BY <1>3 DEF Quiet, Parsed
  <2> QED BY <1>3, <2>1 DEF Parse, Source, Command, OpenGroup, TakeBare, TakeRef, OpenQuote, TakeQuoted, CloseQuote,
                 EndPiece, CloseGroup, CommandEnds, Reject
<1> QED BY <1>1, <1>2, <1>3 DEF Phases

----------------------------------------------------------------------------
(* Every step of a line. *)

LEMMA FollowedStays ==
  ASSUME Followed, UNCHANGED parseVars
  PROVE  Followed'
<1>1. /\ line' = line /\ at' = at /\ phase' = phase /\ open' = open /\ piece' = piece
      /\ pieces' = pieces /\ tokens' = tokens /\ stages' = stages
  BY DEF parseVars
<1>2. LineAsWritten'
  <2>1. ParsedWords' = ParsedWords
    BY <1>1 DEF ParsedWords, ParsedWord
  <2>2. AuthorsWords' = AuthorsWords /\ (WellFormed' <=> WellFormed)
    BY <1>1, Frozen
  <2> QED BY <1>1, <2>1, <2>2 DEF Followed, LineAsWritten
<1>3. ASSUME Following PROVE Following'
  <2>1. PICK n \in 1..(Len(line) + 1) :
          at = n /\ LexicalAt(n) /\ (Doomed(n) \/ (SegmentAt(n) /\ WordsAt(n)))
    BY <1>3 DEF Following
  <2>2. /\ State' = State /\ Own' = Own
        /\ \A k : At(k)' = At(k) /\ Before(k)' = Before(k) /\ Ref(k)' = Ref(k)
        /\ \A k : (Cut(k)' <=> Cut(k)) /\ (Fine(k)' <=> Fine(k))
        /\ \A k, s : (Is(k, s)' <=> Is(k, s)) /\ (Held(k, s)' <=> Held(k, s)) /\ (Vacant(k, s)' <=> Vacant(k, s))
        /\ \A k, m : (Behind(k, m)' <=> Behind(k, m)) /\ TextFrom(k, m)' = TextFrom(k, m)
        /\ NoSource(n)' <=> NoSource(n)
        /\ \A w : AuthorsWord(w)' = AuthorsWord(w)
    BY <1>1, Frozen
  <2>3. LexicalAt(n)'
    BY <1>1, <2>1, <2>2 DEF LexicalAt
  <2>4. Bare' = Bare
    BY <1>1 DEF Bare, Chars
  <2>5. NoMore(n)' <=> NoMore(n)
    BY <1>1, <2>2, <2>4 DEF NoMore
  <2>6. Doomed(n)' <=> Doomed(n)
    BY <1>1, <2>2, <2>5 DEF Doomed
  <2>7. ASSUME SegmentAt(n) PROVE SegmentAt(n)'
    BY <1>1, <2>2, <2>7 DEF SegmentAt
  <2>8. ASSUME WordsAt(n) PROVE WordsAt(n)'
    <3>1. PICK f \in 1..n : PieceAt(f, n) /\ ReadTo(f)
      BY <2>8 DEF WordsAt
    <3>2. PICK ws : Listed(ws, f) /\ SoFar = Authors(ws)
      BY <3>1 DEF ReadTo
    <3>3. ParsedWord(Begun)' = ParsedWord(Begun)
      BY <1>1 DEF ParsedWord, Begun
    <3>4. PieceAt(f, n)'
      BY <1>1, <2>2, <2>5, <3>1, <3>3 DEF PieceAt
    <3>5. SoFar' = SoFar
      BY <1>1 DEF SoFar, StagesText, TokensText, PiecesText, ParsedWord
    <3>6. Authors(ws)' = Authors(ws)
      BY <2>2 DEF Authors
    <3>7. Listed(ws, f)'
      BY <2>2, <3>2 DEF Listed
    <3>8. ReadTo(f)'
      BY <3>2, <3>5, <3>6, <3>7 DEF ReadTo
    <3> QED BY <3>4, <3>8 DEF WordsAt
  <2> QED BY <1>1, <2>1, <2>3, <2>6, <2>7, <2>8 DEF Following
<1> QED BY <1>1, <1>2, <1>3 DEF Followed

LEMMA FollowedStarts ==
  ASSUME LineInit
  PROVE  Followed
<1>1. /\ line \in Lines /\ at = 1 /\ phase = "stage" /\ open = "none" /\ piece = {}
      /\ pieces = <<>> /\ tokens = <<>> /\ stages = <<>>
  BY DEF LineInit
<1>2. line \in Seq(Letters) /\ Len(line) \in Nat /\ 1 \in 1..(Len(line) + 1)
  BY <1>1, LineIs
<1>3. LexicalAt(1)
  <2>1. State[1] = [quote |-> "none", escaped |-> FALSE]
    BY <1>2, StateIs
  <2>2. Before(1) # "["
    <3>1. \A j \in Bracket : ~(j < 1)
      BY <1>2 DEF Bracket
    <3>2. Before(1) = "end"
      BY <3>1 DEF Before
    <3> QED BY <3>2
  <2> QED BY <1>1, <2>1, <2>2 DEF LexicalAt
<1>4. SegmentAt(1)
  BY <1>1 DEF SegmentAt
<1>5. PieceAt(1, 1)
  <2>1. Cut(0)
    BY <1>2 DEF Cut
  <2>2. ParsedWord(Begun) = <<>>
    <3>1. Begun = [parts |-> <<>>, force |-> FALSE]
      BY <1>1 DEF Begun
    <3>2. ParsedWord(Begun) = PartsText(<<>>)
      BY <3>1 DEF ParsedWord, PartsText, PartShown
    <3> QED BY <3>2, NoneText
  <2>3. TextFrom(1, 1) = <<>>
    BY <1>2, TextNone
  <2> QED BY <1>1, <2>1, <2>2, <2>3 DEF PieceAt
<1>6. ReadTo(1)
  <2>1. Listed(<<>>, 1)
    <3>1. \A w \in Own : ~(w[2] < 1)
      BY <1>2 DEF Own, Stretches
    <3>2. <<>> \in Seq(Own) /\ Len(<<>>) = 0
      OBVIOUS
    <3> QED BY <3>1, <3>2 DEF Listed
  <2>2. SoFar = <<>>
    <3>1. <<>> \o <<>> = <<>>
      OBVIOUS
    <3> QED BY <1>1, <3>1, NoneText DEF SoFar
  <2>3. Authors(<<>>) = <<>>
    BY DEF Authors
  <2> QED BY <2>1, <2>2, <2>3 DEF ReadTo
<1>7. WordsAt(1)
  BY <1>5, <1>6 DEF WordsAt
<1>8. Following
  BY <1>1, <1>2, <1>3, <1>4, <1>7 DEF Following
<1> QED BY <1>1, <1>8 DEF Followed, LineAsWritten

LEMMA FollowedSteps ==
  ASSUME LineInv, Followed, phase \in Phases, [LineNext]_lineVars
  PROVE  Followed' /\ phase' \in Phases
<1>1. Parsed /\ Quiet
  BY DEF LineInv
<1>2. CASE Parse
  <2>1. phase' \in Phases
    BY <1>2 DEF Phases, Parse, Source, Command, OpenGroup, TakeBare, TakeRef, OpenQuote, TakeQuoted, CloseQuote,
                EndPiece, CloseGroup, CommandEnds, EndStage, Reject, Add
  <2> QED BY <1>1, <1>2, <2>1, ParseFollows
<1>3. CASE Render
  <2>1. phase' \in {"rendered", "failed"}
    BY <1>3 DEF Render
  <2> QED BY <2>1 DEF Followed, LineAsWritten, Phases
<1>4. ASSUME UNCHANGED parseVars PROVE Followed' /\ phase' \in Phases
  BY <1>4, FollowedStays DEF parseVars
<1>5. UNCHANGED lineVars => UNCHANGED parseVars
  BY DEF lineVars, parseVars
<1> QED BY <1>2, <1>3, <1>4, <1>5 DEF LineNext, LineDone

\* For every line: it is accepted exactly if its author wrote it well, and then the words
\* and references parse_exec found are the ones the author sees between the blanks,
\* brackets and pipes outside of quotes (parse/exec.rs:54-272).
THEOREM AlwaysAsWritten == LineSpec => []LineAsWritten
<1>1. LineInit => LineInv /\ Followed /\ phase \in Phases
  BY LineStarts, FollowedStarts DEF LineInit, Phases
<1>2. LineInv /\ Followed /\ phase \in Phases /\ [LineNext]_lineVars
        => (LineInv /\ Followed /\ phase \in Phases)'
  BY LineSteps, FollowedSteps
<1>3. Followed => LineAsWritten
  BY DEF Followed
<1> QED BY <1>1, <1>2, <1>3, PTL DEF LineSpec
=============================================================================
