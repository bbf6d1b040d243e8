----------------------------- MODULE SpecParser -----------------------------
(***************************************************************************)
(* The outer parser of a specs file: a cursor over the file's lines, moved *)
(* by nested loops for the setup, the endpoints, an endpoint's directives, *)
(* a brace block of body fields and a multi-line Exec.                     *)
(*                                                                         *)
(* A line is known by its class, which is what the loops of the setup, the *)
(* endpoints and the directives make of it:                                *)
(*   "blank"       empty, or a comment                                     *)
(*   "GET", "GET?" a method and a path, and a path that is not one         *)
(*   "VERSION", "VERSION?"   a setup directive, and one with a bad value   *)
(*   "QUERY", "QUERY?"   QUERY, HEADER or VAR; one that is refused         *)
(*   "Response-Type"   which cannot be refused                             *)
(*   "BODY", "BODY?"   a body without a block; one that is refused         *)
(*   "BODY{", "BODY{x"   one that opens a block; with text behind `{`      *)
(*   "}"           a brace alone                                           *)
(*   "Exec", "Exec?"   one command; one that the Exec parser refuses       *)
(*   "Exec<<<", "Exec<<<x", ">>>"   a block's ends, and an opener with     *)
(*                 text after it                                           *)
(*   "text"        any other words, `name: type` among them                *)
(* A block's loop asks something else of a line, and of most classes it    *)
(* may like it or not: a brace block wants a colon and a type behind it,   *)
(* which `GET /b/:mode:on|off` has, and a multi-line Exec wants a command. *)
(* The text is not modelled, so both are possible.                         *)
(***************************************************************************)
EXTENDS Naturals, Sequences, SequencesExt

CONSTANT Files  \* the files, as sequences of classes

Classes == {"blank", "GET", "GET?", "VERSION", "VERSION?", "QUERY", "QUERY?", "Response-Type", "BODY", "BODY?",
            "BODY{", "BODY{x", "}", "Exec", "Exec?", "Exec<<<", "Exec<<<x", ">>>", "text"}

ASSUME FilesAssumption == Files \subseteq Seq(Classes)

VARIABLES
  lines,      \* the file
  cursor,     \* next line
  mode,       \* "setup", "endpoints", "endpoint", "brace", "block" or "done"
  current,    \* the endpoint being read
  endpoints,  \* those read
  setup,      \* lines whose directive took effect
  errors      \* diagnostics: line (0 where the span is 0..0) and what

parserVars == <<lines, cursor, mode, current, endpoints, setup, errors>>

Methods == {"GET", "GET?"}
Openers == {"BODY{", "BODY{x"}

\* No line of these is `name: type`: they have no colon, or `<<<` behind it.
NoField == {"BODY{", "Exec<<<", ">>>"}

AtEnd == cursor > Len(lines)
Line == lines[cursor]
On(classes) == ~AtEnd /\ Line \in classes

NewEndpoint(l) == [first |-> l, last |-> l, fields |-> {}, body |-> 0, bodyFields |-> {}, opener |-> 0, statements |-> <<>>]

\* parse_endpoint's end: whatever was read is kept, and Exec is required.
Finish(ep, errs) ==
  /\ endpoints' = Append(endpoints, ep)
  /\ errors' = errors \cup errs \cup
       {<<x, "missing Exec">> : x \in {y \in {ep.last} : ep.statements = <<>>}}
  /\ mode' = "endpoints" /\ current' = NewEndpoint(0)

\* What an endpoint's directive does to its endpoint.
Directive(ep) ==
  /\ current' = [ep EXCEPT !.last = cursor] /\ cursor' = cursor + 1
  /\ UNCHANGED <<lines, endpoints, setup, errors, mode>>

\* A line that is reported and otherwise ignored.
Reported(what) ==
  /\ errors' = errors \cup {<<cursor, what>>}
  /\ cursor' = cursor + 1

----------------------------------------------------------------------------

Init ==
  /\ lines \in Files /\ cursor = 1 /\ mode = "setup"
  /\ current = NewEndpoint(0) /\ endpoints = <<>> /\ setup = {} /\ errors = {}

\* skip_blank_and_comments; in a block the loop itself skips them.
SkipBlank ==
  /\ mode # "done" /\ On({"blank"})
  /\ cursor' = cursor + 1
  /\ UNCHANGED <<lines, mode, current, endpoints, setup, errors>>

SetupDirective ==
  /\ mode = "setup" /\ ~AtEnd /\ Line \notin Methods \cup {"blank"}
  /\ \/ Line = "VERSION" /\ setup' = setup \cup {cursor} /\ cursor' = cursor + 1 /\ UNCHANGED errors
     \/ Line # "VERSION" /\ Reported("setup") /\ UNCHANGED setup
  /\ UNCHANGED <<lines, mode, current, endpoints>>

SetupDone ==
  /\ mode = "setup" /\ (AtEnd \/ On(Methods))
  /\ mode' = "endpoints"
  /\ UNCHANGED <<lines, cursor, current, endpoints, setup, errors>>

SpecDone ==
  /\ mode = "endpoints" /\ AtEnd
  /\ mode' = "done"
  /\ UNCHANGED <<lines, cursor, current, endpoints, setup, errors>>

\* A bad path is reported and read all the same.
Header ==
  /\ mode = "endpoints" /\ On(Methods)
  /\ mode' = "endpoint" /\ current' = NewEndpoint(cursor)
  /\ IF Line = "GET?" THEN Reported("path") ELSE cursor' = cursor + 1 /\ UNCHANGED errors
  /\ UNCHANGED <<lines, endpoints, setup>>

\* Mutant: a line that is no header is looked at and not taken.
NoHeaderPeeks ==
  /\ mode = "endpoints" /\ ~AtEnd /\ Line \notin Methods \cup {"blank"}
  /\ errors' = errors \cup {<<cursor, "method">>}
  /\ UNCHANGED <<lines, cursor, mode, current, endpoints, setup>>

\* Mutant: a line that is no header is passed over.
NoHeaderSilent ==
  /\ mode = "endpoints" /\ ~AtEnd /\ Line \notin Methods \cup {"blank"}
  /\ cursor' = cursor + 1
  /\ UNCHANGED <<lines, mode, current, endpoints, setup, errors>>

\* parse_endpoint has taken the line it reports, and parse_spec takes another,
\* unread.
NoHeader ==
  /\ mode = "endpoints" /\ ~AtEnd /\ Line \notin Methods \cup {"blank"}
  /\ errors' = errors \cup {<<cursor, "method">>}
  /\ cursor' = IF cursor = Len(lines) THEN cursor + 1 ELSE cursor + 2
  /\ UNCHANGED <<lines, mode, current, endpoints, setup>>

EndpointDone ==
  /\ mode = "endpoint" /\ (AtEnd \/ On(Methods))
  /\ Finish(current, {})
  /\ UNCHANGED <<lines, cursor, setup>>

\* QUERY, HEADER, VAR and Response-Type.
Field ==
  /\ mode = "endpoint" /\ On({"QUERY", "Response-Type"})
  /\ Directive([current EXCEPT !.fields = @ \cup {cursor}])

\* The last BODY wins.
Body ==
  /\ mode = "endpoint" /\ On({"BODY"})
  /\ Directive([current EXCEPT !.body = cursor, !.bodyFields = {}])

BadDirective ==
  /\ mode = "endpoint"
  /\ On({"VERSION", "VERSION?", "QUERY?", "BODY?", "}", ">>>", "text"})
  /\ current' = [current EXCEPT !.last = cursor]
  /\ Reported("directive")
  /\ UNCHANGED <<lines, mode, endpoints, setup>>

\* Only the brace is looked at: what stands behind it is dropped unread.
BraceOpens ==
  /\ mode = "endpoint" /\ On(Openers)
  /\ mode' = "brace" /\ cursor' = cursor + 1
  /\ current' = [current EXCEPT !.body = cursor, !.bodyFields = {}, !.last = cursor]
  /\ UNCHANGED <<lines, endpoints, setup, errors>>

\* Whatever its first word, a line with a colon and a type behind it is a field.
BraceLine ==
  /\ mode = "brace" /\ ~AtEnd /\ Line \notin {"blank", "}"}
  /\ \/ /\ Line \notin NoField
        /\ current' = [current EXCEPT !.bodyFields = @ \cup {cursor}]
        /\ cursor' = cursor + 1 /\ UNCHANGED errors
     \/ Reported("field") /\ UNCHANGED current
  /\ UNCHANGED <<lines, mode, endpoints, setup>>

BraceCloses ==
  /\ mode = "brace" /\ (AtEnd \/ On({"}"}))
  /\ mode' = "endpoint"
  /\ cursor' = IF AtEnd THEN cursor ELSE cursor + 1
  /\ errors' = IF AtEnd THEN errors \cup {<<0, "unterminated brace">>} ELSE errors
  /\ UNCHANGED <<lines, current, endpoints, setup>>

\* Exec ends the endpoint; a command that is refused leaves it without one.
Exec ==
  /\ mode = "endpoint" /\ On({"Exec", "Exec?"})
  /\ IF Line = "Exec" THEN Finish([current EXCEPT !.last = cursor, !.statements = <<cursor>>], {})
     ELSE Finish([current EXCEPT !.last = cursor], {<<cursor, "exec">>})
  /\ cursor' = cursor + 1
  /\ UNCHANGED <<lines, setup>>

BlockOpens ==
  /\ mode = "endpoint" /\ On({"Exec<<<", "Exec<<<x"})
  /\ mode' = "block" /\ cursor' = cursor + 1
  /\ current' = [current EXCEPT !.opener = cursor, !.last = cursor]
  /\ errors' = IF Line = "Exec<<<x" THEN errors \cup {<<cursor, "text after opener">>} ELSE errors
  /\ UNCHANGED <<lines, endpoints, setup>>

\* Every line is a statement, whatever it would be elsewhere; one that the
\* Exec parser refuses is reported and left out.
BlockLine ==
  /\ mode = "block" /\ ~AtEnd /\ Line \notin {"blank", ">>>"}
  /\ \/ Reported("exec") /\ UNCHANGED current
     \/ /\ current' = [current EXCEPT !.statements = Append(@, cursor), !.last = cursor]
        /\ cursor' = cursor + 1 /\ UNCHANGED errors
  /\ UNCHANGED <<lines, mode, endpoints, setup>>

BlockCloses ==
  /\ mode = "block" /\ (AtEnd \/ On({">>>"}))
  /\ Finish([current EXCEPT !.last = IF AtEnd THEN Len(lines) ELSE cursor],
            {<<current.opener, "unterminated Exec">> : x \in {y \in {1} : AtEnd}})
  /\ cursor' = IF AtEnd THEN cursor ELSE cursor + 1
  /\ UNCHANGED <<lines, setup>>

Next ==
  \/ SkipBlank \/ SetupDirective \/ SetupDone \/ SpecDone \/ Header \/ NoHeader \/ EndpointDone
  \/ Field \/ Body \/ BadDirective \/ BraceOpens \/ BraceLine \/ BraceCloses \/ Exec \/ BlockOpens
  \/ BlockLine \/ BlockCloses

\* parse is one call: it runs until it returns.
Spec == Init /\ [][Next]_parserVars /\ WF_parserVars(Next)

----------------------------------------------------------------------------
(* Properties. *)

Accepted == mode = "done" /\ errors = {}

\* A line of a multi-line Exec, by the file alone.
InExec(l) ==
  \E o \in 1..(l - 1) : lines[o] = "Exec<<<" /\ \A k \in o..(l - 1) : lines[k] # ">>>"

\* A line of a body's brace block, or the one that closes it.
InBrace(l) ==
  \E o \in 1..(l - 1) : lines[o] \in Openers /\ ~InExec(o) /\ \A k \in o..(l - 1) : lines[k] # "}"

\* A file without errors is read by its brackets. Outside of the Execs and the
\* braces every method begins an endpoint, in order, and each endpoint runs
\* something; a directive belongs to the endpoint whose method precedes it. Each
\* line of an Exec is a statement of its endpoint, and each line between braces
\* a field of its endpoint's body or of one that a later BODY replaced, even a
\* line that begins with a method: an endpoint behind a forgotten brace is lost
\* only so. And no bracket has taken the rest of the file for want of an end
\* (parse/spec.rs:90-109, 255-280, 305-362, 500-606, 638-668).
AcceptedReadsAll ==
  Accepted =>
    /\ {endpoints[k].first : k \in DOMAIN endpoints}
         = {l \in DOMAIN lines : lines[l] = "GET" /\ ~InExec(l) /\ ~InBrace(l)}
    /\ \A k \in DOMAIN endpoints : endpoints[k].statements # <<>>
    /\ \A j, k \in DOMAIN endpoints : j < k => endpoints[j].last < endpoints[k].first
    /\ \A l \in DOMAIN lines :
         /\ lines[l] = "VERSION" /\ ~InExec(l) /\ ~InBrace(l) => l \in setup
         /\ lines[l] \in {"QUERY", "Response-Type"} /\ ~InExec(l) /\ ~InBrace(l) =>
              \E k \in DOMAIN endpoints :
                endpoints[k].first < l /\ l < endpoints[k].last /\ l \in endpoints[k].fields
         /\ lines[l] \notin {"blank", "}"} /\ InBrace(l) =>
              \E k \in DOMAIN endpoints :
                /\ endpoints[k].first < l /\ l < endpoints[k].last
                /\ l \in endpoints[k].bodyFields \/ l < endpoints[k].body
         /\ lines[l] \notin {"blank", ">>>"} /\ InExec(l) =>
              \E k \in DOMAIN endpoints :
                l \in {endpoints[k].statements[x] : x \in DOMAIN endpoints[k].statements}
         /\ ~InExec(l) /\ lines[l] \in Openers \cup {"Exec<<<"} =>
              \E c \in (l + 1)..Len(lines) : lines[c] = IF lines[l] = "Exec<<<" THEN ">>>" ELSE "}"

\* The parser returns, whatever the file (parse/spec.rs:102-106).
Terminates == <>(mode = "done")
=============================================================================
