------------------------------ MODULE Startup ------------------------------
(***************************************************************************)
(* From the command line to a listening server: main's option loop, the    *)
(* two forms of the verdict, check()'s loop over the endpoints, the values *)
(* resolved once, build_router's two loops, and which endpoint's handler a *)
(* request is given to.  The router is axum's, over matchit 0.7: a method  *)
(* mounted twice on a path panics, so do two paths that differ only in the *)
(* names of parameters, and a literal segment is preferred to a parameter. *)
(* A literal is text that matchit takes as it is (none with `:` or `*` in  *)
(* it), and a path has no more parameters than matchit has letters.        *)
(*                                                                         *)
(* A segment of a path is a record; an empty one has kind "empty".  BASE   *)
(* and VERSION prefix every route alike and are left out.                  *)
(***************************************************************************)
EXTENDS Naturals, Sequences, FiniteSets, SequencesExt

CONSTANTS
  Scenarios,  \* pairs of a command line and the file it names
  Requests    \* methods and paths of requests; a path is a sequence of texts

Methods == {"Get", "Post", "Put", "Delete", "Patch"}
Segments == [kind : {"literal", "param", "empty"}, name : STRING, ty : STRING]

\* A path starts with a slash, so it has a segment, maybe an empty one; a
\* parameter's name is never empty (parse/spec.rs:411-448).  The errors of an endpoint
\* are those the checker finds in it.
ASSUME ScenarioAssumption ==
  \A sc \in Scenarios :
    /\ sc.file.parseErrors \in Nat
    /\ Len(sc.file.endpoints) \in Nat /\ DOMAIN sc.file.endpoints = 1..Len(sc.file.endpoints)
    /\ \A i \in DOMAIN sc.file.endpoints :
         LET ep == sc.file.endpoints[i] IN
         /\ ep.method \in Methods /\ ep.errors \in Nat
         /\ ep.path \in Seq(Segments) /\ ep.path # <<>>

VARIABLES
  phase,    \* "args", "read", "check", "verdict", "resolve", "merge", "route",
            \* "bind", "listening" or "exited"
  args,     \* arguments still to read
  opts,     \* options read so far
  file,     \* what the path names
  i,        \* endpoint whose turn it is
  seen,     \* keys of the endpoints checked
  warned,   \* endpoints with the duplicate warning
  errors,   \* errors found by the parser and the checker
  routes,   \* HashMap: path -> method -> endpoint
  router,   \* the same, as mounted
  code,     \* exit code
  handled   \* the last request and who answered it

startVars == <<phase, args, opts, file, i, seen, warned, errors, routes, router, code, handled>>

Endpoints == file.endpoints

----------------------------------------------------------------------------
(* Paths. *)

Untyped(seg) == [kind |-> seg.kind, name |-> seg.name]

\* check.rs:26: types are dropped, empty segments and names stay.
NormalizePath(path) == [k \in DOMAIN path |-> Untyped(path[k])]

\* parse_path: empty segments are dropped.
PathSegments(path) ==
  LET kept[k \in 0..Len(path)] ==
        IF k = 0 THEN <<>>
        ELSE IF path[k].kind = "empty" THEN kept[k - 1]
        ELSE Append(kept[k - 1], path[k])
  IN kept[Len(path)]

\* axum_path
AxumPath(path) == NormalizePath(PathSegments(path))

\* matchit keeps the names of a route's parameters beside its tree, in which
\* there is one route of each shape.
Shape(p) == [k \in DOMAIN p |-> IF p[k].kind = "param" THEN [kind |-> "param", name |-> "any"] ELSE p[k]]
Conflict(p, q) == p # q /\ Shape(p) = Shape(q)

Matches(p, path) ==
  /\ DOMAIN p = DOMAIN path
  /\ \A k \in DOMAIN p : p[k].kind = "literal" => p[k].name = path[k]

\* matchit: where two routes part, the literal is tried first.
Preferred(p, q) ==
  \E k \in DOMAIN p \cap DOMAIN q :
    /\ SubSeq(Shape(p), 1, k - 1) = SubSeq(Shape(q), 1, k - 1)
    /\ p[k].kind = "literal" /\ q[k].kind = "param"

\* MethodRouter: HEAD is answered by the handler of GET.
Served(method) == IF method = "Head" THEN "Get" ELSE method

----------------------------------------------------------------------------
(* main's option loop. *)

NoOpts == [check |-> FALSE, json |-> FALSE, path |-> FALSE, dry |-> FALSE]

Init ==
  /\ phase = "args" /\ opts = NoOpts
  /\ \E sc \in Scenarios : args = sc.args /\ file = sc.file
  /\ i = 1 /\ seen = {} /\ warned = {} /\ errors = 0
  /\ routes = <<>> /\ router = <<>> /\ code = 0 /\ handled = {}

Exit(status) ==
  /\ phase' = "exited" /\ code' = status
  /\ UNCHANGED <<args, opts, file, i, seen, warned, errors, routes, router, handled>>

Goto(next) ==
  /\ phase' = next
  /\ UNCHANGED <<args, opts, file, i, seen, warned, errors, routes, router, code, handled>>

\* Options come in any order and the last path wins; every run names one file.
ReadArg ==
  /\ phase = "args" /\ args # <<>>
  /\ LET arg == Head(args) IN
     \/ /\ arg \in {"--check", "--json", "--dry-run", "-q", "path"}
        /\ args' = Tail(args)
        /\ opts' = [check |-> opts.check \/ arg = "--check", json |-> opts.json \/ arg = "--json",
                    path |-> opts.path \/ arg = "path", dry |-> opts.dry \/ arg = "--dry-run"]
        /\ UNCHANGED <<phase, file, i, seen, warned, errors, routes, router, code, handled>>
     \/ /\ IsPrefix(<<"--addr", "address">>, args)
        /\ args' = Tail(Tail(args))
        /\ UNCHANGED <<phase, opts, file, i, seen, warned, errors, routes, router, code, handled>>
     \/ arg = "--addr" /\ ~IsPrefix(<<"--addr", "address">>, args) /\ Exit(2)
     \/ arg = "--help" /\ Exit(0)
     \/ arg = "--unknown" /\ Exit(2)

\* --json needs --check, and a path is needed.
Usage ==
  /\ phase = "args" /\ args = <<>>
  /\ IF (opts.json /\ ~opts.check) \/ ~opts.path THEN Exit(2) ELSE Goto("read")

\* read_to_string and parse; an error of the parser keeps the checker out.
Read ==
  /\ phase = "read"
  /\ \/ ~file.readable /\ Exit(1)
     \/ /\ file.readable
        /\ errors' = file.parseErrors
        /\ phase' = IF file.parseErrors = 0 THEN "check" ELSE "verdict"
        /\ UNCHANGED <<args, opts, file, i, seen, warned, routes, router, code, handled>>

----------------------------------------------------------------------------
(* check::check and the verdict. *)

Key(ep) == <<ep.method, NormalizePath(ep.path)>>

\* Mutant: the key keeps the parameters' types.
CheckEndpointTyped ==
  /\ phase = "check" /\ i =< Len(Endpoints)
  /\ LET ep == Endpoints[i]
         key == <<ep.method, ep.path>> IN
     /\ errors' = errors + ep.errors
     /\ seen' = seen \cup {key}
     /\ warned' = IF key \in seen THEN warned \cup {i} ELSE warned
  /\ i' = i + 1
  /\ UNCHANGED <<phase, args, opts, file, routes, router, code, handled>>

\* check_endpoint, then the duplicate warning.
CheckEndpoint ==
  /\ phase = "check" /\ i =< Len(Endpoints)
  /\ LET ep == Endpoints[i] IN
     /\ errors' = errors + ep.errors
     /\ seen' = seen \cup {Key(ep)}
     /\ warned' = IF Key(ep) \in seen THEN warned \cup {i} ELSE warned
  /\ i' = i + 1
  /\ UNCHANGED <<phase, args, opts, file, routes, router, code, handled>>

CheckDone ==
  /\ phase = "check" /\ i > Len(Endpoints)
  /\ phase' = "verdict" /\ i' = 1
  /\ UNCHANGED <<args, opts, file, seen, warned, errors, routes, router, code, handled>>

\* diag::report: ok counts the errors.
ReportOk == errors = 0

\* Mutant: the report is of the parser's diagnostics alone.
VerdictParseOnly ==
  /\ phase = "verdict"
  /\ \/ opts.json /\ Exit(IF file.parseErrors = 0 THEN 0 ELSE 1)
     \/ ~opts.json /\ errors > 0 /\ Exit(1)
     \/ ~opts.json /\ errors = 0 /\ opts.check /\ Exit(0)
     \/ ~opts.json /\ errors = 0 /\ ~opts.check /\ Goto("resolve")

\* The JSON report; in text, the parser's errors abort, then the checker's do.
Verdict ==
  /\ phase = "verdict"
  /\ \/ opts.json /\ Exit(IF ReportOk THEN 0 ELSE 1)
     \/ ~opts.json /\ errors > 0 /\ Exit(1)
     \/ ~opts.json /\ errors = 0 /\ opts.check /\ Exit(0)
     \/ ~opts.json /\ errors = 0 /\ ~opts.check /\ Goto("resolve")

----------------------------------------------------------------------------
(* server::serve. *)

\* resolve_static_source, of TOKEN_SECRET and JWT_VERIFIER.
Resolve ==
  /\ phase = "resolve"
  /\ IF \E source \in file.statics : source \in {"unset env", "header"}
     THEN Exit(1) ELSE Goto("merge")

Mounted(path) == IF path \in DOMAIN routes THEN routes[path] ELSE <<>>
With(f, x, v) == [y \in DOMAIN f \cup {x} |-> IF y = x THEN v ELSE f[y]]

\* MethodRouter::merge panics where the method is taken.
MergeEndpoint ==
  /\ phase = "merge" /\ i =< Len(Endpoints)
  /\ LET ep == Endpoints[i]
         path == AxumPath(ep.path) IN
     \/ ep.method \in DOMAIN Mounted(path) /\ Exit(101)
     \/ /\ ep.method \notin DOMAIN Mounted(path)
        /\ routes' = With(routes, path, With(Mounted(path), ep.method, i))
        /\ i' = i + 1
        /\ UNCHANGED <<phase, args, opts, file, seen, warned, errors, router, code, handled>>

MergeDone == phase = "merge" /\ i > Len(Endpoints) /\ Goto("route")

\* Mutant: a path is mounted beside one that differs only in names.
MountRouteAny ==
  /\ phase = "route"
  /\ \E path \in DOMAIN routes \ DOMAIN router : router' = With(router, path, routes[path])
  /\ UNCHANGED <<phase, args, opts, file, i, seen, warned, errors, routes, code, handled>>

\* Router::route, in the HashMap's order.
MountRoute ==
  /\ phase = "route"
  /\ \E path \in DOMAIN routes \ DOMAIN router :
       \/ (\E q \in DOMAIN router : Conflict(path, q)) /\ Exit(101)
       \/ /\ \A q \in DOMAIN router : ~Conflict(path, q)
          /\ router' = With(router, path, routes[path])
          /\ UNCHANGED <<phase, args, opts, file, i, seen, warned, errors, routes, code, handled>>

RouteDone == phase = "route" /\ DOMAIN router = DOMAIN routes /\ Goto("bind")

Bind == phase = "bind" /\ (Exit(1) \/ Goto("listening"))

\* Mutant: parameters are tried first.
RouteOfParam(path) ==
  {p \in DOMAIN router : Matches(p, path) /\ \A q \in DOMAIN router : Matches(q, path) => ~Preferred(p, q)}

RouteOf(path) ==
  {p \in DOMAIN router : Matches(p, path) /\ \A q \in DOMAIN router : Matches(q, path) => ~Preferred(q, p)}

\* The router finds the route, then the route its method: 404, 405, or handle().
Request ==
  /\ phase = "listening"
  /\ \E req \in Requests :
       LET found == RouteOf(req.path)
           who == UNION {{router[p][n] : n \in {Served(req.method)} \cap DOMAIN router[p]} : p \in found}
       IN handled' = {[req |-> req, who |-> who, status |-> IF found = {} THEN 404 ELSE IF who = {} THEN 405 ELSE 200]}
  /\ UNCHANGED <<phase, args, opts, file, i, seen, warned, errors, routes, router, code>>

Next ==
  \/ ReadArg \/ Usage \/ Read \/ CheckEndpoint \/ CheckDone \/ Verdict \/ Resolve
  \/ MergeEndpoint \/ MergeDone \/ MountRoute \/ RouteDone \/ Bind \/ Request

Spec == Init /\ [][Next]_startVars

----------------------------------------------------------------------------
(* Properties. *)

Valid == file.readable /\ file.parseErrors = 0 /\ \A k \in DOMAIN Endpoints : Endpoints[k].errors = 0

\* Two endpoints the router cannot hold together.
Clash(j, k) ==
  LET p == AxumPath(Endpoints[j].path)
      q == AxumPath(Endpoints[k].path)
  IN (p = q /\ Endpoints[j].method = Endpoints[k].method) \/ Conflict(p, q)

\* The exit code of --check says whether the file is free of errors, and says
\* the same with --json; and only a file without errors is served, never under
\* one of the two (main.rs:106-157).
OneVerdict ==
  /\ phase = "exited" /\ opts.check /\ opts.path /\ args = <<>> => (code = 0 <=> Valid)
  /\ phase \in {"resolve", "merge", "route", "bind", "listening"} => Valid /\ ~opts.check /\ ~opts.json

\* The program panics for a clash of endpoints and for nothing else, in
\* whatever order the HashMap gives the routes: for one method twice on a path,
\* or for paths alike but for the names of their parameters, whatever their
\* methods. If it listens, it has every endpoint at its own route and method
\* (server.rs:72-98).
MountsAllOrPanics ==
  /\ code = 101 => \E j, k \in DOMAIN Endpoints : j < k /\ Clash(j, k)
  /\ phase = "listening" =>
       \A k \in DOMAIN Endpoints :
         LET p == AxumPath(Endpoints[k].path) IN
         /\ \A j \in 1..(k - 1) : ~Clash(j, k)
         /\ p \in DOMAIN router /\ Endpoints[k].method \in DOMAIN router[p] /\ router[p][Endpoints[k].method] = k

\* Of the endpoints that panic in the merge, the checker has warned of all but
\* those whose paths differ in an empty segment (check.rs:13-38, server.rs:90).
MergePanicWarned ==
  phase = "exited" /\ code = 101 /\ i =< Len(Endpoints) =>
    \/ i \in warned
    \/ \E j \in 1..(i - 1) :
         /\ Endpoints[j].method = Endpoints[i].method /\ AxumPath(Endpoints[j].path) = AxumPath(Endpoints[i].path)
         /\ NormalizePath(Endpoints[j].path) # NormalizePath(Endpoints[i].path)

\* A request is given to at most one endpoint, of its method and a path that
\* matches; to the one whose path it is literally, if there is one; and to
\* none only if none matches or a route that matches too is preferred, though
\* it lacks the method (server.rs:72-98, 130-143).
RightHandler ==
  \A h \in handled :
    LET fits(k) == Endpoints[k].method = Served(h.req.method) /\ Matches(AxumPath(Endpoints[k].path), h.req.path)
        literal(k) == \A x \in DOMAIN Endpoints[k].path : Endpoints[k].path[x].kind # "param"
    IN /\ \A k \in h.who : fits(k)
       /\ Cardinality(h.who) =< 1
       /\ \A k \in DOMAIN Endpoints : fits(k) /\ literal(k) => h.who = {k}
       /\ h.status = 404 => \A k \in DOMAIN Endpoints : ~fits(k)
       /\ h.status = 405 /\ (\E k \in DOMAIN Endpoints : fits(k)) =>
            \E k, n \in DOMAIN Endpoints :
              /\ fits(k) /\ ~fits(n) /\ Matches(AxumPath(Endpoints[n].path), h.req.path)
              /\ Preferred(AxumPath(Endpoints[n].path), AxumPath(Endpoints[k].path))
============================================================================
