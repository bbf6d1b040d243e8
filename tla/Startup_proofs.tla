--------------------------- MODULE Startup_proofs ---------------------------
(***************************************************************************)
(* Startup for every command line and every file: one verdict, and routes  *)
(* that are all mounted or panic for a clash the file really has.          *)
(*                                                                         *)
(* The errors counted are zero exactly while everything read has none; the *)
(* table of routes is the inverse of the endpoints merged so far.  Where   *)
(* the shapes of two routes that match part, at the least place at which   *)
(* they differ, one is literal: preference orders them.  Induction is by   *)
(* WFMin: a set of numbers for which a claim fails has a least member.     *)
(***************************************************************************)
EXTENDS Startup, SequenceTheorems, FiniteSetTheorems, WellFoundedInduction, TLAPS

\* The endpoints before n have no error.
Clean(n) == \A k \in 1..(n - 1) : Endpoints[k].errors = 0

\* The checker has warned of the endpoints before n that repeat an earlier key.
Warned(n) == \A k \in 1..(n - 1) : (\E j \in 1..(k - 1) : Key(Endpoints[j]) = Key(Endpoints[k])) => k \in warned

Serving == {"resolve", "merge", "route", "bind", "listening"}

\* The file is one of the files, and the loops stay within it.
Within ==
  /\ \E sc \in Scenarios : file = sc.file
  /\ i \in Nat /\ 1 =< i /\ i =< Len(Endpoints) + 1 /\ errors \in Nat
  /\ phase \in {"args", "read", "check", "verdict", "exited"} \cup Serving

\* What the phases have established.
Counted ==
  /\ phase \in {"args", "read"} => i = 1 /\ errors = 0 /\ seen = {} /\ code = 0
  /\ phase = "check" =>
       /\ file.readable /\ file.parseErrors = 0
       /\ errors = 0 <=> Clean(i)
       /\ seen = {Key(Endpoints[k]) : k \in 1..(i - 1)} /\ Warned(i)
  /\ phase = "verdict" =>
       /\ i = 1
       /\ errors = 0 <=> Valid
       /\ errors = 0 => Warned(Len(Endpoints) + 1)
  /\ phase \in Serving =>
       Valid /\ ~opts.check /\ ~opts.json /\ Warned(Len(Endpoints) + 1)
  /\ phase \notin Serving \cup {"exited"} => code = 0

LEMMA FileIs ==
  ASSUME Within
  PROVE  /\ file.parseErrors \in Nat /\ Len(Endpoints) \in Nat /\ DOMAIN Endpoints = 1..Len(Endpoints)
         /\ \A k \in DOMAIN Endpoints : Endpoints[k].errors \in Nat
  BY ScenarioAssumption DEF Within, Endpoints

LEMMA ValidIs ==
  ASSUME Within
  PROVE  Valid <=> file.readable /\ file.parseErrors = 0 /\ Clean(Len(Endpoints) + 1)
<1>1. Len(Endpoints) \in Nat /\ DOMAIN Endpoints = 1..Len(Endpoints)
  BY FileIs
<1>2. (Len(Endpoints) + 1) - 1 = Len(Endpoints)
  BY <1>1
<1> QED BY <1>1, <1>2 DEF Valid, Clean

Judged == Within /\ Counted /\ OneVerdict

\* A step that ends the program or only moves to another phase.
LEMMA ExitDoes ==
  ASSUME NEW status, Exit(status)
  PROVE  /\ phase' = "exited" /\ code' = status
         /\ UNCHANGED <<args, opts, file, i, seen, warned, errors, routes, router>>
  BY DEF Exit

LEMMA GotoDoes ==
  ASSUME NEW next, Goto(next)
  PROVE  /\ phase' = next
         /\ UNCHANGED <<args, opts, file, i, seen, warned, errors, routes, router, code>>
  BY DEF Goto

\* Ending keeps the verdict if it is right.
LEMMA ExitKeeps ==
  ASSUME Judged, NEW status, Exit(status),
         opts.check /\ opts.path /\ args = <<>> => (status = 0 <=> Valid)
  PROVE  Judged'
<1>1. /\ phase' = "exited" /\ code' = status
      /\ UNCHANGED <<args, opts, file, i, seen, warned, errors>>
  BY ExitDoes
<1>2. Within'
  BY <1>1 DEF Judged, Within, Endpoints
<1>3. Counted'
  BY <1>1 DEF Counted, Serving
<1>4. Valid' <=> Valid
  BY <1>1 DEF Valid, Endpoints
<1>5. OneVerdict'
  BY <1>1, <1>4 DEF OneVerdict
<1> QED BY <1>2, <1>3, <1>5 DEF Judged

\* A step between two phases that serve keeps what has been established.
LEMMA ServingKeeps ==
  ASSUME Judged, phase \in Serving, phase' \in Serving,
         UNCHANGED <<opts, file, seen, warned, errors>>, i' \in Nat, 1 =< i', i' =< Len(Endpoints) + 1
  PROVE  Judged'
<1>1. Within'
  BY DEF Judged, Within, Endpoints
<1>2. Valid' <=> Valid
  BY DEF Valid, Endpoints
<1>3. Warned(Len(Endpoints) + 1)' <=> Warned(Len(Endpoints) + 1)
  BY DEF Warned, Endpoints, Key
<1>4. Counted'
  BY <1>2, <1>3 DEF Counted, Judged, Serving
<1>5. OneVerdict'
  BY <1>2 DEF OneVerdict, Counted, Judged, Serving
<1> QED BY <1>1, <1>4, <1>5 DEF Judged

LEMMA ArgsKeep ==
  ASSUME Judged, ReadArg \/ Usage
  PROVE  Judged'
<1>1. phase = "args" /\ i = 1 /\ errors = 0 /\ seen = {} /\ code = 0
  BY DEF ReadArg, Usage, Judged, Counted
<1>2. CASE phase' \in {"args", "read"} /\ UNCHANGED <<file, i, seen, errors, code>>
  <2>1. Within'
    BY <1>2 DEF Judged, Within, Endpoints
  <2>2. Counted' /\ OneVerdict'
    BY <1>1, <1>2 DEF Counted, Serving, OneVerdict
  <2> QED BY <2>1, <2>2 DEF Judged
<1>3. CASE ReadArg
  <2>1. CASE \E status : Exit(status)
    <3>1. args # <<>>
      BY <1>3 DEF ReadArg
    <3> QED BY <2>1, <3>1, ExitKeeps
  <2>2. CASE ~\E status : Exit(status)
    BY <1>1, <1>2, <1>3, <2>2 DEF ReadArg
  <2> QED BY <2>1, <2>2
<1>4. CASE Usage
  <2>1. CASE (opts.json /\ ~opts.check) \/ ~opts.path
    <3>1. Exit(2)
      BY <1>4, <2>1 DEF Usage
    <3> QED BY <2>1, <3>1, ExitKeeps
  <2>2. CASE Goto("read")
    BY <1>2, <2>2, GotoDoes
  <2> QED BY <1>4, <2>1, <2>2 DEF Usage
<1> QED BY <1>3, <1>4

LEMMA ReadKeeps ==
  ASSUME Judged, Read
  PROVE  Judged'
<1>1. phase = "read" /\ i = 1 /\ seen = {} /\ code = 0 /\ Within
  BY DEF Read, Judged, Counted
<1>2. CASE ~file.readable /\ Exit(1)
  <2>1. ~Valid
    BY <1>2 DEF Valid
  <2> QED BY <1>2, <2>1, ExitKeeps
<1>3. CASE /\ file.readable /\ errors' = file.parseErrors
           /\ phase' = IF file.parseErrors = 0 THEN "check" ELSE "verdict"
           /\ UNCHANGED <<file, i, seen, warned, code>>
  <2>1. Within'
    BY <1>1, <1>3, FileIs DEF Within, Endpoints
  <2>2. i' = 1 /\ code' = 0
    BY <1>1, <1>3
  <2>3. CASE file.parseErrors = 0
    <3>1. phase' = "check" /\ errors' = 0 /\ file'.readable /\ file'.parseErrors = 0
      BY <1>3, <2>3
    <3>2. Clean(i)' /\ Warned(i)' /\ {Key(Endpoints[k]) : k \in 1..(i - 1)}' = {}
      BY <2>2 DEF Clean, Warned
    <3>3. Counted'
      BY <1>1, <1>3, <2>2, <3>1, <3>2 DEF Counted, Serving
    <3> QED BY <2>1, <3>1, <3>3 DEF Judged, OneVerdict
  <2>4. CASE file.parseErrors # 0
    <3>1. phase' = "verdict" /\ errors' # 0 /\ ~Valid'
      BY <1>3, <2>4 DEF Valid
    <3>2. Counted'
      BY <2>2, <3>1 DEF Counted, Serving
    <3> QED BY <2>1, <3>1, <3>2 DEF Judged, OneVerdict
  <2> QED BY <2>3, <2>4
<1> QED BY <1>2, <1>3 DEF Read

LEMMA CheckKeeps ==
  ASSUME Judged, CheckEndpoint
  PROVE  Judged'
<1> DEFINE endpoint == Endpoints[i]
<1>1. /\ phase = "check" /\ i \in Nat /\ 1 =< i /\ i =< Len(Endpoints) /\ errors \in Nat
      /\ file.readable /\ file.parseErrors = 0 /\ (errors = 0 <=> Clean(i))
      /\ seen = {Key(Endpoints[k]) : k \in 1..(i - 1)} /\ Warned(i) /\ code = 0 /\ Within
  BY DEF CheckEndpoint, Judged, Counted, Within, Serving
<1>2. /\ errors' = errors + endpoint.errors /\ seen' = seen \cup {Key(endpoint)}
      /\ warned' = IF Key(endpoint) \in seen THEN warned \cup {i} ELSE warned
      /\ i' = i + 1 /\ UNCHANGED <<phase, file, code>>
  BY DEF CheckEndpoint
<1>3. Len(Endpoints) \in Nat /\ endpoint.errors \in Nat
  BY <1>1, FileIs
<1>4. Endpoints' = Endpoints /\ \A x : Key(x)' = Key(x)
  BY <1>2 DEF Endpoints, Key
<1>5. 1..(i' - 1) = 1..(i - 1) \cup {i}
  BY <1>1, <1>2
<1>6. Within'
  BY <1>1, <1>2, <1>3 DEF Within, Endpoints
<1>7. Clean(i)' <=> Clean(i) /\ endpoint.errors = 0
  BY <1>4, <1>5 DEF Clean
<1>8. errors' = 0 <=> errors = 0 /\ endpoint.errors = 0
  BY <1>1, <1>2, <1>3
<1>9. seen' = {Key(Endpoints[k]) : k \in 1..(i - 1)}'
  BY <1>1, <1>2, <1>4, <1>5
<1>10. Warned(i)'
  <2>1. SUFFICES ASSUME NEW k \in 1..(i' - 1), \E j \in 1..(k - 1) : Key(Endpoints[j]) = Key(Endpoints[k])
                 PROVE  k \in warned'
    BY <1>4 DEF Warned
  <2>2. CASE k \in 1..(i - 1)
    BY <1>1, <1>2, <2>1, <2>2 DEF Warned
  <2>3. CASE k = i
    BY <1>1, <1>2, <2>1, <2>3
  <2> QED BY <1>5, <2>2, <2>3
<1>11. Counted'
  BY <1>1, <1>2, <1>7, <1>8, <1>9, <1>10 DEF Counted, Serving
<1>12. OneVerdict'
  BY <1>1, <1>2 DEF OneVerdict
<1> QED BY <1>6, <1>11, <1>12 DEF Judged

LEMMA CheckDoneKeeps ==
  ASSUME Judged, CheckDone
  PROVE  Judged'
<1>1. /\ phase = "check" /\ i = Len(Endpoints) + 1 /\ Len(Endpoints) \in Nat
      /\ file.readable /\ file.parseErrors = 0 /\ (errors = 0 <=> Clean(i)) /\ Warned(i) /\ code = 0 /\ Within
  BY FileIs DEF CheckDone, Judged, Counted, Within, Serving
<1>2. phase' = "verdict" /\ i' = 1 /\ UNCHANGED <<file, seen, warned, errors, code>>
  BY DEF CheckDone
<1>3. errors = 0 <=> Valid
  BY <1>1, ValidIs
<1>4. (Valid' <=> Valid) /\ (Warned(Len(Endpoints) + 1)' <=> Warned(Len(Endpoints) + 1))
  BY <1>2 DEF Valid, Warned, Endpoints, Key
<1>5. Within'
  BY <1>1, <1>2 DEF Within, Endpoints
<1>6. Counted'
  BY <1>1, <1>2, <1>3, <1>4 DEF Counted, Serving
<1>7. OneVerdict'
  BY <1>2 DEF OneVerdict
<1> QED BY <1>5, <1>6, <1>7 DEF Judged

LEMMA VerdictKeeps ==
  ASSUME Judged, Verdict
  PROVE  Judged'
<1>1. phase = "verdict" /\ i = 1 /\ (errors = 0 <=> Valid) /\ (errors = 0 => Warned(Len(Endpoints) + 1)) /\ errors \in Nat
  BY DEF Verdict, Judged, Counted, Within, Serving
<1>2. CASE opts.json /\ Exit(IF ReportOk THEN 0 ELSE 1)
  BY <1>1, <1>2, ExitKeeps DEF ReportOk
<1>3. CASE errors > 0 /\ Exit(1)
  BY <1>1, <1>3, ExitKeeps
<1>4. CASE errors = 0 /\ Exit(0)
  BY <1>1, <1>4, ExitKeeps
<1>5. CASE ~opts.json /\ errors = 0 /\ ~opts.check /\ Goto("resolve")
  <2>1. phase' = "resolve" /\ UNCHANGED <<opts, file, i, warned, errors>>
    BY <1>5, GotoDoes
  <2>2. (Valid' <=> Valid) /\ (Warned(Len(Endpoints) + 1)' <=> Warned(Len(Endpoints) + 1))
    BY <2>1 DEF Valid, Warned, Endpoints, Key
  <2>3. Within'
    BY <2>1 DEF Judged, Within, Endpoints, Serving
  <2>4. Counted'
    BY <1>1, <1>5, <2>1, <2>2 DEF Counted, Serving
  <2>5. OneVerdict'
    BY <1>1, <1>5, <2>1, <2>2 DEF OneVerdict
  <2> QED BY <2>3, <2>4, <2>5 DEF Judged
<1> QED BY <1>2, <1>3, <1>4, <1>5 DEF Verdict

\* Whatever a server that is not asked to check does, it says nothing of the file.
LEMMA ServeKeeps ==
  ASSUME Judged,
         Resolve \/ MergeEndpoint \/ MergeDone \/ MountRoute \/ RouteDone \/ Bind \/ Request
  PROVE  Judged'
<1>1. phase \in Serving
  BY DEF Resolve, MergeEndpoint, MergeDone, MountRoute, RouteDone, Bind, Request, Serving
<1>2. ~opts.check /\ Within
  BY <1>1 DEF Judged, Counted
<1>3. CASE \E status : Exit(status)
  BY <1>2, <1>3, ExitKeeps
<1>4. CASE \E next \in Serving : Goto(next)
  <2>1. phase' \in Serving /\ UNCHANGED <<opts, file, i, seen, warned, errors>>
    BY <1>4, GotoDoes
  <2> QED BY <1>1, <1>2, <2>1, ServingKeeps DEF Within
<1>5. CASE (MergeEndpoint \/ MountRoute \/ Request) /\ ~\E status : Exit(status)
  <2>1. /\ phase' = phase /\ UNCHANGED <<opts, file, seen, warned, errors>>
        /\ i' = i \/ (i' = i + 1 /\ i =< Len(Endpoints))
    BY <1>5 DEF MergeEndpoint, MountRoute, Request
  <2>2. i' \in Nat /\ 1 =< i' /\ i' =< Len(Endpoints) + 1
    BY <1>2, <2>1, FileIs DEF Within
  <2> QED BY <1>1, <2>1, <2>2, ServingKeeps
<1>6. CASE Resolve \/ MergeDone \/ RouteDone \/ Bind
  BY <1>3, <1>4, <1>6 DEF Resolve, MergeDone, RouteDone, Bind, Serving
<1> QED BY <1>3, <1>5, <1>6

LEMMA JudgedStays ==
  ASSUME Judged, Next \/ UNCHANGED startVars
  PROVE  Judged'
<1>1. CASE UNCHANGED startVars
  <2>1. (Valid' <=> Valid) /\ (Clean(i)' <=> Clean(i)) /\ (Warned(i)' <=> Warned(i))
        /\ (Warned(Len(Endpoints) + 1)' <=> Warned(Len(Endpoints) + 1))
        /\ {Key(Endpoints[k]) : k \in 1..(i - 1)}' = {Key(Endpoints[k]) : k \in 1..(i - 1)}
    BY <1>1 DEF startVars, Valid, Clean, Warned, Endpoints, Key
  <2>2. Within'
    BY <1>1 DEF startVars, Judged, Within, Endpoints
  <2>3. Counted'
    BY <1>1, <2>1 DEF startVars, Judged, Counted
  <2>4. OneVerdict'
    BY <1>1, <2>1 DEF startVars, Judged, OneVerdict
  <2> QED BY <2>2, <2>3, <2>4 DEF Judged
<1> QED BY <1>1, ArgsKeep, ReadKeeps, CheckKeeps, CheckDoneKeeps, VerdictKeeps, ServeKeeps DEF Next

LEMMA JudgedStarts ==
  ASSUME Init
  PROVE  Judged
<1>1. Within
  BY ScenarioAssumption DEF Init, Within, Endpoints
<1> QED BY <1>1 DEF Init, Judged, Counted, OneVerdict, Serving

\* The exit code of --check says whether the file is free of errors, the same with
\* --json, and only a file without errors is served (main.rs:106-157).
THEOREM OneVerdictAlways == Spec => []OneVerdict
<1>1. Init => Judged
  BY JudgedStarts
<1>2. Judged /\ [Next]_startVars => Judged'
  BY JudgedStays
<1>3. Judged => OneVerdict
  BY DEF Judged
<1> QED BY <1>1, <1>2, <1>3, PTL DEF Spec

----------------------------------------------------------------------------
(* The routes. *)

PathOf(k) == AxumPath(Endpoints[k].path)
MethodOf(k) == Endpoints[k].method

\* routes is the inverse of the endpoints before n.
Routed(n) ==
  /\ \A p \in DOMAIN routes :
       /\ DOMAIN routes[p] # {}
       /\ \A m \in DOMAIN routes[p] :
            routes[p][m] \in 1..(n - 1) /\ PathOf(routes[p][m]) = p /\ MethodOf(routes[p][m]) = m
  /\ \A k \in 1..(n - 1) :
       /\ PathOf(k) \in DOMAIN routes /\ MethodOf(k) \in DOMAIN routes[PathOf(k)]
       /\ routes[PathOf(k)][MethodOf(k)] = k

\* What is mounted is in routes and fits together.
Fits ==
  /\ DOMAIN router \subseteq DOMAIN routes
  /\ \A p \in DOMAIN router : router[p] = routes[p] /\ \A q \in DOMAIN router : ~Conflict(p, q)

Clashes == \E j, k \in DOMAIN Endpoints : j < k /\ Clash(j, k)

Tables ==
  /\ phase \in {"verdict", "resolve"} => i = 1
  /\ phase \notin {"merge", "route", "bind", "listening", "exited"} => routes = <<>> /\ router = <<>>
  /\ phase = "merge" => Routed(i) /\ router = <<>>
  /\ phase \in {"route", "bind", "listening"} => i = Len(Endpoints) + 1 /\ Routed(i) /\ Fits
  /\ phase \in {"bind", "listening"} => DOMAIN router = DOMAIN routes
  /\ phase # "exited" => code = 0
  /\ code = 101 => Clashes
  /\ MergePanicWarned

Sound == Judged /\ Tables

LEMMA ConflictIsMutual ==
  ASSUME NEW p, NEW q, Conflict(p, q)
  PROVE  Conflict(q, p)
  BY DEF Conflict

\* The file does not change, and what is said of it does not.
LEMMA FileStays ==
  ASSUME file' = file
  PROVE  /\ Endpoints' = Endpoints /\ (Clashes' <=> Clashes)
         /\ \A k : PathOf(k)' = PathOf(k) /\ MethodOf(k)' = MethodOf(k)
<1>1. Endpoints' = Endpoints
  BY DEF Endpoints
<1>2. \A j, k : Clash(j, k)' <=> Clash(j, k)
  BY <1>1 DEF Clash
<1> QED BY <1>1, <1>2 DEF Clashes, PathOf, MethodOf

\* A program that ends otherwise than by a panic.
LEMMA EndsQuietly ==
  ASSUME Tables, NEW status, Exit(status), status # 101
  PROVE  Tables'
<1>1. phase' = "exited" /\ code' = status
  BY ExitDoes
<1> QED BY <1>1 DEF Tables, MergePanicWarned

LEMMA PanicsRightly ==
  ASSUME Tables, Exit(101), Clashes,
         i =< Len(Endpoints) =>
           \/ i \in warned
           \/ \E j \in 1..(i - 1) :
                /\ Endpoints[j].method = Endpoints[i].method
                /\ AxumPath(Endpoints[j].path) = AxumPath(Endpoints[i].path)
                /\ NormalizePath(Endpoints[j].path) # NormalizePath(Endpoints[i].path)
  PROVE  Tables'
<1>1. phase' = "exited" /\ code' = 101 /\ UNCHANGED <<file, i, warned>>
  BY ExitDoes
<1>2. Endpoints' = Endpoints /\ (Clashes' <=> Clashes)
  BY <1>1, FileStays
<1>3. \A j, k : Clash(j, k)' <=> Clash(j, k)
  BY <1>2 DEF Clash
<1>4. MergePanicWarned'
  BY <1>1, <1>2, <1>3 DEF MergePanicWarned
<1> QED BY <1>1, <1>2, <1>4 DEF Tables

\* Before the merge there are no routes.
LEMMA EarlyTables ==
  ASSUME Sound, ReadArg \/ Usage \/ Read \/ CheckEndpoint \/ CheckDone \/ Verdict \/ Resolve
  PROVE  Tables'
<1>1. phase \in {"args", "read", "check", "verdict", "resolve"}
  BY DEF ReadArg, Usage, Read, CheckEndpoint, CheckDone, Verdict, Resolve
<1>2. routes = <<>> /\ router = <<>> /\ code = 0 /\ Tables /\ Within
  BY <1>1 DEF Sound, Tables, Judged
<1>3. CASE \E status : status # 101 /\ Exit(status)
  BY <1>2, <1>3, EndsQuietly
<1>4. CASE phase' \in {"args", "read", "check"} /\ UNCHANGED <<routes, router, code>>
  BY <1>2, <1>4 DEF Tables, MergePanicWarned
<1>5. CASE phase' \in {"verdict", "resolve"} /\ i' = 1 /\ UNCHANGED <<routes, router, code>>
  BY <1>2, <1>5 DEF Tables, MergePanicWarned
<1>6. CASE phase' = "merge" /\ i' = 1 /\ UNCHANGED <<routes, router, code>>
  <2>1. Routed(i)'
    BY <1>2, <1>6 DEF Routed
  <2> QED BY <1>2, <1>6, <2>1 DEF Tables, MergePanicWarned
<1>7. CASE ReadArg
  <2>1. CASE Exit(0) \/ Exit(2)
    BY <1>3, <2>1
  <2>2. CASE ~(Exit(0) \/ Exit(2))
    BY <1>4, <1>7, <2>2 DEF ReadArg
  <2> QED BY <2>1, <2>2
<1>8. CASE Usage
  BY <1>3, <1>4, <1>8, GotoDoes DEF Usage
<1>9. CASE Read
  <2>1. i = 1
    BY <1>9 DEF Read, Sound, Judged, Counted
  <2> QED BY <1>3, <1>4, <1>5, <1>9, <2>1 DEF Read
<1>10. CASE CheckEndpoint
  BY <1>4, <1>10 DEF CheckEndpoint
<1>11. CASE CheckDone
  BY <1>5, <1>11 DEF CheckDone
<1>12. CASE Verdict
  <2>1. i = 1
    BY <1>2, <1>12 DEF Verdict, Tables
  <2>2. Exit(0) \/ Exit(1) \/ Goto("resolve")
    BY <1>12 DEF Verdict
  <2> QED BY <1>3, <1>5, <2>1, <2>2, GotoDoes
<1>13. CASE Resolve
  <2>1. i = 1
    BY <1>2, <1>13 DEF Resolve, Tables
  <2>2. Exit(1) \/ Goto("merge")
    BY <1>13 DEF Resolve
  <2> QED BY <1>3, <1>6, <2>1, <2>2, GotoDoes
<1> QED BY <1>7, <1>8, <1>9, <1>10, <1>11, <1>12, <1>13

LEMMA MergeTables ==
  ASSUME Sound, MergeEndpoint
  PROVE  Tables'
<1> DEFINE path == PathOf(i)
           method == MethodOf(i)
<1>1. phase = "merge" /\ i =< Len(Endpoints) /\ Tables /\ Routed(i) /\ router = <<>> /\ code = 0
  BY DEF MergeEndpoint, Sound, Tables
<1>2. /\ i \in Nat /\ 1 =< i /\ Len(Endpoints) \in Nat /\ DOMAIN Endpoints = 1..Len(Endpoints)
      /\ Warned(Len(Endpoints) + 1)
  BY <1>1, FileIs DEF Sound, Judged, Within, Counted, Serving
<1>3. CASE method \in DOMAIN Mounted(path) /\ Exit(101)
  <2>1. path \in DOMAIN routes /\ Mounted(path) = routes[path]
    BY <1>3 DEF Mounted
  <2> DEFINE j == routes[path][method]
  <2>2. j \in 1..(i - 1) /\ PathOf(j) = path /\ MethodOf(j) = method
    BY <1>1, <1>3, <2>1 DEF Routed
  <2>3. Clash(j, i) /\ j < i /\ j \in DOMAIN Endpoints /\ i \in DOMAIN Endpoints
    BY <1>1, <1>2, <2>2 DEF Clash, PathOf, MethodOf
  <2>4. Clashes
    BY <2>3 DEF Clashes
  <2>5. NormalizePath(Endpoints[j].path) = NormalizePath(Endpoints[i].path) => i \in warned
    <3>1. ASSUME NormalizePath(Endpoints[j].path) = NormalizePath(Endpoints[i].path)
          PROVE  Key(Endpoints[j]) = Key(Endpoints[i])
      BY <2>2, <3>1 DEF Key, MethodOf
    <3>2. i \in 1..((Len(Endpoints) + 1) - 1)
      BY <1>1, <1>2
    <3> QED BY <1>2, <2>2, <3>1, <3>2 DEF Warned
  <2>6. AxumPath(Endpoints[j].path) = AxumPath(Endpoints[i].path) /\ Endpoints[j].method = Endpoints[i].method
    BY <2>2 DEF PathOf, MethodOf
  <2> QED BY <1>1, <1>3, <2>2, <2>4, <2>5, <2>6, PanicsRightly
<1>4. CASE /\ method \notin DOMAIN Mounted(path)
           /\ routes' = With(routes, path, With(Mounted(path), method, i)) /\ i' = i + 1
           /\ UNCHANGED <<phase, file, router, code>>
  <2> DEFINE row == With(Mounted(path), method, i)
  <2>1. /\ DOMAIN routes' = DOMAIN routes \cup {path} /\ routes'[path] = row
        /\ \A p \in DOMAIN routes : p # path => routes'[p] = routes[p]
    <3> HIDE DEF path, row
    <3>1. routes' = With(routes, path, row)
      BY <1>4 DEF row
    <3> QED BY <3>1 DEF With
  <2>2. /\ DOMAIN row = DOMAIN Mounted(path) \cup {method} /\ row[method] = i
        /\ \A m \in DOMAIN Mounted(path) : row[m] = Mounted(path)[m]
    <3> HIDE DEF path, method
    <3>1. \A m \in DOMAIN Mounted(path) : m # method
      BY <1>4
    <3> QED BY <3>1 DEF With
  <2>3. /\ path \in DOMAIN routes => Mounted(path) = routes[path]
        /\ path \notin DOMAIN routes => DOMAIN Mounted(path) = {}
    BY DEF Mounted
  <2>4. 1..(i' - 1) = 1..(i - 1) \cup {i}
    BY <1>2, <1>4
  <2>5. \A k : PathOf(k)' = PathOf(k) /\ MethodOf(k)' = MethodOf(k)
    BY <1>4, FileStays
  <2> HIDE DEF path, method, row
  <2>6. ASSUME NEW p \in DOMAIN routes'
        PROVE  /\ DOMAIN routes'[p] # {}
               /\ \A m \in DOMAIN routes'[p] :
                    /\ routes'[p][m] \in 1..(i' - 1)
                    /\ PathOf(routes'[p][m]) = p /\ MethodOf(routes'[p][m]) = m
    <3>1. CASE p # path
      BY <1>1, <2>1, <2>4, <3>1 DEF Routed
    <3>2. CASE p = path
      <4>1. ASSUME NEW m \in DOMAIN row
            PROVE  row[m] \in 1..(i' - 1) /\ PathOf(row[m]) = path /\ MethodOf(row[m]) = m
        <5>1. CASE m = method
          BY <2>2, <2>4, <5>1 DEF path, method
        <5>2. CASE m # method
          BY <1>1, <2>2, <2>3, <2>4, <5>2 DEF Routed
        <5> QED BY <5>1, <5>2
      <4> QED BY <2>1, <2>2, <3>2, <4>1
    <3> QED BY <3>1, <3>2
  <2>7. ASSUME NEW k \in 1..(i' - 1)
        PROVE  /\ PathOf(k) \in DOMAIN routes' /\ MethodOf(k) \in DOMAIN routes'[PathOf(k)]
               /\ routes'[PathOf(k)][MethodOf(k)] = k
    <3>1. CASE k = i
      BY <2>1, <2>2, <3>1 DEF path, method
    <3>2. CASE k \in 1..(i - 1) /\ PathOf(k) # path
      BY <1>1, <2>1, <3>2 DEF Routed
    <3>3. CASE k \in 1..(i - 1) /\ PathOf(k) = path
      BY <1>1, <2>1, <2>2, <2>3, <3>3 DEF Routed
    <3> QED BY <2>4, <3>1, <3>2, <3>3
  <2>8. Routed(i)'
    BY <2>5, <2>6, <2>7 DEF Routed
  <2> QED BY <1>1, <1>4, <2>8 DEF Tables, MergePanicWarned
<1> QED BY <1>3, <1>4 DEF MergeEndpoint, PathOf, MethodOf

\* Steps that leave the routes as they are.
LEMMA RoutedStays ==
  ASSUME NEW n, Routed(n), UNCHANGED <<file, routes>>
  PROVE  Routed(n)'
  BY FileStays DEF Routed

LEMMA MountTables ==
  ASSUME Sound, MountRoute
  PROVE  Tables'
<1>1. /\ phase = "route" /\ i = Len(Endpoints) + 1 /\ Tables /\ Routed(i) /\ Fits /\ code = 0
      /\ Len(Endpoints) \in Nat /\ DOMAIN Endpoints = 1..Len(Endpoints)
  BY FileIs DEF MountRoute, Sound, Judged, Tables
<1>2. PICK path \in DOMAIN routes \ DOMAIN router :
        \/ (\E q \in DOMAIN router : Conflict(path, q)) /\ Exit(101)
        \/ /\ \A q \in DOMAIN router : ~Conflict(path, q)
           /\ router' = With(router, path, routes[path])
           /\ UNCHANGED <<phase, file, i, routes, code>>
  BY DEF MountRoute
<1>3. CASE (\E q \in DOMAIN router : Conflict(path, q)) /\ Exit(101)
  <2>1. PICK q \in DOMAIN router : Conflict(path, q)
    BY <1>3
  <2>2. q \in DOMAIN routes /\ q # path
    BY <1>1, <1>2, <2>1 DEF Fits
  <2>3. PICK j \in 1..(i - 1) : PathOf(j) = path
    BY <1>1, <1>2 DEF Routed
  <2>4. PICK k \in 1..(i - 1) : PathOf(k) = q
    BY <1>1, <2>2 DEF Routed
  <2>5. j # k /\ j \in DOMAIN Endpoints /\ k \in DOMAIN Endpoints /\ (j < k \/ k < j)
    BY <1>1, <2>2, <2>3, <2>4
  <2>6. Clash(j, k) /\ Clash(k, j)
    BY <2>1, <2>3, <2>4, ConflictIsMutual DEF Clash, PathOf
  <2>7. Clashes
    BY <2>5, <2>6 DEF Clashes
  <2> QED BY <1>1, <1>3, <2>7, PanicsRightly
<1>4. CASE /\ \A q \in DOMAIN router : ~Conflict(path, q)
           /\ router' = With(router, path, routes[path])
           /\ UNCHANGED <<phase, file, i, routes, code>>
  <2>1. /\ DOMAIN router' = DOMAIN router \cup {path} /\ router'[path] = routes[path]
        /\ \A p \in DOMAIN router : p # path => router'[p] = router[p]
    <3>1. router' = With(router, path, routes[path])
      BY <1>4
    <3> QED BY <3>1 DEF With
  <2>2. ~Conflict(path, path)
    BY DEF Conflict
  <2>3. \A q \in DOMAIN router : ~Conflict(path, q) /\ ~Conflict(q, path)
    BY <1>4, ConflictIsMutual
  <2>4. Fits'
    BY <1>1, <1>2, <1>4, <2>1, <2>2, <2>3 DEF Fits
  <2>5. Routed(i)' /\ Endpoints' = Endpoints
    BY <1>1, <1>4, RoutedStays, FileStays
  <2> QED BY <1>1, <1>4, <2>4, <2>5 DEF Tables, MergePanicWarned
<1> QED BY <1>2, <1>3, <1>4

LEMMA LateTables ==
  ASSUME Sound, MergeDone \/ RouteDone \/ Bind \/ Request
  PROVE  Tables'
<1>1. Tables /\ code = 0 /\ Len(Endpoints) \in Nat /\ i \in Nat /\ i =< Len(Endpoints) + 1
  BY FileIs DEF MergeDone, RouteDone, Bind, Request, Sound, Judged, Within, Tables
<1>2. CASE MergeDone
  <2>1. /\ i = Len(Endpoints) + 1 /\ Routed(i) /\ router = <<>>
        /\ phase' = "route" /\ UNCHANGED <<file, i, routes, router, code>>
    BY <1>1, <1>2, GotoDoes DEF MergeDone, Tables
  <2>2. Routed(i)' /\ Endpoints' = Endpoints /\ Fits'
    BY <2>1, RoutedStays, FileStays DEF Fits
  <2> QED BY <1>1, <2>1, <2>2 DEF Tables, MergePanicWarned
<1>3. CASE Exit(1)
  BY <1>1, <1>3, EndsQuietly
<1>4. CASE /\ phase \in {"route", "bind", "listening"} /\ phase' \in {"bind", "listening"}
           /\ DOMAIN router = DOMAIN routes /\ UNCHANGED <<file, i, routes, router, code>>
  <2>1. Routed(i) /\ Fits /\ i = Len(Endpoints) + 1
    BY <1>1, <1>4 DEF Tables
  <2>2. Routed(i)' /\ Endpoints' = Endpoints /\ Fits'
    BY <1>4, <2>1, RoutedStays, FileStays DEF Fits
  <2> QED BY <1>1, <1>4, <2>1, <2>2 DEF Tables, MergePanicWarned
<1>5. CASE RouteDone
  BY <1>4, <1>5, GotoDoes DEF RouteDone
<1>6. CASE Bind
  BY <1>1, <1>3, <1>4, <1>6, GotoDoes DEF Bind, Tables
<1>7. CASE Request
  BY <1>1, <1>4, <1>7 DEF Request, Tables
<1> QED BY <1>2, <1>5, <1>6, <1>7

LEMMA SoundStays ==
  ASSUME Sound, Next \/ UNCHANGED startVars
  PROVE  Sound'
<1>1. Judged'
  BY JudgedStays DEF Sound
<1>2. CASE UNCHANGED startVars
  <2>1. file' = file /\ UNCHANGED <<phase, i, warned, routes, router, code>>
    BY <1>2 DEF startVars
  <2>2. Endpoints' = Endpoints /\ (Clashes' <=> Clashes) /\ (Routed(i) => Routed(i)')
    BY <2>1, FileStays, RoutedStays
  <2>3. (Fits' <=> Fits) /\ \A j, k : Clash(j, k)' <=> Clash(j, k)
    BY <2>1, <2>2 DEF Fits, Clash
  <2>4. MergePanicWarned'
    BY <2>1, <2>2, <2>3 DEF Sound, Tables, MergePanicWarned
  <2>5. Tables'
    BY <2>1, <2>2, <2>3, <2>4 DEF Sound, Tables
  <2> QED BY <1>1, <2>5 DEF Sound
<1> QED BY <1>1, <1>2, EarlyTables, MergeTables, MountTables, LateTables DEF Next, Sound

LEMMA SoundStarts ==
  ASSUME Init
  PROVE  Sound
  BY JudgedStarts DEF Init, Sound, Tables, MergePanicWarned

\* What the router of a listening server is.
LEMMA RouterIs ==
  ASSUME Sound, phase = "listening"
  PROVE  /\ Len(Endpoints) \in Nat /\ DOMAIN Endpoints = 1..Len(Endpoints)
         /\ \A k \in DOMAIN Endpoints :
              /\ PathOf(k) \in DOMAIN router /\ MethodOf(k) \in DOMAIN router[PathOf(k)]
              /\ router[PathOf(k)][MethodOf(k)] = k
         /\ \A p \in DOMAIN router :
              /\ \E k \in DOMAIN Endpoints : PathOf(k) = p
              /\ \A m \in DOMAIN router[p] :
                   router[p][m] \in DOMAIN Endpoints /\ PathOf(router[p][m]) = p /\ MethodOf(router[p][m]) = m
              /\ \A q \in DOMAIN router : ~Conflict(p, q)
<1>1. /\ Routed(i) /\ Fits /\ DOMAIN router = DOMAIN routes /\ i = Len(Endpoints) + 1
      /\ Len(Endpoints) \in Nat /\ DOMAIN Endpoints = 1..Len(Endpoints)
  BY FileIs DEF Sound, Judged, Tables
<1>2. 1..(i - 1) = DOMAIN Endpoints
  BY <1>1
<1>3. \A k \in DOMAIN Endpoints :
        /\ PathOf(k) \in DOMAIN router /\ MethodOf(k) \in DOMAIN router[PathOf(k)]
        /\ router[PathOf(k)][MethodOf(k)] = k
  BY <1>1, <1>2 DEF Routed, Fits
<1>4. ASSUME NEW p \in DOMAIN router
      PROVE  /\ DOMAIN router[p] # {}
             /\ \A m \in DOMAIN router[p] :
                  router[p][m] \in DOMAIN Endpoints /\ PathOf(router[p][m]) = p /\ MethodOf(router[p][m]) = m
             /\ \A q \in DOMAIN router : ~Conflict(p, q)
  BY <1>1, <1>2 DEF Routed, Fits
<1>5. \A p \in DOMAIN router : \E k \in DOMAIN Endpoints : PathOf(k) = p
  BY <1>4
<1> QED BY <1>1, <1>3, <1>4, <1>5

\* The program panics for a clash of endpoints and for nothing else, in whatever order
\* the routes come: for one method twice on a path, or for paths alike but for the names
\* of their parameters. If it listens, every endpoint is at its own route and method
\* (server.rs:72-98).
THEOREM MountsAlwaysAllOrPanics == Spec => []MountsAllOrPanics
<1>1. Init => Sound
  BY SoundStarts
<1>2. Sound /\ [Next]_startVars => Sound'
  BY SoundStays
<1>3. Sound => MountsAllOrPanics
  <2>1. SUFFICES ASSUME Sound, phase = "listening", NEW k \in DOMAIN Endpoints
                 PROVE  /\ \A j \in 1..(k - 1) : ~Clash(j, k)
                        /\ PathOf(k) \in DOMAIN router /\ MethodOf(k) \in DOMAIN router[PathOf(k)]
                        /\ router[PathOf(k)][MethodOf(k)] = k
    BY DEF Sound, Tables, Clashes, MountsAllOrPanics, PathOf, MethodOf
  <2>2. ASSUME NEW j \in 1..(k - 1) PROVE ~Clash(j, k)
    <3>1. j \in DOMAIN Endpoints /\ j # k
      BY <2>1, RouterIs
    <3>2. ~(PathOf(j) = PathOf(k) /\ MethodOf(j) = MethodOf(k))
      BY <2>1, <3>1, RouterIs
    <3>3. ~Conflict(PathOf(j), PathOf(k))
      BY <2>1, <3>1, RouterIs
    <3> QED BY <3>2, <3>3 DEF Clash, PathOf, MethodOf
  <2> QED BY <2>1, <2>2, RouterIs
<1> QED BY <1>1, <1>2, <1>3, PTL DEF Spec

\* Of the endpoints that panic in the merge, the checker has warned of all but those
\* whose paths differ in an empty segment (check.rs:13-38, server.rs:90).
THEOREM MergePanicAlwaysWarned == Spec => []MergePanicWarned
<1>1. Init => Sound
  BY SoundStarts
<1>2. Sound /\ [Next]_startVars => Sound'
  BY SoundStays
<1>3. Sound => MergePanicWarned
  BY DEF Sound, Tables
<1> QED BY <1>1, <1>2, <1>3, PTL DEF Spec

----------------------------------------------------------------------------
(* The routing of a request. *)

Below == {ss \in Nat \X Nat : ss[1] < ss[2]}

\* A set of numbers has a least member.
LEMMA Least ==
  ASSUME NEW T, T \subseteq Nat, T # {}
  PROVE  \E m \in T : \A k \in T : m =< k
<1>1. IsWellFoundedOn(Below, Nat)
  BY NatLessThanWellFounded DEF OpToRel, Below
<1>2. PICK m \in T : \A k \in T : ~(<<k, m>> \in Below)
  BY <1>1, WFMin
<1>3. ASSUME NEW k \in T PROVE m =< k
  <2>1. k \in Nat /\ m \in Nat
    OBVIOUS
  <2>2. k < m => <<k, m>> \in Below
    BY <2>1 DEF Below
  <2> QED BY <1>2, <2>1, <2>2
<1> QED BY <1>3

\* One round of parse_path's loop.
Keep(path, kept, k) ==
  IF k = 0 THEN <<>>
  ELSE IF path[k].kind = "empty" THEN kept[k - 1]
  ELSE Append(kept[k - 1], path[k])

Loop(path, n, kept) == kept = [k \in 0..n |-> Keep(path, kept, k)]

LEMMA LoopEnds ==
  ASSUME NEW path
  PROVE  \A n \in Nat : \E kept : Loop(path, n, kept)
<1> DEFINE Stuck == {n \in Nat : ~\E kept : Loop(path, n, kept)}
<1>1. SUFFICES ASSUME Stuck # {} PROVE FALSE
  OBVIOUS
<1>2. PICK m \in Stuck : \A k \in Stuck : m =< k
  BY <1>1, Least
<1>3. m # 0
  <2>1. Loop(path, 0, [k \in 0..0 |-> <<>>])
    BY DEF Loop, Keep
  <2> QED BY <2>1
<1>4. m \in Nat /\ m - 1 \in Nat
  BY <1>3
<1>5. PICK kept : Loop(path, m - 1, kept)
  BY <1>2, <1>4
<1> DEFINE more == [k \in 0..m |-> IF k = m THEN Keep(path, kept, m) ELSE kept[k]]
<1>6. ASSUME NEW k \in 0..m PROVE more[k] = Keep(path, more, k)
  <2>1. CASE k = m
    <3>1. more[k - 1] = kept[k - 1]
      BY <1>3, <1>4, <2>1
    <3> QED BY <2>1, <3>1 DEF Keep
  <2>2. CASE k # m
    <3>1. k \in 0..(m - 1) /\ more[k] = kept[k]
      BY <1>4, <2>2
    <3>2. kept[k] = Keep(path, kept, k)
      BY <1>5, <3>1 DEF Loop
    <3>3. k # 0 => more[k - 1] = kept[k - 1]
      BY <1>4, <3>1
    <3> QED BY <3>1, <3>2, <3>3 DEF Keep
  <2> QED BY <2>1, <2>2
<1>7. Loop(path, m, more)
  BY <1>6 DEF Loop
<1> QED BY <1>2, <1>7

Left(path) == {seg \in Segments : seg.kind # "empty" /\ \E k \in DOMAIN path : path[k] = seg}

\* What is left of a path is segments of it.
LEMMA SegmentsAre ==
  ASSUME NEW path \in Seq(Segments)
  PROVE  PathSegments(path) \in Seq(Left(path))
<1> DEFINE kept == CHOOSE f : Loop(path, Len(path), f)
<1>1. PathSegments(path) = kept[Len(path)]
  BY DEF PathSegments, Loop, Keep
<1>2. Loop(path, Len(path), kept)
  BY LoopEnds
<1> HIDE DEF kept
<1> DEFINE Wrong == {k \in 0..Len(path) : kept[k] \notin Seq(Left(path))}
<1>3. ASSUME Wrong # {} PROVE FALSE
  <2>0. Wrong \subseteq Nat
    OBVIOUS
  <2>1. PICK m \in Wrong : \A k \in Wrong : m =< k
    <3> HIDE DEF Wrong
    <3> QED BY <1>3, <2>0, Least
  <2>2. kept[m] = Keep(path, kept, m)
    BY <1>2 DEF Loop
  <2>3. m # 0
    BY <2>2, EmptySeq DEF Keep
  <2>4. m - 1 \in 0..Len(path) /\ m \in 1..Len(path)
    BY <2>3
  <2>5. kept[m - 1] \in Seq(Left(path))
    BY <2>1, <2>4
  <2>6. path[m] \in Segments /\ m \in DOMAIN path
    BY <2>4
  <2>7. path[m].kind # "empty" => path[m] \in Left(path)
    BY <2>6 DEF Left
  <2>8. path[m].kind # "empty" => Append(kept[m - 1], path[m]) \in Seq(Left(path))
    BY <2>5, <2>7, AppendProperties
  <2> QED BY <2>1, <2>2, <2>3, <2>5, <2>8 DEF Keep
<1> QED BY <1>1, <1>3

\* A route is a sequence of literals and parameters.
LEMMA RouteIs ==
  ASSUME NEW path \in Seq(Segments)
  PROVE  /\ AxumPath(path) \in Seq([kind : {"literal", "param"}, name : STRING])
         /\ (\A x \in DOMAIN path : path[x].kind # "param") =>
              \A k \in DOMAIN AxumPath(path) : AxumPath(path)[k].kind = "literal"
<1> DEFINE left == PathSegments(path)
<1>1. left \in Seq(Left(path))
  BY SegmentsAre
<1>2. \A k \in 1..Len(left) : left[k] \in Left(path)
  BY <1>1
<1>3. Len(left) \in Nat /\ DOMAIN left = 1..Len(left)
  BY <1>1
<1> HIDE DEF left
<1>4. AxumPath(path) = [k \in 1..Len(left) |-> Untyped(left[k])]
  BY <1>3 DEF AxumPath, NormalizePath, left
<1>5. \A k \in 1..Len(left) : Untyped(left[k]) \in [kind : {"literal", "param"}, name : STRING]
  BY <1>2 DEF Left, Segments, Untyped
<1>6. AxumPath(path) \in Seq([kind : {"literal", "param"}, name : STRING])
  BY <1>3, <1>4, <1>5
<1>7. ASSUME \A x \in DOMAIN path : path[x].kind # "param", NEW k \in 1..Len(left)
      PROVE  Untyped(left[k]).kind = "literal"
  BY <1>2, <1>7 DEF Left, Segments, Untyped
<1> QED BY <1>3, <1>4, <1>6, <1>7

Routes == Seq([kind : {"literal", "param"}, name : STRING])

LEMMA SamePrefix ==
  ASSUME NEW S, NEW p \in Seq(S), NEW q \in Seq(S), NEW m \in Nat, m =< Len(p), m =< Len(q)
  PROVE  SubSeq(p, 1, m) = SubSeq(q, 1, m) <=> \A j \in 1..m : p[j] = q[j]
<1>1. /\ SubSeq(p, 1, m) \in Seq(S) /\ SubSeq(q, 1, m) \in Seq(S)
      /\ Len(SubSeq(p, 1, m)) = m /\ Len(SubSeq(q, 1, m)) = m
      /\ \A j \in 1..m : SubSeq(p, 1, m)[j] = p[j] /\ SubSeq(q, 1, m)[j] = q[j]
  BY SubSeqProperties
<1> QED BY <1>1, SeqEqual

Shaped == [kind : {"literal", "param"}, name : STRING] \cup {[kind |-> "param", name |-> "any"]}

\* A route's shape has its kinds, and its literals.
LEMMA ShapeIs ==
  ASSUME NEW p \in Routes
  PROVE  /\ Shape(p) \in Seq(Shaped) /\ Len(Shape(p)) = Len(p) /\ DOMAIN Shape(p) = DOMAIN p
         /\ \A k \in DOMAIN p :
              /\ p[k].kind = "literal" => Shape(p)[k] = p[k]
              /\ p[k].kind = "param" => Shape(p)[k] = [kind |-> "param", name |-> "any"]
              /\ p[k] \in [kind : {"literal", "param"}, name : STRING]
<1> DEFINE S == [kind : {"literal", "param"}, name : STRING]
<1>1. Len(p) \in Nat /\ DOMAIN p = 1..Len(p) /\ \A k \in 1..Len(p) : p[k] \in S
  <2>1. p \in Seq(S)
    BY DEF Routes
  <2> HIDE DEF S
  <2> QED BY <2>1, ElementOfSeq
<1>2. Shape(p) = [k \in 1..Len(p) |-> IF p[k].kind = "param" THEN [kind |-> "param", name |-> "any"] ELSE p[k]]
  BY <1>1 DEF Shape
<1>4. \A k \in 1..Len(p) : Shape(p)[k] \in Shaped
  <2>1. SUFFICES ASSUME NEW k \in 1..Len(p) PROVE Shape(p)[k] \in Shaped
    OBVIOUS
  <2>2. Shape(p)[k] = IF p[k].kind = "param" THEN [kind |-> "param", name |-> "any"] ELSE p[k]
    BY <1>2
  <2> HIDE DEF S
  <2> QED BY <1>1, <2>2 DEF S, Shaped
<1>5. Shape(p) \in Seq(Shaped) /\ Len(Shape(p)) = Len(p)
  <2> HIDE DEF S
  <2>1. DOMAIN Shape(p) = 1..Len(p)
    BY <1>2
  <2> QED BY <1>1, <1>2, <1>4, <2>1
<1>6. \A k \in DOMAIN p : /\ p[k].kind = "literal" => Shape(p)[k] = p[k]
                          /\ p[k].kind = "param" => Shape(p)[k] = [kind |-> "param", name |-> "any"]
  BY <1>1, <1>2
<1>7. DOMAIN Shape(p) = DOMAIN p
  BY <1>1, <1>2
<1> QED BY <1>1, <1>5, <1>6, <1>7 DEF Routes

\* The shapes of p and q are the same before k.
Alike(p, q, k) == \A j \in 1..(k - 1) : Shape(p)[j] = Shape(q)[j]

LEMMA PartsAre ==
  ASSUME NEW p \in Routes, NEW q \in Routes, Len(p) = Len(q)
  PROVE  Preferred(p, q) <=>
           \E k \in 1..Len(p) : Alike(p, q, k) /\ p[k].kind = "literal" /\ q[k].kind = "param"
<1>1. DOMAIN p \cap DOMAIN q = 1..Len(p) /\ Len(p) \in Nat
  BY DEF Routes
<1>2. ASSUME NEW k \in 1..Len(p)
      PROVE  SubSeq(Shape(p), 1, k - 1) = SubSeq(Shape(q), 1, k - 1) <=> Alike(p, q, k)
  <2>1. k - 1 \in Nat /\ k - 1 =< Len(Shape(p)) /\ k - 1 =< Len(Shape(q))
    <3>1. Len(Shape(p)) = Len(p) /\ Len(Shape(q)) = Len(q)
      BY ShapeIs
    <3> QED BY <1>1, <3>1
  <2>2. Shape(p) \in Seq(Shaped) /\ Shape(q) \in Seq(Shaped)
    BY ShapeIs
  <2> QED BY <2>1, <2>2, SamePrefix DEF Alike
<1> QED BY <1>1, <1>2 DEF Preferred

LEMMA MatchesInLength ==
  ASSUME NEW p \in Routes, NEW q \in Routes, NEW path, Matches(p, path), Matches(q, path)
  PROVE  Len(p) = Len(q)
<1>1. 1..Len(p) = 1..Len(q) /\ Len(p) \in Nat /\ Len(q) \in Nat
  BY DEF Routes, Matches
<1>2. Len(p) < Len(q) => Len(q) \in 1..Len(q) /\ Len(q) \notin 1..Len(p)
  BY <1>1
<1>3. Len(q) < Len(p) => Len(p) \in 1..Len(p) /\ Len(p) \notin 1..Len(q)
  BY <1>1
<1> QED BY <1>1, <1>2, <1>3

\* Of two routes that match one path, one is preferred or they conflict.
LEMMA OneIsPreferred ==
  ASSUME NEW p \in Routes, NEW q \in Routes, p # q, NEW path, Matches(p, path), Matches(q, path)
  PROVE  Preferred(p, q) \/ Preferred(q, p) \/ Conflict(p, q)
<1>1. /\ DOMAIN p = 1..Len(p) /\ DOMAIN q = 1..Len(q) /\ Len(p) \in Nat /\ Len(q) \in Nat
      /\ DOMAIN p = DOMAIN q
  BY DEF Routes, Matches
<1>2. Len(p) = Len(q)
  BY MatchesInLength
<1> DEFINE Parted == {k \in 1..Len(p) : Shape(p)[k] # Shape(q)[k]}
<1>0. /\ Shape(p) \in Seq(Shaped) /\ Shape(q) \in Seq(Shaped)
      /\ Len(Shape(p)) = Len(p) /\ Len(Shape(q)) = Len(p)
  BY <1>2, ShapeIs
<1>8. Parted = {} => Conflict(p, q)
  <2>1. Parted = {} => Shape(p) = Shape(q)
    BY <1>0, <1>1, SeqEqual
  <2> QED BY <2>1 DEF Conflict
<1> SUFFICES ASSUME Parted # {} PROVE Preferred(p, q) \/ Preferred(q, p)
  BY <1>8
<1>3. Parted # {} /\ Parted \subseteq Nat
  BY <1>1
<1>4. PICK k \in Parted : \A j \in Parted : k =< j
  <2> HIDE DEF Parted
  <2> QED BY <1>3, Least
<1>5. Alike(p, q, k) /\ Alike(q, p, k)
  BY <1>1, <1>4 DEF Alike
<1>6. /\ k \in 1..Len(p) /\ k \in 1..Len(q) /\ Shape(p)[k] # Shape(q)[k]
      /\ \A r \in {p, q} :
           /\ r[k] \in [kind : {"literal", "param"}, name : STRING]
           /\ r[k].kind = "literal" => Shape(r)[k] = r[k]
           /\ r[k].kind = "param" => Shape(r)[k] = [kind |-> "param", name |-> "any"]
  <2>1. k \in 1..Len(p) /\ k \in 1..Len(q) /\ Shape(p)[k] # Shape(q)[k]
    BY <1>2, <1>4
  <2> HIDE DEF Parted
  <2>2. ASSUME NEW r \in Routes, k \in DOMAIN r
        PROVE  /\ r[k] \in [kind : {"literal", "param"}, name : STRING]
               /\ r[k].kind = "literal" => Shape(r)[k] = r[k]
               /\ r[k].kind = "param" => Shape(r)[k] = [kind |-> "param", name |-> "any"]
    BY <2>2, ShapeIs
  <2> QED BY <1>1, <2>1, <2>2
<1> HIDE DEF Parted
<1>7. ~(p[k].kind = "literal" /\ q[k].kind = "literal")
  <2>1. SUFFICES ASSUME p[k].kind = "literal", q[k].kind = "literal" PROVE p[k] = q[k]
    BY <1>6
  <2>2. p[k].name = q[k].name
    BY <1>1, <1>6, <2>1 DEF Matches
  <2>3. \A a, b \in [kind : {"literal", "param"}, name : STRING] : a.kind = b.kind /\ a.name = b.name => a = b
    OBVIOUS
  <2> QED BY <1>6, <2>1, <2>2, <2>3
<1>9. (p[k].kind = "literal" /\ q[k].kind = "param") \/ (q[k].kind = "literal" /\ p[k].kind = "param")
  BY <1>6, <1>7
<1> QED BY <1>2, <1>5, <1>6, <1>9, PartsAre

LEMMA SameShapeSameKind ==
  ASSUME NEW p \in Routes, NEW q \in Routes, Len(p) = Len(q), NEW k \in 1..Len(p), Shape(p)[k] = Shape(q)[k]
  PROVE  p[k].kind = q[k].kind
<1>1. k \in DOMAIN p /\ k \in DOMAIN q
  BY DEF Routes
<1>2. ASSUME NEW r \in Routes, k \in DOMAIN r
      PROVE  r[k].kind \in {"literal", "param"} /\ Shape(r)[k].kind = r[k].kind
  <2>1. /\ r[k] \in [kind : {"literal", "param"}, name : STRING]
        /\ r[k].kind = "literal" => Shape(r)[k] = r[k]
        /\ r[k].kind = "param" => Shape(r)[k] = [kind |-> "param", name |-> "any"]
    BY <1>2, ShapeIs
  <2>2. r[k].kind \in {"literal", "param"}
    BY <2>1
  <2>3. CASE r[k].kind = "param"
    <3>1. Shape(r)[k] = [kind |-> "param", name |-> "any"]
      BY <2>1, <2>3
    <3> QED BY <2>2, <2>3, <3>1
  <2> QED BY <2>1, <2>2, <2>3
<1> QED BY <1>1, <1>2

LEMMA PreferredOrders ==
  ASSUME NEW p \in Routes, NEW q \in Routes, NEW r \in Routes, Len(p) = Len(q), Len(q) = Len(r)
  PROVE  /\ ~Preferred(p, p)
         /\ Preferred(p, q) /\ Preferred(q, r) => Preferred(p, r)
<1>1. Len(p) \in Nat
  BY DEF Routes
<1>2. ~Preferred(p, p)
  BY PartsAre
<1>3. ASSUME Preferred(p, q), Preferred(q, r) PROVE Preferred(p, r)
  <2>1. PICK k \in 1..Len(p) : Alike(p, q, k) /\ p[k].kind = "literal" /\ q[k].kind = "param"
    BY <1>3, PartsAre
  <2>2. PICK l \in 1..Len(p) : Alike(q, r, l) /\ q[l].kind = "literal" /\ r[l].kind = "param"
    BY <1>3, PartsAre
  <2>3. CASE k < l
    <3>0. Alike(p, r, k) /\ Shape(r)[k] = Shape(q)[k]
      BY <1>1, <2>1, <2>2, <2>3 DEF Alike
    <3>1. Alike(p, r, k) /\ r[k].kind = q[k].kind
      BY <2>1, <3>0, SameShapeSameKind
    <3> QED BY <2>1, <3>1, PartsAre
  <2>4. CASE l < k
    <3>0. Alike(p, r, l) /\ Shape(p)[l] = Shape(q)[l]
      BY <1>1, <2>1, <2>2, <2>4 DEF Alike
    <3>1. Alike(p, r, l) /\ p[l].kind = q[l].kind
      BY <2>2, <3>0, SameShapeSameKind
    <3> QED BY <2>2, <3>1, PartsAre
  <2>5. k # l
    BY <2>1, <2>2
  <2> QED BY <1>1, <2>3, <2>4, <2>5
<1> QED BY <1>2, <1>3

LEMMA PathsAreRoutes ==
  ASSUME Within, NEW k \in DOMAIN Endpoints
  PROVE  /\ PathOf(k) \in Routes
         /\ (\A x \in DOMAIN Endpoints[k].path : Endpoints[k].path[x].kind # "param") =>
              \A x \in DOMAIN PathOf(k) : PathOf(k)[x].kind = "literal"
<1>1. Endpoints[k].path \in Seq(Segments)
  BY ScenarioAssumption DEF Within, Endpoints
<1> QED BY <1>1, RouteIs DEF PathOf, Routes

\* Among the endpoints that match there is one that no other is preferred to.
LEMMA SomeIsBest ==
  ASSUME Within, NEW path, NEW k \in DOMAIN Endpoints, Matches(PathOf(k), path)
  PROVE  \E b \in DOMAIN Endpoints :
           /\ Matches(PathOf(b), path)
           /\ \A j \in DOMAIN Endpoints : Matches(PathOf(j), path) => ~Preferred(PathOf(j), PathOf(b))
<1> DEFINE N == Len(Endpoints)
           Fit == {j \in 1..N : Matches(PathOf(j), path)}
           Best(b, n) == \A j \in Fit : j =< n => ~Preferred(PathOf(j), PathOf(b))
           Bad == {n \in 0..N : (\E j \in Fit : j =< n) /\ ~\E b \in Fit : b =< n /\ Best(b, n)}
<1>1. N \in Nat /\ DOMAIN Endpoints = 1..N
  BY FileIs
<1>2. \A a, b, c \in Fit :
        /\ ~Preferred(PathOf(a), PathOf(a))
        /\ Preferred(PathOf(a), PathOf(b)) /\ Preferred(PathOf(b), PathOf(c)) => Preferred(PathOf(a), PathOf(c))
  <2>1. \A a \in Fit : PathOf(a) \in Routes
    BY <1>1, PathsAreRoutes
  <2>2. \A a, b \in Fit : Len(PathOf(a)) = Len(PathOf(b))
    BY <2>1, MatchesInLength
  <2> HIDE DEF Fit
  <2> QED BY <2>1, <2>2, PreferredOrders
<1>3. ASSUME Bad # {} PROVE FALSE
  <2>1. Bad \subseteq Nat
    BY <1>1
  <2>2. PICK m \in Bad : \A n \in Bad : m =< n
    <3> HIDE DEF Bad
    <3> QED BY <1>3, <2>1, Least
  <2>3. PICK j \in Fit : j =< m
    BY <2>2
  <2>4. m \in 1..N /\ m - 1 \in 0..N
    BY <1>1, <2>2, <2>3
  <2>5. (\E x \in Fit : x =< m - 1) => \E b \in Fit : b =< m - 1 /\ Best(b, m - 1)
    <3>1. ~(m =< m - 1)
      BY <2>4
    <3>2. m - 1 \notin Bad
      <4> HIDE DEF Bad
      <4> QED BY <2>2, <3>1
    <3> QED BY <2>4, <3>2
  <2>6. \A x \in Fit : x =< m => x = m \/ x =< m - 1
    BY <1>1, <2>4
  <2>7. CASE m \notin Fit
    <3>1. PICK b \in Fit : b =< m - 1 /\ Best(b, m - 1)
      BY <2>3, <2>5, <2>6, <2>7
    <3>2. b =< m /\ Best(b, m)
      BY <1>1, <2>4, <2>6, <2>7, <3>1
    <3> QED BY <2>2, <3>2
  <2>8. CASE m \in Fit /\ \A x \in Fit : ~(x =< m - 1)
    <3>1. Best(m, m)
      BY <1>2, <2>6, <2>8
    <3> QED BY <2>2, <2>4, <2>8, <3>1
  <2>9. CASE m \in Fit /\ \E x \in Fit : x =< m - 1
    <3>1. PICK b \in Fit : b =< m - 1 /\ Best(b, m - 1)
      BY <2>5, <2>9
    <3>2. CASE Preferred(PathOf(m), PathOf(b))
      <4>1. Best(m, m)
        BY <1>2, <2>6, <2>9, <3>1, <3>2
      <4> QED BY <2>2, <2>4, <2>9, <4>1
    <3>3. CASE ~Preferred(PathOf(m), PathOf(b))
      <4>1. b =< m /\ Best(b, m)
        BY <1>1, <2>4, <2>6, <3>1, <3>3
      <4> QED BY <2>2, <4>1
    <3> QED BY <3>2, <3>3
  <2> QED BY <2>7, <2>8, <2>9
<1>4. k \in Fit /\ k =< N /\ N \in 0..N
  BY <1>1
<1>5. PICK b \in Fit : Best(b, N)
  BY <1>3, <1>4
<1> QED BY <1>1, <1>5

\* Nobody is answered before the server listens.
Answered == (phase # "listening" => handled = {}) /\ RightHandler

LEMMA AtMostOneIs ==
  ASSUME NEW S, \A x, y \in S : x = y
  PROVE  Cardinality(S) =< 1
<1>1. CASE S = {}
  <2>1. Cardinality(S) = 0
    BY <1>1, FS_EmptySet
  <2> QED BY <2>1
<1>2. ASSUME NEW x \in S PROVE Cardinality(S) =< 1
  <2>1. S = {x}
    OBVIOUS
  <2>2. Cardinality(S) = 1
    BY <2>1, FS_Singleton
  <2> QED BY <2>2
<1> QED BY <1>1, <1>2

LEMMA RequestAnswers ==
  ASSUME Sound, Request
  PROVE  RightHandler'
<1>1. phase = "listening" /\ Endpoints' = Endpoints
  BY DEF Request, Endpoints
<1>2. PICK req \in Requests :
        LET found == RouteOf(req.path)
            who == UNION {{router[p][n] : n \in {Served(req.method)} \cap DOMAIN router[p]} : p \in found}
        IN handled' = {[req |-> req, who |-> who, status |-> IF found = {} THEN 404 ELSE IF who = {} THEN 405 ELSE 200]}
  BY DEF Request
<1> DEFINE found == RouteOf(req.path)
           method == Served(req.method)
           who == UNION {{router[p][n] : n \in {method} \cap DOMAIN router[p]} : p \in found}
           status == IF found = {} THEN 404 ELSE IF who = {} THEN 405 ELSE 200
           fits(k) == MethodOf(k) = method /\ Matches(PathOf(k), req.path)
           literal(k) == \A x \in DOMAIN Endpoints[k].path : Endpoints[k].path[x].kind # "param"
<1>3. Within /\ \A k \in DOMAIN Endpoints : PathOf(k) \in Routes
  BY PathsAreRoutes DEF Sound, Judged
<1>4. \A p \in DOMAIN router : p \in Routes
  BY <1>1, <1>3, RouterIs
<1>5. \A p \in found : p \in DOMAIN router /\ Matches(p, req.path)
  BY DEF RouteOf
\* One route is found at most.
<1>6. \A p, q \in found : p = q
  BY <1>1, <1>4, <1>5, OneIsPreferred, RouterIs DEF RouteOf
<1>7. \A k \in who : k \in DOMAIN Endpoints /\ PathOf(k) \in found /\ MethodOf(k) = method
  BY <1>1, <1>5, RouterIs
<1>8. \A k \in DOMAIN Endpoints : PathOf(k) \in found /\ MethodOf(k) = method => k \in who
  BY <1>1, RouterIs
<1>9. \A k, n \in who : k = n
  BY <1>1, <1>6, <1>7, RouterIs
<1>10. \A k \in who : fits(k)
  BY <1>5, <1>7
<1>11. Cardinality(who) =< 1
  <2> HIDE DEF who
  <2> QED BY <1>9, AtMostOneIs
\* No route is preferred to a literal one.
<1>12. ASSUME NEW k \in DOMAIN Endpoints, fits(k), literal(k) PROVE who = {k}
  <2>1. PathOf(k) \in DOMAIN router /\ \A x \in DOMAIN PathOf(k) : PathOf(k)[x].kind = "literal"
    BY <1>1, <1>3, <1>12, PathsAreRoutes, RouterIs
  <2>2. \A q : ~Preferred(q, PathOf(k))
    BY <2>1 DEF Preferred
  <2>3. PathOf(k) \in found
    BY <1>12, <2>1, <2>2 DEF RouteOf
  <2>4. k \in who
    BY <1>8, <1>12, <2>3
  <2> HIDE DEF who
  <2> QED BY <1>9, <2>4
<1>13. ASSUME NEW k \in DOMAIN Endpoints, fits(k) PROVE found # {}
  <2>1. PICK b \in DOMAIN Endpoints :
          /\ Matches(PathOf(b), req.path)
          /\ \A j \in DOMAIN Endpoints : Matches(PathOf(j), req.path) => ~Preferred(PathOf(j), PathOf(b))
    BY <1>3, <1>13, SomeIsBest
  <2>2. PathOf(b) \in DOMAIN router
        /\ \A q \in DOMAIN router : \E j \in DOMAIN Endpoints : PathOf(j) = q
    BY <1>1, RouterIs
  <2>3. PathOf(b) \in RouteOf(req.path)
    BY <2>1, <2>2 DEF RouteOf
  <2> QED BY <2>3
<1>14. ASSUME who = {}, NEW k \in DOMAIN Endpoints, fits(k)
       PROVE  \E n \in DOMAIN Endpoints :
                /\ ~fits(n) /\ Matches(PathOf(n), req.path) /\ Preferred(PathOf(n), PathOf(k))
  <2>1. PathOf(k) \in DOMAIN router /\ PathOf(k) \notin found
    BY <1>1, <1>8, <1>14, RouterIs
  <2>2. PICK b \in DOMAIN Endpoints :
          /\ Matches(PathOf(b), req.path)
          /\ \A j \in DOMAIN Endpoints : Matches(PathOf(j), req.path) => ~Preferred(PathOf(j), PathOf(b))
    BY <1>3, <1>14, SomeIsBest
  <2>3. PathOf(b) \in found
    BY <1>1, <2>2, RouterIs DEF RouteOf
  <2>4. ~fits(b) /\ PathOf(b) # PathOf(k)
    <3> HIDE DEF found
    <3> QED BY <1>8, <1>14, <2>1, <2>3
  <2>5. ~Preferred(PathOf(k), PathOf(b)) /\ ~Conflict(PathOf(b), PathOf(k)) /\ PathOf(b) \in Routes /\ PathOf(k) \in Routes
    BY <1>1, <1>3, <1>14, <2>1, <2>2, RouterIs
  <2>6. Preferred(PathOf(b), PathOf(k))
    BY <1>14, <2>2, <2>4, <2>5, OneIsPreferred
  <2> QED BY <2>2, <2>4, <2>6
<1>15. handled' = {[req |-> req, who |-> who, status |-> status]}
  BY <1>2
<1>16. /\ status = 404 => found = {}
       /\ status = 405 => who = {}
  OBVIOUS
<1> DEFINE h == [req |-> req, who |-> who, status |-> status]
<1>17. h.req = req /\ h.who = who /\ h.status = status
  OBVIOUS
<1> HIDE DEF found, who, status, h
<1>18. \A k \in DOMAIN Endpoints :
         fits(k) <=> Endpoints[k].method = Served(h.req.method) /\ Matches(AxumPath(Endpoints[k].path), h.req.path)
  BY <1>17 DEF MethodOf, PathOf
<1>19. handled' = {h}
  BY <1>15 DEF h
<1> QED
  BY <1>1, <1>7, <1>10, <1>11, <1>12, <1>13, <1>14, <1>16, <1>17, <1>18, <1>19
     DEF RightHandler, PathOf, MethodOf

LEMMA AnsweredStays ==
  ASSUME Sound, Answered, Next \/ UNCHANGED startVars
  PROVE  Answered'
<1>1. CASE Request
  BY <1>1, RequestAnswers DEF Answered, Request
<1>2. CASE UNCHANGED startVars
  <2>1. phase' = phase /\ handled' = handled /\ Endpoints' = Endpoints
    BY <1>2 DEF startVars, Endpoints
  <2> QED BY <2>1 DEF Answered, RightHandler
<1>3. CASE Next /\ ~Request
  <2>1. phase # "listening" /\ handled' = handled
    BY <1>3, ExitDoes, GotoDoes DEF Next, ReadArg, Usage, Read, CheckEndpoint, CheckDone, Verdict, Resolve,
       MergeEndpoint, MergeDone, MountRoute, RouteDone, Bind, Exit, Goto
  <2>2. handled' = {}
    BY <2>1 DEF Answered
  <2> QED BY <2>2 DEF Answered, RightHandler
<1> QED BY <1>1, <1>2, <1>3

\* A request is given to at most one endpoint, of its method and a path that matches; to
\* the one whose path it is literally, if there is one; and to none only if none matches
\* or a preferred route that matches lacks the method (server.rs:72-98, 130-143).
THEOREM AlwaysRightHandler == Spec => []RightHandler
<1>1. Init => Sound /\ Answered
  BY SoundStarts DEF Init, Answered, RightHandler
<1>2. Sound /\ Answered /\ [Next]_startVars => (Sound /\ Answered)'
  BY SoundStays, AnsweredStays
<1>3. Answered => RightHandler
  BY DEF Answered
<1> QED BY <1>1, <1>2, <1>3, PTL DEF Spec
=============================================================================
