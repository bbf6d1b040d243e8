----------------------------- MODULE MCStartup -----------------------------
(* Command lines of up to three words, and one of five, on five files, and files of up to three *)
(* endpoints whose paths are alike.                                         *)
EXTENDS Startup

lit(n) == [kind |-> "literal", name |-> n, ty |-> ""]
param(n, ty) == [kind |-> "param", name |-> n, ty |-> ty]
empty == [kind |-> "empty", name |-> "", ty |-> ""]

endpoint(method, path, errs) == [method |-> method, path |-> path, errors |-> errs]
textFile(readable, parseErrs, endpoints, statics) ==
  [readable |-> readable, parseErrors |-> parseErrs, endpoints |-> endpoints, statics |-> statics]

Paths ==
  {<<empty>>, <<lit("a")>>, <<lit("a"), empty>>, <<param("x", "int")>>, <<param("x", "uuid")>>,
   <<param("y", "int")>>, <<param("x", "int"), lit("a")>>, <<param("y", "int"), lit("b")>>,
   <<param("y", "int"), param("z", "int")>>, <<lit("a"), param("y", "int")>>, <<lit("a"), lit("b")>>}

Several ==
  {<<endpoint(m, p, 0), endpoint(n, q, 0)>> : m, n \in {"Get", "Post"}, p, q \in Paths}
  \cup {<<endpoint("Get", p, 0), endpoint("Post", q, 0), endpoint(m, r, 0)>> :
          m \in {"Get", "Post"}, p, q, r \in Paths}

Words == {"--check", "--json", "--dry-run", "-q", "path", "--addr", "address", "--help", "--unknown"}
Lines ==
  {l \in UNION {[1..n -> Words] : n \in 0..3} :
     \A k \in DOMAIN l : l[k] = "address" => k > 1 /\ l[k - 1] = "--addr"}
  \cup {<<"--addr", "address", "path", "--check", "--json">>}

One(errs) == <<endpoint("Get", <<lit("a")>>, errs)>>
Files ==
  {textFile(FALSE, 0, <<>>, {})}
  \cup {textFile(TRUE, p, One(e), {}) : p \in 0..1, e \in 0..1}

MCScenarios ==
  {[args |-> a, file |-> f] : a \in Lines, f \in Files}
  \cup {[args |-> <<"path">>, file |-> textFile(TRUE, 0, es, {})] : es \in Several}
  \cup {[args |-> <<"path">>, file |-> textFile(TRUE, 0, One(0), {source})] :
          source \in {"literal", "set env", "unset env", "header"}}

MCRequests ==
  [method : {"Get", "Post", "Head"}, path : {<<>>, <<"a">>, <<"c">>, <<"a", "b">>, <<"c", "a">>, <<"a", "c">>}]
============================================================================
