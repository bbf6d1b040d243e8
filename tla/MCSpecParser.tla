--------------------------- MODULE MCSpecParser ---------------------------
(* All files of up to three lines, and of four that begin with a method;    *)
(* and a longer file with any two of its lines replaced or one left out.    *)
EXTENDS SpecParser

Long == <<"VERSION", "GET", "QUERY", "BODY{", "text", "}", "Exec<<<", "text", ">>>", "GET", "Exec">>

MCFiles ==
  UNION {[1..n -> Classes] : n \in 0..3}
  \cup {<<"GET">> \o f : f \in [1..3 -> Classes]}
  \cup {[Long EXCEPT ![j] = c, ![k] = d] : j, k \in DOMAIN Long, c, d \in Classes}
  \cup {RemoveAt([Long EXCEPT ![j] = c], k) : j, k \in DOMAIN Long, c \in Classes}
===========================================================================
