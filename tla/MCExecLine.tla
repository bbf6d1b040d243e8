---------------------------- MODULE MCExecLine ----------------------------
(* Lines put together from fragments, and every short line of characters.   *)
EXTENDS ExecLine

dq == "dquote"
interp == <<"{", "%", "a", "}">>
Fragments ==
  {<<"a">>, <<"space">>, <<"|">>, <<"%", "n">>, <<"$">>, <<"$", ".", "a">>, <<"[", "%", "a">>, <<"]">>,
   <<dq>> \o interp, <<dq>>, <<Quote>>, <<Backslash>>, interp, <<"#">>, <<"backquote">>, <<";", "#">>}
Alphabet == {"a", "%", "$", ".", "[", "]", "{", "}", "|", "space", "newline", dq, Quote, Backslash}
AllLines ==
  {a \o b \o c \o d : a, b, c, d \in Fragments} \cup UNION {[1..n -> Alphabet] : n \in 1..4}
MCLines == AllLines
MCValues == {{}, {<<>>}, {<<Quote, "value|">>}, {<<"newline", "value|", "backquote", "value|">>}}
===========================================================================
