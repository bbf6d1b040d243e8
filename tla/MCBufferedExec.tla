---------------------------- MODULE MCBufferedExec ----------------------------
(* Small instances of BufferedExec for TLC: pipes of one unit, so that one   *)
(* unit in flight already fills them.                                        *)
EXTENDS BufferedExec

\* Enough to fill both output pipes and block on either.
MCMaxOut == [s \in {"stdout", "stderr"} |-> 2]
===============================================================================
