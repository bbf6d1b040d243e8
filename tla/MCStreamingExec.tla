--------------------------- MODULE MCStreamingExec ---------------------------
(* Small instances of StreamingExec for TLC: a channel and pipes of one unit, *)
(* so that one unit in flight already fills them.                             *)
EXTENDS StreamingExec

\* Enough stdout to fill the channel, the pump's hand and the pipe.
MCMaxOut == [s \in {"stdout", "stderr"} |-> IF s = "stdout" THEN 3 ELSE 1]
===============================================================================
