------------------------------ MODULE ByteStream ------------------------------
(***************************************************************************)
(* What a streaming response promises the client, with no tasks, channel   *)
(* or process group: the client receives what the command wrote to its     *)
(* stdout, in order and each unit once, and a clean end of the stream only *)
(* when nothing more can come and nothing is missing.                      *)
(***************************************************************************)
EXTENDS Naturals

VARIABLES
    open,       \* may the command still write to its stdout?
    written,    \* units written to stdout
    received,   \* units the client has received
    view        \* what the client sees: "streaming", "ended", "broken" or "left"

vars == <<open, written, received, view>>

Init ==
    /\ open = TRUE
    /\ written = 0
    /\ received = 0
    /\ view = "streaming"

Write ==
    /\ open
    /\ written' = written + 1
    /\ UNCHANGED <<open, received, view>>

Close ==
    /\ open
    /\ ~open'
    /\ UNCHANGED <<written, received, view>>

Receive ==
    /\ view = "streaming"
    /\ received < written
    /\ received' = received + 1
    /\ UNCHANGED <<open, written, view>>

End ==
    /\ view = "streaming"
    /\ ~open
    /\ received = written
    /\ view' = "ended"
    /\ UNCHANGED <<open, written, received>>

\* The server reports an error in the middle of the stream.
Break ==
    /\ view = "streaming"
    /\ view' = "broken"
    /\ UNCHANGED <<open, written, received>>

Leave ==
    /\ view = "streaming"
    /\ view' = "left"
    /\ UNCHANGED <<open, written, received>>

Next == Write \/ Close \/ Receive \/ End \/ Break \/ Leave

Spec == Init /\ [][Next]_vars
===============================================================================
