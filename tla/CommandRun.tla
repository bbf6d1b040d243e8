------------------------------ MODULE CommandRun ------------------------------
(***************************************************************************)
(* What a buffered execution promises the request handler, with no pipes,  *)
(* tasks or signals: a command runs once, writes its output, and the       *)
(* handler gets one answer.  An answer with an exit status carries the     *)
(* whole output, and like a timeout it leaves nothing of the command       *)
(* running.  Only an error of the server itself, or a client that went     *)
(* away, may leave processes behind.                                       *)
(***************************************************************************)
EXTENDS Naturals

VARIABLES
    phase,      \* "waiting" for the answer, "answered" or "abandoned"
    started,    \* has the command been started?
    alive,      \* is any process of the command alive?
    written,    \* units the command has written to its stdout
    answer,     \* "none", "status", "timeout" or "error"
    body        \* units the answer carries

vars == <<phase, started, alive, written, answer, body>>

Init ==
    /\ phase = "waiting"
    /\ ~started
    /\ ~alive
    /\ written = 0
    /\ answer = "none"
    /\ body = 0

Start ==
    /\ phase = "waiting"
    /\ ~started
    /\ started'
    /\ alive'
    /\ UNCHANGED <<phase, written, answer, body>>

\* The command writes a unit, or some or all of its processes end.
Work ==
    /\ alive
    /\ \/ written' = written + 1 /\ UNCHANGED alive
       \/ ~alive' /\ UNCHANGED written
    /\ UNCHANGED <<phase, started, answer, body>>

\* One step: the handler has the whole output, and nothing is left running.
AnswerStatus ==
    /\ phase = "waiting"
    /\ started
    /\ phase' = "answered"
    /\ answer' = "status"
    /\ body' = written
    /\ ~alive'
    /\ UNCHANGED <<started, written>>

AnswerTimeout ==
    /\ phase = "waiting"
    /\ started
    /\ phase' = "answered"
    /\ answer' = "timeout"
    /\ ~alive'
    /\ UNCHANGED <<started, written, body>>

AnswerError ==
    /\ phase = "waiting"
    /\ phase' = "answered"
    /\ answer' = "error"
    /\ UNCHANGED <<started, alive, written, body>>

Abandon ==
    /\ phase = "waiting"
    /\ started
    /\ phase' = "abandoned"
    /\ alive' => alive
    /\ alive' \in BOOLEAN
    /\ UNCHANGED <<started, written, answer, body>>

Next == Start \/ Work \/ AnswerStatus \/ AnswerTimeout \/ AnswerError \/ Abandon

Spec == Init /\ [][Next]_vars
===============================================================================
