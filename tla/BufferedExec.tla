----------------------------- MODULE BufferedExec -----------------------------
(***************************************************************************)
(* run_shell of src/exec.rs: one buffered execution, from the rendered     *)
(* script to the value the request handler gets.                           *)
(*                                                                         *)
(* The handler's future runs the code between two awaits in one step, so   *)
(* pc names the await it is suspended on.  The two tasks that read stdout  *)
(* and stderr to their ends run beside it, and so does the process group   *)
(* of ShellGroup.  The future may be dropped at any await, when the client *)
(* disconnects.  Time is not modelled: the sleep of the select may win     *)
(* whenever the handler is in the select.                                  *)
(***************************************************************************)
EXTENDS ShellGroup

CONSTANTS
    MaxInput,   \* the largest stdin of a rendered script, in units (a bound)
    Timeouts    \* the TIMEOUT settings to consider: a subset of BOOLEAN

ASSUME BufferedAssumption ==
    /\ MaxInput \in Nat
    /\ Timeouts \in SUBSET BOOLEAN

VARIABLES
    input,      \* units of stdin in the rendered script; 0 when it has no source
    timed,      \* is a TIMEOUT configured?
    pc,         \* the await the handler is suspended on
    left,       \* units of stdin not yet written to the pipe
    reader,     \* the read_to_end task of each stream: "off", "reading" or "eof"
    buf,        \* units each task has collected
    temps,      \* do the script's temporary files exist?
    result      \* what run_shell returned

serverVars == <<input, timed, pc, left, reader, buf, temps, result>>
vars == <<groupVars, serverVars>>

PCs == {"rendered", "writing", "selecting", "joiningOut", "joiningErr",
        "returned", "dropped"}
Awaiting == {"writing", "selecting", "joiningOut", "joiningErr"}
Exited == {"zero", "nonzero", "signal"}
Results == {"none", "spawnError", "epipe", "timedOut"} \cup Exited

\* Every variable keeps to its kind of value.
TypeOK ==
    /\ GroupTypeOK
    /\ input \in 0..MaxInput
    /\ timed \in BOOLEAN
    /\ pc \in PCs
    /\ left \in 0..MaxInput
    /\ reader \in [Streams -> {"off", "reading", "eof"}]
    /\ buf \in [Streams -> Nat]
    /\ temps \in BOOLEAN
    /\ result \in Results

Init ==
    /\ GroupInit
    /\ input \in 0..MaxInput
    /\ timed \in Timeouts
    /\ pc = "rendered"
    /\ left = input
    /\ reader = [s \in Streams |-> "off"]
    /\ buf = [s \in Streams |-> 0]
    /\ temps = TRUE
    /\ result = "none"

-------------------------------------------------------------------------------
(* The handler.                                                            *)

\* run_shell returns: its temporary files are removed with its parameters.
Return(r) ==
    /\ pc' = "returned"
    /\ result' = r
    /\ temps' = FALSE

\* Both read_to_end tasks are spawned, and the select is entered.
StartReaders ==
    /\ reader' = [s \in Streams |-> "reading"]
    /\ pc' = "selecting"

\* spawn(), up to the first await: the write of stdin, or the select.
Spawn ==
    /\ pc = "rendered"
    /\ SpawnGroup(input > 0)
    /\ IF input > 0
       THEN pc' = "writing" /\ UNCHANGED reader
       ELSE StartReaders
    /\ UNCHANGED <<input, timed, left, buf, temps, result>>

SpawnFails ==
    /\ pc = "rendered"
    /\ Return("spawnError")
    /\ UNCHANGED <<groupVars, input, timed, left, reader, buf>>

\* write_all puts another unit into the stdin pipe.
WriteStdin ==
    /\ pc = "writing"
    /\ left > 0
    /\ Held("stdin")
    /\ stdinPipe < PipeCap
    /\ stdinPipe' = stdinPipe + 1
    /\ left' = left - 1
    /\ UNCHANGED <<shell, status, fg, bg, bgHolds, stdinOpen, outPipe, made, readEnd,
                   input, timed, pc, reader, buf, temps, result>>

\* write_all is done: stdin is closed, the readers start.
StdinWritten ==
    /\ pc = "writing"
    /\ left = 0
    /\ stdinOpen' = FALSE
    /\ StartReaders
    /\ UNCHANGED <<shell, status, fg, bg, bgHolds, stdinPipe, outPipe, made, readEnd,
                   input, timed, left, buf, temps, result>>

\* Nobody holds the read end of stdin: write_all fails with EPIPE and `?`
\* returns.  The Child is dropped with the output pipes it still owns.
StdinBroken ==
    /\ pc = "writing"
    /\ left > 0
    /\ ~Held("stdin")
    /\ KillShellOnly
    /\ stdinOpen' = FALSE
    /\ readEnd' = [s \in Streams |-> FALSE]
    /\ Return("epipe")
    /\ UNCHANGED <<input, timed, left, reader, buf>>

\* Mutant: the group is killed as soon as the shell has exited.
ChildExitedKills ==
    /\ pc = "selecting"
    /\ shell = "exited"
    /\ KillGroup("reaped")
    /\ pc' = "joiningOut"
    /\ UNCHANGED <<stdinOpen, readEnd, input, timed, left, reader, buf, temps, result>>

\* select!, first branch: child.wait() reaps the shell.
ChildExited ==
    /\ pc = "selecting"
    /\ shell = "exited"
    /\ shell' = "reaped"
    /\ pc' = "joiningOut"
    /\ UNCHANGED <<status, fg, bg, bgHolds, stdinPipe, stdinOpen, outPipe, made, readEnd,
                   input, timed, left, reader, buf, temps, result>>

\* Mutants: only the shell is killed; the timer runs after the shell's exit; the
\* timeout goes on to report the status.
TimeoutKillsShell ==
    /\ pc = "selecting"
    /\ timed
    /\ KillShellOnly
    /\ Return("timedOut")
    /\ UNCHANGED <<stdinOpen, readEnd, input, timed, left, reader, buf>>

TimeoutFiresLate ==
    /\ pc = "joiningOut"
    /\ timed
    /\ KillGroup("reaped")
    /\ Return("timedOut")
    /\ UNCHANGED <<stdinOpen, readEnd, input, timed, left, reader, buf>>

TimeoutReportsStatus ==
    /\ pc = "selecting"
    /\ timed
    /\ KillGroup("reaped")
    /\ Return(StatusKilled)
    /\ UNCHANGED <<stdinOpen, readEnd, input, timed, left, reader, buf>>

\* select!, second branch: the group is killed, child.kill() reaps the shell.
TimeoutFires ==
    /\ pc = "selecting"
    /\ timed
    /\ KillGroup("reaped")
    /\ Return("timedOut")
    /\ UNCHANGED <<stdinOpen, readEnd, input, timed, left, reader, buf>>

\* stdout_handle.await
StdoutJoined ==
    /\ pc = "joiningOut"
    /\ reader["stdout"] = "eof"
    /\ pc' = "joiningErr"
    /\ UNCHANGED <<groupVars, input, timed, left, reader, buf, temps, result>>

\* Mutants: stderr is not awaited; descendants are not killed.
StderrNotJoined ==
    /\ pc = "joiningErr"
    /\ KillGroup(shell)
    /\ Return(status)
    /\ UNCHANGED <<stdinOpen, readEnd, input, timed, left, reader, buf>>

StderrJoinedNoKill ==
    /\ pc = "joiningErr"
    /\ reader["stderr"] = "eof"
    /\ Return(status)
    /\ UNCHANGED <<groupVars, input, timed, left, reader, buf>>

\* stderr_handle.await, then the group is killed and the output returned.
StderrJoined ==
    /\ pc = "joiningErr"
    /\ reader["stderr"] = "eof"
    /\ KillGroup(shell)
    /\ Return(status)
    /\ UNCHANGED <<stdinOpen, readEnd, input, timed, left, reader, buf>>

\* The client disconnects and the future is dropped: kill_on_drop signals the
\* shell unless it was reaped; the reader tasks are detached, not cancelled;
\* pipes the readers have not taken are closed.
Disconnect ==
    /\ pc \in Awaiting
    /\ pc' = "dropped"
    /\ KillShellOnly
    /\ stdinOpen' = FALSE
    /\ readEnd' = IF pc = "writing" THEN [s \in Streams |-> FALSE] ELSE readEnd
    /\ temps' = FALSE
    /\ UNCHANGED <<input, timed, left, reader, buf, result>>

-------------------------------------------------------------------------------
(* The reader tasks.                                                       *)

\* Mutant: stderr is read once stdout has been read to its end.
ReadInTurn(s) ==
    /\ reader[s] = "reading"
    /\ s = "stderr" => reader["stdout"] = "eof"
    /\ outPipe[s] > 0
    /\ outPipe' = [outPipe EXCEPT ![s] = @ - 1]
    /\ buf' = [buf EXCEPT ![s] = @ + 1]
    /\ UNCHANGED <<shell, status, fg, bg, bgHolds, stdinPipe, stdinOpen, made, readEnd,
                   input, timed, pc, left, reader, temps, result>>

Read(s) ==
    /\ reader[s] = "reading"
    /\ outPipe[s] > 0
    /\ outPipe' = [outPipe EXCEPT ![s] = @ - 1]
    /\ buf' = [buf EXCEPT ![s] = @ + 1]
    /\ UNCHANGED <<shell, status, fg, bg, bgHolds, stdinPipe, stdinOpen, made, readEnd,
                   input, timed, pc, left, reader, temps, result>>

\* End-of-file: the pipe is empty and no process holds its write end.
ReadEof(s) ==
    /\ reader[s] = "reading"
    /\ outPipe[s] = 0
    /\ ~Held(s)
    /\ reader' = [reader EXCEPT ![s] = "eof"]
    /\ readEnd' = [readEnd EXCEPT ![s] = FALSE]
    /\ UNCHANGED <<shell, status, fg, bg, bgHolds, stdinPipe, stdinOpen, outPipe, made,
                   input, timed, pc, left, buf, temps, result>>

-------------------------------------------------------------------------------
GroupMoves == GroupStep /\ UNCHANGED serverVars

Handler ==
    \/ Spawn \/ SpawnFails
    \/ WriteStdin \/ StdinWritten \/ StdinBroken
    \/ ChildExited \/ TimeoutFires
    \/ StdoutJoined \/ StderrJoined

Readers == \E s \in Streams : Read(s) \/ ReadEof(s)

\* The request is over and nothing of it is left running.
Over ==
    /\ pc \in {"returned", "dropped"}
    /\ ~GroupAlive
    /\ \A s \in Streams : reader[s] # "reading"
    /\ UNCHANGED vars

Next == Handler \/ Readers \/ Disconnect \/ GroupMoves \/ Over

Spec == Init /\ [][Next]_vars

\* The runtime polls the handler and the reader tasks whenever they can go on,
\* the kernel completes the calls it can complete, and sh exits when its
\* commands have ended.  Nothing obliges a command to read, write or end.
ServerFairness ==
    /\ WF_vars(Handler)
    /\ \A s \in Streams : WF_vars(Read(s) \/ ReadEof(s))
GroupFairness ==
    /\ WF_vars(KernelStep /\ UNCHANGED serverVars)
    /\ WF_vars(ShellExit /\ UNCHANGED serverVars)

FairSpec == Spec /\ ServerFairness /\ GroupFairness

-------------------------------------------------------------------------------
(* Safety.                                                                 *)

\* The value of exec.rs:483-487 carries everything the group ever wrote: when
\* run_shell returns an exit status, no unit of either stream is lost, in
\* flight, or still to come, whichever process wrote it.
OutputComplete ==
    result \in Exited =>
        \A s \in Streams : /\ buf[s] = made[s]
                           /\ outPipe[s] = 0
                           /\ ~Held(s)

\* When run_shell returns an exit status or a timeout no process of its group
\* survives, not even a descendant that closed its pipes (exec.rs:467-473,
\* 480-482).
NoSurvivors ==
    result \in Exited \cup {"timedOut"} => ~GroupAlive

\* The temporary files a command got as arguments (exec.rs:266-272) are there
\* as long as any process of the group may open them.  The exceptions are a
\* client that went away, and a background descendant left by a command that
\* ended without reading its stdin (the `?` of exec.rs:439).
TempFilesHeld ==
    GroupAlive /\ ~temps =>
        \/ pc = "dropped"
        \/ result = "epipe" /\ shell # "running" /\ fg = "absent"

\* A step of the handler never closes an output stream some process still
\* writes to, unless it gives the output up: at the timeout, or when the
\* client is gone.  Descendants are killed after their output was collected
\* (exec.rs:478-482), not when the shell exits.
NoCutOutput ==
    [][pc' # pc /\ (\E s \in Streams : Held(s) /\ ~Held(s)')
         => pc' = "dropped" \/ result' = "timedOut"]_vars

\* What holds between the steps and makes the invariants above inductive:
\* units are conserved, and end-of-file on a stream is final.
Conserved == \A s \in Streams : made[s] = buf[s] + outPipe[s]

EofFinal ==
    \A s \in Streams :
        reader[s] = "eof" => outPipe[s] = 0 /\ ~Held(s) /\ shell # "unborn"

GroupShape ==
    /\ shell = "unborn" <=> pc = "rendered" \/ result = "spawnError"
    /\ shell = "unborn" => fg = "absent" /\ ~bg /\ \A s \in Streams : reader[s] = "off"
    /\ ~bg => bgHolds = {}
    /\ shell \in {"exited", "reaped"} => status # "none"

HandlerShape ==
    /\ pc = "returned" <=> result # "none"
    /\ temps <=> pc \in {"rendered"} \cup Awaiting
    /\ pc \in {"joiningOut", "joiningErr"} => shell = "reaped"
    /\ pc = "joiningErr" => reader["stdout"] = "eof"
    /\ result \in Exited => \A s \in Streams : reader[s] = "eof"
    /\ result \in Exited \cup {"timedOut", "spawnError"} => ~GroupAlive
    /\ result = "epipe" => shell # "running" /\ fg = "absent"

\* The inductive invariant: no unit of output is lost on its way to the handler,
\* and the handler is where its readers and its group allow (exec.rs:415-488).
IInv == TypeOK /\ Conserved /\ EofFinal /\ GroupShape /\ HandlerShape

-------------------------------------------------------------------------------
(* The abstract specification of an execution, and this one as it.         *)

CR == INSTANCE CommandRun WITH
          phase   <- IF pc = "returned" THEN "answered"
                     ELSE IF pc = "dropped" THEN "abandoned" ELSE "waiting",
          started <- shell # "unborn",
          alive   <- GroupAlive,
          written <- made["stdout"],
          answer  <- IF result \in Exited THEN "status"
                     ELSE IF result = "timedOut" THEN "timeout"
                     ELSE IF result = "none" THEN "none" ELSE "error",
          body    <- IF result \in Exited THEN buf["stdout"] ELSE 0

\* Every behaviour of run_shell is one of the abstract execution: its answer is
\* given in one step, with the whole output, and leaves nothing running.
ImplementsCommandRun == CR!Spec

-------------------------------------------------------------------------------
(* Liveness.                                                               *)

\* "TIMEOUT [is] enforced at the request boundary" (README.md:255): a request
\* with a TIMEOUT comes to an end.
TimeoutEnforced == timed /\ pc \in Awaiting ~> pc \in {"returned", "dropped"}

\* What the code keeps of it: with an input the stdin pipe can hold, and no
\* descendant that keeps an output stream open for ever, a request with a
\* TIMEOUT comes to an end though its command may never end, read or write.
Lingering == bgHolds \cap Streams # {}
TimelyAnswer ==
    timed /\ input <= PipeCap /\ <>[]~Lingering
        => <>(pc \in {"returned", "dropped"})

\* Both streams are read while the shell is awaited, so a command that fills
\* the one is not stuck because the server waits for the other (exec.rs:445-462):
\* a write begun is completed or broken, once stdin has been handed over.
WritesComplete ==
    \A s \in Streams : fg = s /\ pc # "writing" ~> fg # s
===============================================================================
