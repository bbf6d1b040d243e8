------------------------------ MODULE ShellGroup ------------------------------
(***************************************************************************)
(* The operating system's side of one request: the process group that      *)
(* src/exec.rs creates with `/bin/sh -c <script>` (process_group(0)), its  *)
(* three pipes, and what the commands of the script may do with them.      *)
(*                                                                         *)
(* The group has at most three members: the shell itself, the foreground   *)
(* command the shell waits for (a pipeline counts as one command), and a   *)
(* background descendant the shell does not wait for.  A program may do    *)
(* anything a program may do: read its stdin or not, write or not, stay    *)
(* busy for ever, end at any time.  Once it has entered a read or a write  *)
(* it stays there until the kernel completes the call.                     *)
(*                                                                         *)
(* Data is abstracted to amounts: a pipe holds a number of units, and the  *)
(* order of the units of one pipe is the order in which they were written. *)
(***************************************************************************)
EXTENDS Naturals

CONSTANTS
    PipeCap,    \* the capacity of a pipe, in units
    MaxOut,     \* how many units the group may write to each stream (a bound)
    Daemons     \* whether a command may leave a background descendant behind

ASSUME GroupAssumption ==
    /\ PipeCap \in Nat \ {0}
    /\ MaxOut \in [{"stdout", "stderr"} -> Nat]
    /\ Daemons \in BOOLEAN

VARIABLES
    shell,      \* "unborn", "running", "exited" (a zombie) or "reaped"
    status,     \* how the shell ended: "none", "zero", "nonzero" or "signal"
    fg,         \* foreground command: "absent", "busy", or the pipe it is blocked on
    bg,         \* background descendant: is it alive?
    bgHolds,    \* the pipe ends it inherited and still holds
    stdinPipe,  \* units in the stdin pipe
    stdinOpen,  \* does the server still hold the stdin pipe's write end?
    outPipe,    \* units in the stdout and in the stderr pipe
    made,       \* history: units ever written to stdout and to stderr
    readEnd     \* does the server still hold the read end of stdout, of stderr?

groupVars == <<shell, status, fg, bg, bgHolds, stdinPipe, stdinOpen, outPipe,
               made, readEnd>>

Streams == {"stdout", "stderr"}
Ends    == Streams \cup {"stdin"}

GroupTypeOK ==
    /\ shell \in {"unborn", "running", "exited", "reaped"}
    /\ status \in {"none", "zero", "nonzero", "signal"}
    /\ fg \in {"absent", "busy"} \cup Ends
    /\ bg \in BOOLEAN
    /\ bgHolds \in SUBSET Ends
    /\ stdinPipe \in 0..PipeCap
    /\ stdinOpen \in BOOLEAN
    /\ outPipe \in [Streams -> 0..PipeCap]
    /\ made \in [Streams -> Nat]
    /\ readEnd \in [Streams -> BOOLEAN]

GroupInit ==
    /\ shell = "unborn"
    /\ status = "none"
    /\ fg = "absent"
    /\ bg = FALSE
    /\ bgHolds = {}
    /\ stdinPipe = 0
    /\ stdinOpen = FALSE
    /\ outPipe = [s \in Streams |-> 0]
    /\ made = [s \in Streams |-> 0]
    /\ readEnd = [s \in Streams |-> FALSE]

-------------------------------------------------------------------------------
(* What the server can ask of the group, and what it can observe.          *)

\* Some process still holds this end of a pipe: the shell, its foreground
\* command, or the background descendant.
Held(e) == shell = "running" \/ fg # "absent" \/ e \in bgHolds

\* Some member of the process group has not ended.
GroupAlive == shell = "running" \/ fg # "absent" \/ bg

\* The configured child is started: both output pipes, and a stdin pipe when
\* the Exec has a value source (otherwise stdin is /dev/null).
SpawnGroup(withStdin) ==
    /\ shell' = "running"
    /\ fg' = "busy"
    /\ stdinOpen' = withStdin
    /\ readEnd' = [s \in Streams |-> TRUE]
    /\ UNCHANGED <<status, bg, bgHolds, stdinPipe, outPipe, made>>

\* The shell's own state after a SIGKILL: a zombie stays as it is.
ShellKilled ==
    IF shell = "running" THEN "exited" ELSE shell
StatusKilled ==
    IF shell = "running" THEN "signal" ELSE status

\* kill(-pgid, SIGKILL): every member of the group ends; nothing happens when
\* the group is empty.
KillGroup(shellNext) ==
    /\ shell' = shellNext
    /\ status' = StatusKilled
    /\ fg' = "absent"
    /\ bg' = FALSE
    /\ bgHolds' = {}
    /\ UNCHANGED <<stdinPipe, outPipe, made>>

\* kill_on_drop: the Child handle is dropped, only the shell is signalled.
KillShellOnly ==
    /\ shell' = ShellKilled
    /\ status' = StatusKilled
    /\ UNCHANGED <<fg, bg, bgHolds, stdinPipe, outPipe, made>>

-------------------------------------------------------------------------------
(* What the members of the group do by themselves.                         *)

FgOnly == UNCHANGED <<shell, status, bg, bgHolds, stdinPipe, stdinOpen, outPipe,
                      made, readEnd>>

\* The foreground command enters a read of stdin or a write to a stream.
FgCall(e) ==
    /\ fg = "busy"
    /\ e \in Streams => made[e] < MaxOut[e]
    /\ fg' = e
    /\ FgOnly

\* A read returns a unit, or end-of-file once every write end is closed.
FgRead ==
    /\ fg = "stdin"
    /\ stdinPipe > 0
    /\ fg' = "busy"
    /\ stdinPipe' = stdinPipe - 1
    /\ UNCHANGED <<shell, status, bg, bgHolds, stdinOpen, outPipe, made, readEnd>>

FgReadEof ==
    /\ fg = "stdin"
    /\ stdinPipe = 0
    /\ ~stdinOpen
    /\ fg' = "busy"
    /\ FgOnly

\* A write completes when the pipe has room.
FgWrite(s) ==
    /\ fg = s
    /\ readEnd[s]
    /\ outPipe[s] < PipeCap
    /\ made[s] < MaxOut[s]
    /\ fg' = "busy"
    /\ outPipe' = [outPipe EXCEPT ![s] = @ + 1]
    /\ made' = [made EXCEPT ![s] = @ + 1]
    /\ UNCHANGED <<shell, status, bg, bgHolds, stdinPipe, stdinOpen, readEnd>>

\* A write to a pipe nobody will read: SIGPIPE ends the command, or it ignores
\* the signal and sees EPIPE.
FgBrokenPipe(s) ==
    /\ fg = s
    /\ ~readEnd[s]
    /\ fg' \in {"absent", "busy"}
    /\ FgOnly

\* The command leaves a descendant behind, which inherits any of its pipe ends.
FgDaemonize ==
    /\ Daemons
    /\ fg = "busy"
    /\ ~bg
    /\ bg' = TRUE
    /\ bgHolds' \in SUBSET Ends
    /\ UNCHANGED <<shell, status, fg, stdinPipe, stdinOpen, outPipe, made, readEnd>>

FgExit ==
    /\ fg = "busy"
    /\ fg' = "absent"
    /\ FgOnly

\* The shell exits once the commands it waits for have ended.
ShellExit ==
    /\ shell = "running"
    /\ fg = "absent"
    /\ shell' = "exited"
    /\ status' \in {"zero", "nonzero"}
    /\ UNCHANGED <<fg, bg, bgHolds, stdinPipe, stdinOpen, outPipe, made, readEnd>>

BgRead ==
    /\ "stdin" \in bgHolds
    /\ stdinPipe > 0
    /\ stdinPipe' = stdinPipe - 1
    /\ UNCHANGED <<shell, status, fg, bg, bgHolds, stdinOpen, outPipe, made, readEnd>>

\* (The bound MaxOut leaves room for a write the foreground command has begun.)
BgWrite(s) ==
    /\ s \in bgHolds
    /\ readEnd[s]
    /\ outPipe[s] < PipeCap
    /\ made[s] + (IF fg = s THEN 1 ELSE 0) < MaxOut[s]
    /\ outPipe' = [outPipe EXCEPT ![s] = @ + 1]
    /\ made' = [made EXCEPT ![s] = @ + 1]
    /\ UNCHANGED <<shell, status, fg, bg, bgHolds, stdinPipe, stdinOpen, readEnd>>

BgExit ==
    /\ bg
    /\ bg' = FALSE
    /\ bgHolds' = {}
    /\ UNCHANGED <<shell, status, fg, stdinPipe, stdinOpen, outPipe, made, readEnd>>

\* Calls the kernel completes by itself once they can complete.
KernelStep ==
    \/ FgRead
    \/ FgReadEof
    \/ \E s \in Streams : FgWrite(s) \/ FgBrokenPipe(s)

\* Steps the programs choose to take, or never take.
ProgramStep ==
    \/ \E e \in Ends : FgCall(e)
    \/ FgDaemonize
    \/ FgExit
    \/ BgRead
    \/ \E s \in Streams : BgWrite(s)
    \/ BgExit

GroupStep == KernelStep \/ ProgramStep \/ ShellExit
===============================================================================
