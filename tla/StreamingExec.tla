---------------------------- MODULE StreamingExec -----------------------------
(***************************************************************************)
(* spawn_streaming of src/exec.rs and the response body that run_streaming *)
(* of src/server.rs makes of it.  Once the group is started, five actors   *)
(* run side by side: the task that pushes stdin, the pump that moves       *)
(* stdout into a bounded channel, the task that collects stderr, the       *)
(* completion task that waits for the shell or the timeout, and the client *)
(* that takes chunks out of the channel, stalls, or leaves.                *)
(*                                                                         *)
(* A chunk is one unit.  An Err item is the last one its sender queues, so  *)
(* the channel is a number of chunks and whether an Err item follows them. *)
(* Time is not modelled: the sleep of the select may *)
(* win whenever the completion task is in the select.                      *)
(***************************************************************************)
EXTENDS ShellGroup

CONSTANTS
    MaxInput,   \* the largest stdin of a rendered script, in units (a bound)
    Timeouts,   \* the TIMEOUT settings to consider: a subset of BOOLEAN
    ChanCap     \* the capacity of the channel (8 in the code)

ASSUME StreamingAssumption ==
    /\ MaxInput \in Nat
    /\ Timeouts \in SUBSET BOOLEAN
    /\ ChanCap \in Nat \ {0}

VARIABLES
    timed,      \* is a TIMEOUT configured?
    left,       \* units of stdin the push task has still to write
    pusher,     \* the push task: "off", "pushing" or "ended"
    pump,       \* the pump task: "off", "reading", "sending", "failing" or "ended"
    chunks,     \* chunks queued in the channel
    errQueued,  \* is an Err item queued behind them?
    collector,  \* the stderr task: "off", "reading" or "ended"
    completion, \* the await of the completion task, or how it ended
    temps,      \* do the script's temporary files exist?
    client,     \* what the client sees
    received    \* units the client has received

taskVars == <<timed, left, pusher, pump, chunks, errQueued, collector, completion, temps,
              client, received>>
vars == <<groupVars, taskVars>>

Completions == {"off", "selecting", "joiningKilled", "joiningPump", "joiningErr",
                "done", "timedOut"}
Views == {"waiting", "streaming", "ended", "broken", "left", "refused"}

\* Every variable keeps to its kind of value.
TypeOK ==
    /\ GroupTypeOK
    /\ timed \in BOOLEAN
    /\ left \in 0..MaxInput
    /\ pusher \in {"off", "pushing", "ended"}
    /\ pump \in {"off", "reading", "sending", "failing", "ended"}
    /\ chunks \in 0..ChanCap
    /\ errQueued \in BOOLEAN
    /\ collector \in {"off", "reading", "ended"}
    /\ completion \in Completions
    /\ temps \in BOOLEAN
    /\ client \in Views
    /\ received \in Nat

Init ==
    /\ GroupInit
    /\ timed \in Timeouts
    /\ left \in 0..MaxInput
    /\ pusher = "off"
    /\ pump = "off"
    /\ chunks = 0
    /\ errQueued = FALSE
    /\ collector = "off"
    /\ completion = "off"
    /\ temps = TRUE
    /\ client = "waiting"
    /\ received = 0

-------------------------------------------------------------------------------
(* The request handler: spawn_streaming has no await, so the group and the *)
(* four tasks are started, and the response is returned, in one step.      *)

Spawn ==
    /\ client = "waiting"
    /\ SpawnGroup(left > 0)
    /\ pusher' = IF left > 0 THEN "pushing" ELSE "ended"
    /\ pump' = "reading"
    /\ collector' = "reading"
    /\ completion' = "selecting"
    /\ client' = "streaming"
    /\ UNCHANGED <<timed, left, chunks, errQueued, temps, received>>

SpawnFails ==
    /\ client = "waiting"
    /\ client' = "refused"
    /\ temps' = FALSE
    /\ UNCHANGED <<groupVars, timed, left, pusher, pump, chunks, errQueued, collector, completion,
                   received>>

-------------------------------------------------------------------------------
(* The push task.  It owns the write end of stdin and closes it at its end.*)

Push ==
    /\ pusher = "pushing"
    /\ left > 0
    /\ Held("stdin")
    /\ stdinPipe < PipeCap
    /\ stdinPipe' = stdinPipe + 1
    /\ left' = left - 1
    /\ UNCHANGED <<shell, status, fg, bg, bgHolds, stdinOpen, outPipe, made, readEnd,
                   timed, pusher, pump, chunks, errQueued, collector, completion, temps, client,
                   received>>

\* Everything is written, or nobody holds the read end: errors are ignored.
PushEnds ==
    /\ pusher = "pushing"
    /\ left = 0 \/ ~Held("stdin")
    /\ pusher' = "ended"
    /\ stdinOpen' = FALSE
    /\ UNCHANGED <<shell, status, fg, bg, bgHolds, stdinPipe, outPipe, made, readEnd,
                   timed, left, pump, chunks, errQueued, collector, completion, temps, client,
                   received>>

-------------------------------------------------------------------------------
(* The pump task.  Ending, it closes the read end of stdout and, being the *)
(* last sender, the channel.                                               *)

Receiver == client = "streaming"
SlotFree == chunks < ChanCap

PumpTouches(pumpNext) ==
    /\ pump' = pumpNext
    /\ readEnd' = [readEnd EXCEPT !["stdout"] = pumpNext # "ended"]
    /\ UNCHANGED <<shell, status, fg, bg, bgHolds, stdinPipe, stdinOpen, made,
                   timed, left, pusher, collector, completion, temps, client, received>>

PumpRead ==
    /\ pump = "reading"
    /\ outPipe["stdout"] > 0
    /\ outPipe' = [outPipe EXCEPT !["stdout"] = @ - 1]
    /\ UNCHANGED <<chunks, errQueued>>
    /\ PumpTouches("sending")

PumpEof ==
    /\ pump = "reading"
    /\ outPipe["stdout"] = 0
    /\ ~Held("stdout")
    /\ UNCHANGED <<outPipe, chunks, errQueued>>
    /\ PumpTouches("ended")

\* Mutant: a read error ends the loop without an Err item.
PumpReadErrorSwallowed ==
    /\ pump = "reading"
    /\ UNCHANGED <<outPipe, chunks, errQueued>>
    /\ PumpTouches("ended")

PumpReadError ==
    /\ pump = "reading"
    /\ UNCHANGED <<outPipe, chunks, errQueued>>
    /\ PumpTouches("failing")

\* Mutant: a chunk that finds the channel full is dropped (try_send).
PumpSendLossy ==
    /\ pump = "sending"
    /\ Receiver
    /\ chunks' = IF SlotFree THEN chunks + 1 ELSE chunks
    /\ UNCHANGED <<outPipe, errQueued>>
    /\ PumpTouches("reading")

\* send(..).await waits for a free slot while the receiver exists.
PumpSend ==
    /\ pump = "sending"
    /\ Receiver
    /\ SlotFree
    /\ chunks' = chunks + 1
    /\ UNCHANGED <<outPipe, errQueued>>
    /\ PumpTouches("reading")

PumpSendError ==
    /\ pump = "failing"
    /\ Receiver
    /\ SlotFree
    /\ errQueued' = TRUE
    /\ UNCHANGED <<outPipe, chunks>>
    /\ PumpTouches("ended")

\* The receiver is gone: send fails, the loop breaks.
PumpGivesUp ==
    /\ pump \in {"sending", "failing"}
    /\ ~Receiver
    /\ UNCHANGED <<outPipe, chunks, errQueued>>
    /\ PumpTouches("ended")

Pump == \/ PumpRead \/ PumpEof
        \/ PumpSend \/ PumpSendError \/ PumpGivesUp

-------------------------------------------------------------------------------
(* The stderr task: what it collects is only logged.                       *)

Collect ==
    /\ collector = "reading"
    /\ outPipe["stderr"] > 0
    /\ outPipe' = [outPipe EXCEPT !["stderr"] = @ - 1]
    /\ UNCHANGED <<shell, status, fg, bg, bgHolds, stdinPipe, stdinOpen, made, readEnd,
                   taskVars>>

CollectEof ==
    /\ collector = "reading"
    /\ outPipe["stderr"] = 0
    /\ ~Held("stderr")
    /\ collector' = "ended"
    /\ readEnd' = [readEnd EXCEPT !["stderr"] = FALSE]
    /\ UNCHANGED <<shell, status, fg, bg, bgHolds, stdinPipe, stdinOpen, outPipe, made,
                   timed, left, pusher, pump, chunks, errQueued, completion, temps, client, received>>

-------------------------------------------------------------------------------
(* The completion task.  It owns the Child and the temporary files.        *)

CompletionOnly == UNCHANGED <<stdinOpen, readEnd, timed, left, pusher, pump, chunks, errQueued,
                              collector, client, received>>

\* Mutants: the temporary files go with the shell; the group is killed with it.
ChildExitedDropsTemps ==
    /\ completion = "selecting"
    /\ shell = "exited"
    /\ shell' = "reaped"
    /\ completion' = "joiningPump"
    /\ temps' = FALSE
    /\ UNCHANGED <<status, fg, bg, bgHolds, stdinPipe, outPipe, made>>
    /\ CompletionOnly

ChildExitedKills ==
    /\ completion = "selecting"
    /\ shell = "exited"
    /\ KillGroup("reaped")
    /\ completion' = "joiningPump"
    /\ UNCHANGED temps
    /\ CompletionOnly

ChildExited ==
    /\ completion = "selecting"
    /\ shell = "exited"
    /\ shell' = "reaped"
    /\ completion' = "joiningPump"
    /\ UNCHANGED <<status, fg, bg, bgHolds, stdinPipe, outPipe, made, temps>>
    /\ CompletionOnly

\* Mutants: the timer starts once stdin is written; only the shell is killed.
TimeoutAfterStdin ==
    /\ completion = "selecting"
    /\ timed
    /\ pusher = "ended"
    /\ KillGroup("reaped")
    /\ completion' = "joiningKilled"
    /\ UNCHANGED temps
    /\ CompletionOnly

TimeoutKillsShell ==
    /\ completion = "selecting"
    /\ timed
    /\ KillShellOnly
    /\ completion' = "joiningKilled"
    /\ UNCHANGED temps
    /\ CompletionOnly

\* The group is killed, child.kill() reaps the shell, the pump is awaited.
TimeoutFires ==
    /\ completion = "selecting"
    /\ timed
    /\ KillGroup("reaped")
    /\ completion' = "joiningKilled"
    /\ UNCHANGED temps
    /\ CompletionOnly

KilledPumpJoined ==
    /\ completion = "joiningKilled"
    /\ pump = "ended"
    /\ completion' = "timedOut"
    /\ temps' = FALSE
    /\ UNCHANGED <<shell, status, fg, bg, bgHolds, stdinPipe, outPipe, made>>
    /\ CompletionOnly

PumpJoined ==
    /\ completion = "joiningPump"
    /\ pump = "ended"
    /\ completion' = "joiningErr"
    /\ UNCHANGED <<shell, status, fg, bg, bgHolds, stdinPipe, outPipe, made, temps>>
    /\ CompletionOnly

\* stderr_handle.await, then the group is killed and the files are removed.
StderrJoined ==
    /\ completion = "joiningErr"
    /\ collector = "ended"
    /\ KillGroup(shell)
    /\ completion' = "done"
    /\ temps' = FALSE
    /\ CompletionOnly

Completion == ChildExited \/ TimeoutFires \/ KilledPumpJoined \/ PumpJoined \/ StderrJoined

-------------------------------------------------------------------------------
(* The client, through the response body.                                  *)

ClientOnly == UNCHANGED <<groupVars, timed, left, pusher, pump, collector, completion,
                          temps>>

Receive ==
    /\ client = "streaming"
    /\ chunks > 0
    /\ chunks' = chunks - 1
    /\ received' = received + 1
    /\ UNCHANGED <<errQueued, client>>
    /\ ClientOnly

\* An Err item ends the body: hyper cuts the connection and drops the receiver.
ReceiveError ==
    /\ client = "streaming"
    /\ chunks = 0
    /\ errQueued
    /\ errQueued' = FALSE
    /\ client' = "broken"
    /\ UNCHANGED <<chunks, received>>
    /\ ClientOnly

\* The channel is empty and every sender is gone: a regular end of the body.
StreamEnd ==
    /\ client = "streaming"
    /\ chunks = 0
    /\ ~errQueued
    /\ pump = "ended"
    /\ client' = "ended"
    /\ UNCHANGED <<chunks, errQueued, received>>
    /\ ClientOnly

\* The client leaves: the body is dropped, with the receiver and its items.
Leave ==
    /\ client = "streaming"
    /\ client' = "left"
    /\ chunks' = 0
    /\ errQueued' = FALSE
    /\ UNCHANGED received
    /\ ClientOnly

ClientTakes == Receive \/ ReceiveError \/ StreamEnd

-------------------------------------------------------------------------------
GroupMoves == GroupStep /\ UNCHANGED taskVars

Over ==
    /\ completion \in {"off", "done", "timedOut"}
    /\ client \notin {"waiting", "streaming"}
    /\ ~GroupAlive
    /\ pusher # "pushing"
    /\ UNCHANGED vars

Next ==
    \/ Spawn \/ SpawnFails
    \/ Push \/ PushEnds
    \/ Pump \/ PumpReadError
    \/ Collect \/ CollectEof
    \/ Completion
    \/ ClientTakes \/ Leave
    \/ GroupMoves
    \/ Over

Spec == Init /\ [][Next]_vars

\* The runtime polls the tasks whenever they can go on; the kernel and sh as in
\* BufferedExec.  Nothing obliges a command to end or a client to read.
FairSpec ==
    /\ Spec
    /\ WF_vars(Spawn \/ SpawnFails)
    /\ WF_vars(Push \/ PushEnds)
    /\ WF_vars(Pump)
    /\ WF_vars(Collect \/ CollectEof)
    /\ WF_vars(Completion)
    /\ WF_vars(KernelStep /\ UNCHANGED taskVars)
    /\ WF_vars(ShellExit /\ UNCHANGED taskVars)

-------------------------------------------------------------------------------
(* Safety.                                                                 *)

\* The end of the stream is told apart from a cut: when the client sees a clean
\* end, it has received every unit the group ever wrote to stdout, and no
\* process is left that could write another (exec.rs:561-585, server.rs:282-291).
CleanEndComplete ==
    client = "ended" => received = made["stdout"] /\ ~Held("stdout")

\* The temporary files outlive every process of the group, whatever the client
\* does and also after a timeout (exec.rs:587-613).
TempFilesHeld == GroupAlive => temps

\* The completion task does not close stdout under a process that writes to a
\* client still listening; only the timeout does, or a read error already on its
\* way to the client.
NoCutOutput ==
    [][completion' # completion /\ client = "streaming" /\ Held("stdout") /\ ~Held("stdout")'
         => completion' = "joiningKilled" \/ errQueued]_vars

\* What holds between the steps: while the client listens, a unit written is in
\* exactly one place.
InHand == IF pump = "sending" THEN 1 ELSE 0
Listening == client \in {"waiting", "streaming", "ended", "refused"}
Conserved ==
    Listening => made["stdout"] = received + chunks + InHand + outPipe["stdout"]

\* While the client listens the pump ends at end-of-file or behind an error.
PumpShape ==
    /\ Listening /\ pump = "ended" /\ ~errQueued =>
           outPipe["stdout"] = 0 /\ ~Held("stdout") /\ shell # "unborn"
    /\ errQueued => pump = "ended" /\ client = "streaming" /\ chunks < ChanCap
    /\ received <= made["stdout"]
    /\ pump = "off" <=> completion = "off"
    /\ collector = "off" <=> completion = "off"
    /\ client = "ended" => pump = "ended" /\ ~errQueued /\ chunks = 0

CompletionShape ==
    /\ completion = "off" <=> client \in {"waiting", "refused"}
    /\ shell = "unborn" <=> completion = "off"
    /\ shell = "unborn" => fg = "absent" /\ ~bg
    /\ ~bg => bgHolds = {}
    /\ temps <=> completion \notin {"done", "timedOut"} /\ client # "refused"
    /\ completion \in {"joiningKilled", "timedOut", "done"} => ~GroupAlive
    /\ completion \in {"joiningPump", "joiningErr"} => shell = "reaped"
    /\ completion = "joiningErr" => pump = "ended"

\* The inductive invariant: no unit of stdout is lost on its way to the client,
\* and pump and completion end in the order the code joins them (exec.rs:561-613).
IInv == TypeOK /\ Conserved /\ PumpShape /\ CompletionShape

-------------------------------------------------------------------------------
(* The abstract specification of a streaming response, and this one as it. *)

BS == INSTANCE ByteStream WITH
          open    <- shell = "unborn" \/ Held("stdout"),
          written <- made["stdout"],
          view    <- CASE client \in {"waiting", "streaming"} -> "streaming"
                       [] client \in {"broken", "refused"}    -> "broken"
                       [] OTHER                               -> client

\* Every behaviour of a streaming response is one of the abstract stream: the
\* client gets what was written, once, and a clean end only behind all of it.
ImplementsByteStream == BS!Spec

-------------------------------------------------------------------------------
(* Liveness.                                                               *)

\* A shell that overstays a TIMEOUT is stopped, although the client may not
\* read, stdin may be stuck in its pipe and the channel may be full: the select
\* of exec.rs:589-600 waits for none of them.
ShellStopped == timed /\ completion = "selecting" ~> shell # "running"

\* An execution with a TIMEOUT completes and its temporary files are removed, if
\* the client reads or leaves and no descendant keeps an output stream open for
\* ever.
Lingering == bgHolds \cap Streams # {}
TimelyCompletion ==
    timed /\ <>[]~Lingering /\ []<>(client # "streaming" \/ chunks < ChanCap)
        => <>(~temps)
===============================================================================
