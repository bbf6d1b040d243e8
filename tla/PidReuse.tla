------------------------------- MODULE PidReuse -------------------------------
(***************************************************************************)
(* Several requests share one table of process ids.  Each remembers the id *)
(* of its shell (child_id of src/exec.rs) and later signals the process    *)
(* group of that number, when its timeout fires or when it has collected   *)
(* the output of a shell it has already reaped.  The kernel gives a number *)
(* out again once no process and no process group uses it.                 *)
(*                                                                         *)
(* The buffered and the streaming execution share the steps that matter    *)
(* here; their pipes and tasks are those of BufferedExec, StreamingExec.   *)
(* A request dropped while it writes stdin is dropped in "selecting" here.  *)
(***************************************************************************)
CONSTANTS
    Requests,   \* the requests being served
    Pids,       \* the process ids the kernel hands out
    None        \* no process id, nobody

ASSUME PidAssumption == None \notin Requests /\ None \notin Pids

VARIABLES
    pc,         \* "idle", "selecting", "joining", "done" or "dropped"
    pid,        \* child_id: the number of the request's shell and of its group
    shell,      \* "unborn", "running", "exited" (a zombie) or "reaped"
    family,     \* is another process of the request's group alive?
    slain       \* history: whose signal ended the request's shell, or None

vars == <<pc, pid, shell, family, slain>>

\* Every variable keeps to its kind of value.
TypeOK ==
    /\ pc \in [Requests -> {"idle", "selecting", "joining", "done", "dropped"}]
    /\ pid \in [Requests -> Pids \cup {None}]
    /\ shell \in [Requests -> {"unborn", "running", "exited", "reaped"}]
    /\ family \in [Requests -> BOOLEAN]
    /\ slain \in [Requests -> Requests \cup {None}]

Init ==
    /\ pc = [r \in Requests |-> "idle"]
    /\ pid = [r \in Requests |-> None]
    /\ shell = [r \in Requests |-> "unborn"]
    /\ family = [r \in Requests |-> FALSE]
    /\ slain = [r \in Requests |-> None]

\* The number is taken by a shell not reaped yet, or by its process group.
Uses(r, p) == pid[r] = p /\ (shell[r] \in {"running", "exited"} \/ family[r])

\* kill(-p, SIGKILL) on behalf of r, with reap telling whether r then waits for
\* its own shell: every process of the group numbered p ends.
KillProcessGroup(r, p, reap) ==
    LET hit == {q \in Requests : Uses(q, p)}
    IN  /\ shell' = [q \in Requests |->
                        IF q = r /\ reap THEN "reaped"
                        ELSE IF q \in hit /\ shell[q] = "running" THEN "exited"
                        ELSE shell[q]]
        /\ slain' = [q \in Requests |->
                        IF q \in hit /\ shell[q] = "running" THEN r ELSE slain[q]]
        /\ family' = [q \in Requests |-> IF q \in hit THEN FALSE ELSE family[q]]

\* The shell gets a free number and leads a group of its own.
Spawn(r) ==
    /\ pc[r] = "idle"
    /\ \E p \in Pids :
        /\ \A q \in Requests : ~Uses(q, p)
        /\ pid' = [pid EXCEPT ![r] = p]
    /\ pc' = [pc EXCEPT ![r] = "selecting"]
    /\ shell' = [shell EXCEPT ![r] = "running"]
    /\ UNCHANGED <<family, slain>>

\* A command starts another process of the group, or the last of them ends.
FamilyGrows(r) ==
    /\ shell[r] = "running"
    /\ ~family[r]
    /\ family' = [family EXCEPT ![r] = TRUE]
    /\ UNCHANGED <<pc, pid, shell, slain>>

FamilyEnds(r) ==
    /\ family[r]
    /\ family' = [family EXCEPT ![r] = FALSE]
    /\ UNCHANGED <<pc, pid, shell, slain>>

ShellExit(r) ==
    /\ shell[r] = "running"
    /\ shell' = [shell EXCEPT ![r] = "exited"]
    /\ UNCHANGED <<pc, pid, family, slain>>

\* Mutant: the timer is still armed after the shell was reaped.
ChildExitedStillTimed(r) ==
    /\ pc[r] = "selecting"
    /\ shell[r] = "exited"
    /\ shell' = [shell EXCEPT ![r] = "reaped"]
    /\ UNCHANGED <<pc, pid, family, slain>>

\* child.wait() reaps the shell; from here on only the group keeps the number.
ChildExited(r) ==
    /\ pc[r] = "selecting"
    /\ shell[r] = "exited"
    /\ shell' = [shell EXCEPT ![r] = "reaped"]
    /\ pc' = [pc EXCEPT ![r] = "joining"]
    /\ UNCHANGED <<pid, family, slain>>

\* Mutant: the timeout does not return.
TimeoutFallsThrough(r) ==
    /\ pc[r] = "selecting"
    /\ KillProcessGroup(r, pid[r], TRUE)
    /\ UNCHANGED <<pc, pid>>

\* The timeout: kill_process_group(child_id), then child.kill() reaps the shell.
TimeoutFires(r) ==
    /\ pc[r] = "selecting"
    /\ KillProcessGroup(r, pid[r], TRUE)
    /\ pc' = [pc EXCEPT ![r] = "done"]
    /\ UNCHANGED pid

\* The readers are joined, then kill_process_group(child_id).  When they see
\* end-of-file is up to whoever holds the pipes, a process that left the group
\* included.
Joined(r) ==
    /\ pc[r] = "joining"
    /\ KillProcessGroup(r, pid[r], FALSE)
    /\ pc' = [pc EXCEPT ![r] = "done"]
    /\ UNCHANGED pid

\* The request is dropped: kill_on_drop signals the shell alone, if not reaped.
Dropped(r) ==
    /\ pc[r] \in {"selecting", "joining"}
    /\ pc' = [pc EXCEPT ![r] = "dropped"]
    /\ shell' = [shell EXCEPT ![r] = IF @ = "running" THEN "exited" ELSE @]
    /\ slain' = [slain EXCEPT ![r] = IF shell[r] = "running" THEN r ELSE @]
    /\ UNCHANGED <<pid, family>>

\* The runtime's orphan queue reaps a shell whose Child was dropped.
OrphanReaped(r) ==
    /\ pc[r] = "dropped"
    /\ shell[r] = "exited"
    /\ shell' = [shell EXCEPT ![r] = "reaped"]
    /\ UNCHANGED <<pc, pid, family, slain>>

Over ==
    /\ \A r \in Requests : pc[r] \in {"done", "dropped"} /\ shell[r] = "reaped"
    /\ UNCHANGED vars

Next ==
    \/ \E r \in Requests :
        \/ Spawn(r)
        \/ FamilyGrows(r) \/ FamilyEnds(r) \/ ShellExit(r)
        \/ ChildExited(r) \/ TimeoutFires(r) \/ Joined(r)
        \/ Dropped(r) \/ OrphanReaped(r)
    \/ Over

Spec == Init /\ [][Next]_vars

-------------------------------------------------------------------------------
\* kill_process_group is meant for "shell-spawned descendants" (exec.rs:624-625).
\* A request that still waits for its shell, and whose timeout fires, never ends
\* another's shell: its own, a zombie at least, holds the number (467-473).  The
\* kill after the readers (480-482) never does while it has descendants to end,
\* which hold it too.  What is left is a request whose group is gone, that signals
\* a number given back, and perhaps given out again.
ForeignHitOnlyWhenGone ==
    [][\A r, q \in Requests :
        slain'[q] = r /\ slain[q] # r /\ q # r => pc[r] = "joining" /\ ~family[r]]_vars

\* Why: two requests never use a number at once, and one that waits uses its own.
NumbersUnique ==
    \A r, q \in Requests : \A p \in Pids : Uses(r, p) /\ Uses(q, p) => r = q

ShellShape ==
    \A r \in Requests :
        /\ pc[r] = "idle" <=> shell[r] = "unborn"
        /\ pc[r] = "idle" => ~family[r]
        /\ pc[r] # "idle" => pid[r] \in Pids
        /\ pc[r] = "selecting" => shell[r] \in {"running", "exited"}

\* The inductive invariant: a request that waits for its shell has a number that
\* nobody else uses (exec.rs:420-477).
IInv == TypeOK /\ NumbersUnique /\ ShellShape
===============================================================================
