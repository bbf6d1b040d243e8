------------------------- MODULE BufferedExec_proofs --------------------------
(***************************************************************************)
(* Theorems about run_shell, for every pipe capacity, every amount of      *)
(* input and output, with and without a TIMEOUT and descendants.           *)
(***************************************************************************)
EXTENDS BufferedExec, TLAPS

USE DEF Streams, Ends

\* The steps of the process group keep the inductive invariant.
LEMMA GroupKeepsIInv ==
    ASSUME IInv, GroupStep, UNCHANGED serverVars
    PROVE  IInv'
PROOF
<1> USE DEF IInv, TypeOK, GroupTypeOK, Conserved, EofFinal, GroupShape, HandlerShape,
            Held, GroupAlive, serverVars, PCs, Awaiting, Exited, Results, FgOnly
<1>1. CASE FgRead BY <1>1, GroupAssumption DEF FgRead
<1>2. CASE FgReadEof BY <1>2 DEF FgReadEof
<1>3. ASSUME NEW s \in Streams, FgWrite(s) PROVE IInv'
    BY <1>3, GroupAssumption DEF FgWrite
<1>4. ASSUME NEW s \in Streams, FgBrokenPipe(s) PROVE IInv'
    BY <1>4 DEF FgBrokenPipe
<1>5. ASSUME NEW e \in Ends, FgCall(e) PROVE IInv'
    BY <1>5 DEF FgCall
<1>6. CASE FgDaemonize BY <1>6 DEF FgDaemonize
<1>7. CASE FgExit BY <1>7 DEF FgExit
<1>8. CASE ShellExit BY <1>8 DEF ShellExit
<1>9. CASE BgRead BY <1>9, GroupAssumption DEF BgRead
<1>10. ASSUME NEW s \in Streams, BgWrite(s) PROVE IInv'
    BY <1>10, GroupAssumption DEF BgWrite
<1>11. CASE BgExit
    <2>1. TypeOK' BY <1>11 DEF BgExit
    <2>2. (Conserved /\ EofFinal)' BY <1>11 DEF BgExit
    <2>3. GroupShape' BY <1>11 DEF BgExit
    <2>4. HandlerShape' BY <1>11 DEF BgExit
    <2> QED BY <2>1, <2>2, <2>3, <2>4
<1> QED BY <1>1, <1>2, <1>3, <1>4, <1>5, <1>6, <1>7, <1>8, <1>9, <1>10, <1>11
        DEF GroupStep, KernelStep, ProgramStep

\* So do the steps of the handler, the readers, and a disconnect.
LEMMA ServerKeepsIInv ==
    ASSUME IInv, Handler \/ Readers \/ Disconnect
    PROVE  IInv'
PROOF
<1> USE GroupAssumption, BufferedAssumption
    DEF IInv, TypeOK, GroupTypeOK, Conserved, EofFinal, GroupShape, HandlerShape,
        Held, GroupAlive, PCs, Awaiting, Exited, Results, Return, StartReaders,
        KillGroup, KillShellOnly, ShellKilled, StatusKilled
<1>1. CASE Spawn BY <1>1 DEF Spawn, SpawnGroup
<1>2. CASE SpawnFails BY <1>2 DEF SpawnFails, groupVars
<1>3. CASE WriteStdin BY <1>3 DEF WriteStdin
<1>4. CASE StdinWritten BY <1>4 DEF StdinWritten
<1>5. CASE StdinBroken BY <1>5 DEF StdinBroken
<1>6. CASE ChildExited BY <1>6 DEF ChildExited
<1>7. CASE TimeoutFires BY <1>7 DEF TimeoutFires
<1>8. CASE StdoutJoined BY <1>8 DEF StdoutJoined, groupVars
<1>9. CASE StderrJoined BY <1>9 DEF StderrJoined
<1>10. ASSUME NEW s \in Streams, Read(s) PROVE IInv'
    BY <1>10 DEF Read
<1>11. ASSUME NEW s \in Streams, ReadEof(s) PROVE IInv'
    <2>1. TypeOK' BY <1>11 DEF ReadEof
    <2>2. (Conserved /\ GroupShape)' BY <1>11 DEF ReadEof
    <2>3. EofFinal' BY <1>11 DEF ReadEof
    <2>4. HandlerShape' BY <1>11 DEF ReadEof
    <2> QED BY <2>1, <2>2, <2>3, <2>4
<1>12. CASE Disconnect BY <1>12 DEF Disconnect
<1> QED BY <1>1, <1>2, <1>3, <1>4, <1>5, <1>6, <1>7, <1>8, <1>9, <1>10, <1>11, <1>12
        DEF Handler, Readers

\* The inductive invariant holds in every reachable state.
THEOREM Inductive == Spec => []IInv
PROOF
<1>1. Init => IInv
    <2> SUFFICES ASSUME Init PROVE IInv
        OBVIOUS
    <2> USE DEF Init, GroupInit
    <2>1. timed \in BOOLEAN BY BufferedAssumption
    <2>2. GroupTypeOK
        <3>1. 0 \in 0..PipeCap BY GroupAssumption
        <3>2. outPipe \in [Streams -> 0..PipeCap] /\ made \in [Streams -> Nat]
            BY <3>1
        <3>3. readEnd \in [Streams -> BOOLEAN] OBVIOUS
        <3>4. bg \in BOOLEAN /\ stdinOpen \in BOOLEAN /\ bgHolds \in SUBSET Ends
            OBVIOUS
        <3> QED BY <3>1, <3>2, <3>3, <3>4 DEF GroupTypeOK
    <2>3. TypeOK BY <2>1, <2>2, BufferedAssumption DEF TypeOK, PCs, Results
    <2>4. Conserved /\ EofFinal BY DEF Conserved, EofFinal
    <2>5. GroupShape /\ HandlerShape
        BY DEF GroupShape, HandlerShape, GroupAlive, Awaiting, Exited
    <2> QED BY <2>3, <2>4, <2>5 DEF IInv
<1>2. IInv /\ [Next]_vars => IInv'
    <2> SUFFICES ASSUME IInv, [Next]_vars PROVE IInv'
        OBVIOUS
    <2>1. CASE Handler \/ Readers \/ Disconnect BY <2>1, ServerKeepsIInv
    <2>2. CASE GroupMoves BY <2>2, GroupKeepsIInv DEF GroupMoves
    <2>3. CASE UNCHANGED vars
        BY <2>3 DEF vars, groupVars, serverVars, IInv, TypeOK, GroupTypeOK, Conserved,
           EofFinal, GroupShape, HandlerShape, Held, GroupAlive, PCs, Awaiting, Exited,
           Results
    <2> QED BY <2>1, <2>2, <2>3 DEF Next, Over
<1> QED BY <1>1, <1>2, PTL DEF Spec

-------------------------------------------------------------------------------
\* A result with an exit status carries everything the group ever wrote.
THEOREM OutputIsComplete == Spec => []OutputComplete
PROOF
<1>1. IInv => OutputComplete
    BY GroupAssumption
    DEF IInv, TypeOK, GroupTypeOK, Conserved, EofFinal, HandlerShape, OutputComplete
<1> QED BY <1>1, Inductive, PTL

\* After an exit status or a timeout nothing of the group is left running.
THEOREM NothingSurvives == Spec => []NoSurvivors
PROOF
<1>1. IInv => NoSurvivors
    BY DEF IInv, HandlerShape, NoSurvivors
<1> QED BY <1>1, Inductive, PTL

\* The temporary files outlive the group, but for an abandoned request and the
\* descendants of a command that did not read its stdin.
THEOREM TempFilesAreHeld == Spec => []TempFilesHeld
PROOF
<1>1. IInv => TempFilesHeld
    BY DEF IInv, TypeOK, PCs, Results, Exited, Awaiting, HandlerShape, GroupShape,
           GroupAlive, TempFilesHeld
<1> QED BY <1>1, Inductive, PTL

\* Only a timeout or a disconnect closes a stream a process still writes to.
THEOREM OutputNotCut == Spec => NoCutOutput
PROOF
<1> DEFINE Cut == /\ pc' # pc
                  /\ \E s \in Streams : Held(s) /\ ~Held(s)'
           Given == pc' = "dropped" \/ result' = "timedOut"
<1>1. IInv /\ [Next]_vars => [Cut => Given]_vars
    <2> SUFFICES ASSUME IInv, Next, Cut PROVE Given
        OBVIOUS
    <2> USE DEF Held
    <2>1. CASE Handler
        <3>1. CASE Spawn \/ SpawnFails
            BY <2>1, <3>1 DEF Spawn, SpawnFails, SpawnGroup, Return, groupVars, IInv,
                              GroupShape, HandlerShape
        <3>2. CASE WriteStdin \/ StdinWritten \/ ChildExited \/ StdoutJoined
            BY <3>2 DEF WriteStdin, StdinWritten, ChildExited, StdoutJoined, groupVars
        <3>3. CASE StdinBroken
            BY <3>3 DEF StdinBroken, KillShellOnly, ShellKilled
        <3>4. CASE TimeoutFires BY <3>4 DEF TimeoutFires, Return
        <3>5. CASE StderrJoined
            <4>1. reader["stdout"] = "eof" /\ reader["stderr"] = "eof"
                BY <3>5 DEF StderrJoined, IInv, HandlerShape
            <4> QED BY <4>1 DEF IInv, EofFinal
        <3> QED BY <2>1, <3>1, <3>2, <3>3, <3>4, <3>5 DEF Handler
    <2>2. CASE Readers BY <2>2 DEF Readers, Read, ReadEof
    <2>3. CASE Disconnect BY <2>3 DEF Disconnect
    <2>4. CASE GroupMoves BY <2>4 DEF GroupMoves, serverVars
    <2>5. CASE Over BY <2>5 DEF Over, vars, serverVars
    <2> QED BY <2>1, <2>2, <2>3, <2>4, <2>5 DEF Next
<1> QED BY <1>1, Inductive, PTL DEF NoCutOutput, Spec

-------------------------------------------------------------------------------
\* Every step of the process group maps to work of the abstract command, or to
\* nothing the abstract execution can see.
LEMMA GroupStepRefines ==
    ASSUME IInv, GroupStep, UNCHANGED serverVars
    PROVE  CR!Work \/ UNCHANGED CR!vars
PROOF
<1> USE DEF CR!Work, CR!vars, IInv, TypeOK, GroupTypeOK, GroupShape, GroupAlive,
            serverVars, FgOnly
<1>1. CASE KernelStep
    <2>1. CASE FgRead \/ FgReadEof BY <2>1 DEF FgRead, FgReadEof
    <2>2. ASSUME NEW s \in Streams, FgWrite(s) \/ FgBrokenPipe(s)
          PROVE  CR!Work \/ UNCHANGED CR!vars
        BY <2>2 DEF FgWrite, FgBrokenPipe
    <2> QED BY <1>1, <2>1, <2>2 DEF KernelStep
<1>2. CASE ProgramStep
    <2>1. CASE \E e \in Ends : FgCall(e) BY <2>1 DEF FgCall
    <2>2. CASE FgDaemonize \/ FgExit BY <2>2 DEF FgDaemonize, FgExit
    <2>3. CASE BgRead \/ BgExit BY <2>3 DEF BgRead, BgExit
    <2>4. ASSUME NEW s \in Streams, BgWrite(s)
          PROVE  CR!Work \/ UNCHANGED CR!vars
        BY <2>4 DEF BgWrite
    <2> QED BY <1>2, <2>1, <2>2, <2>3, <2>4 DEF ProgramStep
<1>3. CASE ShellExit BY <1>3 DEF ShellExit
<1> QED BY <1>1, <1>2, <1>3 DEF GroupStep

\* run_shell implements the abstract execution, for every value of the constants.
THEOREM Refinement == Spec => ImplementsCommandRun
PROOF
<1>1. Init => CR!Init
    BY DEF Init, GroupInit, CR!Init, GroupAlive, Exited
<1>2. IInv /\ [Next]_vars => [CR!Next]_CR!vars
    <2> SUFFICES ASSUME IInv, [Next]_vars PROVE CR!Next \/ UNCHANGED CR!vars
        OBVIOUS
    <2> USE DEF CR!vars, GroupAlive, Exited
    <2>1. CASE Spawn
        BY <2>1 DEF Spawn, SpawnGroup, StartReaders, CR!Next, CR!Start, IInv, GroupShape,
                    HandlerShape
    <2>2. CASE SpawnFails
        BY <2>2 DEF SpawnFails, Return, groupVars, CR!Next, CR!AnswerError, IInv,
                    HandlerShape
    <2>3. CASE WriteStdin \/ StdinWritten \/ ChildExited \/ StdoutJoined
        BY <2>3 DEF WriteStdin, StdinWritten, StartReaders, ChildExited, StdoutJoined,
                    groupVars, IInv, GroupShape, HandlerShape
    <2>4. CASE StdinBroken
        BY <2>4 DEF StdinBroken, Held, KillShellOnly, ShellKilled, Return, CR!Next,
                    CR!AnswerError, IInv, GroupShape, HandlerShape
    <2>5. CASE TimeoutFires
        BY <2>5 DEF TimeoutFires, KillGroup, Return, CR!Next, CR!AnswerTimeout, IInv,
                    GroupShape, HandlerShape
    <2>6. CASE StderrJoined
        <3>1. status \in Exited
            BY <2>6 DEF StderrJoined, IInv, TypeOK, GroupTypeOK, GroupShape, HandlerShape
        <3>2. buf["stdout"] = made["stdout"]
            BY <2>6 DEF StderrJoined, IInv, TypeOK, GroupTypeOK, Conserved, EofFinal,
                        HandlerShape
        <3>3. CR!AnswerStatus
            BY <2>6, <3>1, <3>2
            DEF StderrJoined, KillGroup, Return, CR!AnswerStatus, IInv, GroupShape,
                HandlerShape
        <3> QED BY <3>3 DEF CR!Next
    <2>7. CASE Readers BY <2>7 DEF Readers, Read, ReadEof, IInv, HandlerShape
    <2>8. CASE Disconnect
        BY <2>8 DEF Disconnect, KillShellOnly, ShellKilled, Awaiting, CR!Next, CR!Abandon,
                    IInv, TypeOK, GroupTypeOK, GroupShape, HandlerShape
    <2>9. CASE GroupMoves
        BY <2>9, GroupStepRefines DEF GroupMoves, CR!Next
    <2>10. CASE UNCHANGED vars BY <2>10 DEF vars, groupVars, serverVars
    <2> QED BY <2>1, <2>2, <2>3, <2>4, <2>5, <2>6, <2>7, <2>8, <2>9, <2>10
            DEF Next, Handler, Over
<1> QED BY <1>1, <1>2, Inductive, PTL DEF Spec, CR!Spec, ImplementsCommandRun

===============================================================================
