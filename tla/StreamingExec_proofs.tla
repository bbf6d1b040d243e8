------------------------- MODULE StreamingExec_proofs -------------------------
(***************************************************************************)
(* Theorems about spawn_streaming and its response body, for every         *)
(* capacity of the channel and the pipes, every amount of input and        *)
(* output, with and without a TIMEOUT and descendants.                     *)
(***************************************************************************)
EXTENDS StreamingExec, TLAPS

USE DEF Streams, Ends

\* The steps of the process group keep the inductive invariant.
LEMMA GroupKeepsIInv ==
    ASSUME IInv, GroupStep, UNCHANGED taskVars
    PROVE  IInv'
PROOF
<1> USE GroupAssumption
    DEF IInv, TypeOK, GroupTypeOK, Conserved, InHand, Listening, PumpShape,
        CompletionShape, Held, GroupAlive, taskVars, FgOnly
<1>1. CASE FgRead BY <1>1 DEF FgRead
<1>2. CASE FgReadEof BY <1>2 DEF FgReadEof
<1>3. ASSUME NEW s \in Streams, FgWrite(s) PROVE IInv'
    BY <1>3 DEF FgWrite
<1>4. ASSUME NEW s \in Streams, FgBrokenPipe(s) PROVE IInv'
    BY <1>4 DEF FgBrokenPipe
<1>5. ASSUME NEW e \in Ends, FgCall(e) PROVE IInv'
    BY <1>5 DEF FgCall
<1>6. CASE FgDaemonize BY <1>6 DEF FgDaemonize
<1>7. CASE FgExit BY <1>7 DEF FgExit
<1>8. CASE ShellExit BY <1>8 DEF ShellExit
<1>9. CASE BgRead BY <1>9 DEF BgRead
<1>10. ASSUME NEW s \in Streams, BgWrite(s) PROVE IInv'
    BY <1>10 DEF BgWrite
<1>11. CASE BgExit
    <2>1. TypeOK'
        <3>1. bg' \in BOOLEAN BY <1>11 DEF BgExit
        <3> QED BY <3>1, <1>11 DEF BgExit
    <2>2. Conserved' BY <1>11 DEF BgExit
    <2>3. PumpShape' BY <1>11 DEF BgExit
    <2>4. CompletionShape' BY <1>11 DEF BgExit
    <2> QED BY <2>1, <2>2, <2>3, <2>4
<1> QED BY <1>1, <1>2, <1>3, <1>4, <1>5, <1>6, <1>7, <1>8, <1>9, <1>10, <1>11
        DEF GroupStep, KernelStep, ProgramStep

\* So do the steps of the handler, of its tasks, and of the client.
LEMMA TasksKeepIInv ==
    ASSUME IInv,
           \/ Spawn \/ SpawnFails \/ Push \/ PushEnds \/ Pump \/ PumpReadError
           \/ Collect \/ CollectEof \/ Completion \/ ClientTakes \/ Leave
    PROVE  IInv'
PROOF
<1> USE GroupAssumption, StreamingAssumption
    DEF IInv, TypeOK, GroupTypeOK, Conserved, InHand, Listening, PumpShape,
        CompletionShape, Held, GroupAlive, Completions, Views,
        PumpTouches, SlotFree, Receiver, CompletionOnly, ClientOnly, groupVars, taskVars,
        KillGroup, StatusKilled
<1>1. CASE Spawn
    <2>1. TypeOK' BY <1>1 DEF Spawn, SpawnGroup
    <2>2. Conserved' BY <1>1 DEF Spawn, SpawnGroup
    <2>3. PumpShape' BY <1>1 DEF Spawn, SpawnGroup
    <2>4. CompletionShape' BY <1>1 DEF Spawn, SpawnGroup
    <2> QED BY <2>1, <2>2, <2>3, <2>4
<1>2. CASE SpawnFails BY <1>2 DEF SpawnFails
<1>3. CASE Push BY <1>3 DEF Push
<1>4. CASE PushEnds
    <2>1. TypeOK'
        <3>1. stdinOpen' \in BOOLEAN BY <1>4 DEF PushEnds
        <3> QED BY <3>1, <1>4 DEF PushEnds
    <2>2. Conserved' BY <1>4 DEF PushEnds
    <2>3. PumpShape' BY <1>4 DEF PushEnds
    <2>4. CompletionShape' BY <1>4 DEF PushEnds
    <2> QED BY <2>1, <2>2, <2>3, <2>4
<1>5. CASE PumpRead BY <1>5 DEF PumpRead
<1>6. CASE PumpEof BY <1>6 DEF PumpEof
<1>7. CASE PumpReadError BY <1>7 DEF PumpReadError
<1>8. CASE PumpSend BY <1>8 DEF PumpSend
<1>9. CASE PumpSendError BY <1>9 DEF PumpSendError
<1>10. CASE PumpGivesUp BY <1>10 DEF PumpGivesUp
<1>11. CASE Collect
    <2>1. TypeOK' BY <1>11 DEF Collect
    <2>2. Conserved' BY <1>11 DEF Collect
    <2>3. PumpShape' BY <1>11 DEF Collect
    <2>4. CompletionShape' BY <1>11 DEF Collect
    <2> QED BY <2>1, <2>2, <2>3, <2>4
<1>12. CASE CollectEof
    <2>1. TypeOK' BY <1>12 DEF CollectEof
    <2>2. Conserved' BY <1>12 DEF CollectEof
    <2>3. PumpShape' BY <1>12 DEF CollectEof
    <2>4. CompletionShape' BY <1>12 DEF CollectEof
    <2> QED BY <2>1, <2>2, <2>3, <2>4
<1>13. CASE ChildExited BY <1>13 DEF ChildExited
<1>14. CASE TimeoutFires
    <2>1. TypeOK' BY <1>14 DEF TimeoutFires
    <2>2. Conserved' BY <1>14 DEF TimeoutFires
    <2>3. PumpShape' BY <1>14 DEF TimeoutFires
    <2>4. CompletionShape' BY <1>14 DEF TimeoutFires
    <2> QED BY <2>1, <2>2, <2>3, <2>4
<1>15. CASE KilledPumpJoined
    <2>1. TypeOK'
        <3>1. temps' \in BOOLEAN BY <1>15 DEF KilledPumpJoined
        <3> QED BY <3>1, <1>15 DEF KilledPumpJoined
    <2>2. Conserved' BY <1>15 DEF KilledPumpJoined
    <2>3. PumpShape' BY <1>15 DEF KilledPumpJoined
    <2>4. CompletionShape' BY <1>15 DEF KilledPumpJoined
    <2> QED BY <2>1, <2>2, <2>3, <2>4
<1>16. CASE PumpJoined BY <1>16 DEF PumpJoined
<1>17. CASE StderrJoined
    <2>1. TypeOK' BY <1>17 DEF StderrJoined
    <2>2. Conserved' BY <1>17 DEF StderrJoined
    <2>3. PumpShape' BY <1>17 DEF StderrJoined
    <2>4. CompletionShape' BY <1>17 DEF StderrJoined
    <2> QED BY <2>1, <2>2, <2>3, <2>4
<1>18. CASE Receive
    <2>1. TypeOK' BY <1>18 DEF Receive
    <2>2. Conserved' BY <1>18 DEF Receive
    <2>3. PumpShape' BY <1>18 DEF Receive
    <2>4. CompletionShape' BY <1>18 DEF Receive
    <2> QED BY <2>1, <2>2, <2>3, <2>4
<1>19. CASE ReceiveError
    <2>1. TypeOK'
        <3>1. errQueued' \in BOOLEAN BY <1>19 DEF ReceiveError
        <3> QED BY <3>1, <1>19 DEF ReceiveError
    <2>2. Conserved' BY <1>19 DEF ReceiveError
    <2>3. PumpShape' BY <1>19 DEF ReceiveError
    <2>4. CompletionShape' BY <1>19 DEF ReceiveError
    <2> QED BY <2>1, <2>2, <2>3, <2>4
<1>20. CASE StreamEnd BY <1>20 DEF StreamEnd
<1>21. CASE Leave
    <2>1. TypeOK'
        <3>1. errQueued' \in BOOLEAN BY <1>21 DEF Leave
        <3> QED BY <3>1, <1>21 DEF Leave
    <2>2. Conserved' BY <1>21 DEF Leave
    <2>3. PumpShape' BY <1>21 DEF Leave
    <2>4. CompletionShape' BY <1>21 DEF Leave
    <2> QED BY <2>1, <2>2, <2>3, <2>4
<1> QED BY <1>1, <1>2, <1>3, <1>4, <1>5, <1>6, <1>7, <1>8, <1>9, <1>10, <1>11, <1>12,
           <1>13, <1>14, <1>15, <1>16, <1>17, <1>18, <1>19, <1>20, <1>21
        DEF Pump, Completion, ClientTakes

\* The inductive invariant holds in every reachable state.
THEOREM Inductive == Spec => []IInv
PROOF
<1>1. Init => IInv
    <2> SUFFICES ASSUME Init PROVE IInv
        OBVIOUS
    <2> USE DEF Init, GroupInit
    <2>1. timed \in BOOLEAN BY StreamingAssumption
    <2>2. GroupTypeOK
        <3>1. 0 \in 0..PipeCap BY GroupAssumption
        <3>2. outPipe \in [Streams -> 0..PipeCap] /\ made \in [Streams -> Nat]
            BY <3>1
        <3>3. readEnd \in [Streams -> BOOLEAN] OBVIOUS
        <3>4. bg \in BOOLEAN /\ stdinOpen \in BOOLEAN /\ bgHolds \in SUBSET Ends
            OBVIOUS
        <3> QED BY <3>1, <3>2, <3>3, <3>4 DEF GroupTypeOK
    <2>3. TypeOK
        <3>1. chunks \in 0..ChanCap /\ received \in Nat BY StreamingAssumption
        <3>2. errQueued \in BOOLEAN /\ temps \in BOOLEAN OBVIOUS
        <3> QED BY <2>1, <2>2, <3>1, <3>2 DEF TypeOK, Completions, Views
    <2>4. Conserved /\ PumpShape BY DEF Conserved, PumpShape, InHand, Listening
    <2>5. CompletionShape BY DEF CompletionShape, GroupAlive
    <2> QED BY <2>3, <2>4, <2>5 DEF IInv
<1>2. IInv /\ [Next]_vars => IInv'
    <2> SUFFICES ASSUME IInv, [Next]_vars PROVE IInv'
        OBVIOUS
    <2>1. CASE GroupMoves BY <2>1, GroupKeepsIInv DEF GroupMoves
    <2>2. CASE UNCHANGED vars
        BY <2>2 DEF vars, groupVars, taskVars, IInv, TypeOK, GroupTypeOK, Conserved,
           InHand, Listening, PumpShape, CompletionShape, Held, GroupAlive, Completions,
           Views
    <2> QED BY <2>1, <2>2, TasksKeepIInv DEF Next, Over
<1> QED BY <1>1, <1>2, PTL DEF Spec

-------------------------------------------------------------------------------
\* A clean end of the stream comes behind all of the output.
THEOREM CleanEndIsComplete == Spec => []CleanEndComplete
PROOF
<1>1. IInv => CleanEndComplete
    BY GroupAssumption
    DEF IInv, TypeOK, GroupTypeOK, Conserved, InHand, Listening, PumpShape,
        CleanEndComplete
<1> QED BY <1>1, Inductive, PTL

\* The temporary files outlive every process of the group, on every path.
THEOREM TempFilesAreHeld == Spec => []TempFilesHeld
PROOF
<1>1. IInv => TempFilesHeld
    BY DEF IInv, TypeOK, CompletionShape, GroupAlive, TempFilesHeld
<1> QED BY <1>1, Inductive, PTL

\* Only the timeout, or a read error, closes stdout under a process that writes
\* to a client still listening.
THEOREM OutputNotCut == Spec => NoCutOutput
PROOF
<1> DEFINE Cut == /\ completion' # completion
                  /\ client = "streaming"
                  /\ Held("stdout") /\ ~Held("stdout")'
           Given == completion' = "joiningKilled" \/ errQueued
<1>1. IInv /\ [Next]_vars => [Cut => Given]_vars
    <2> SUFFICES ASSUME IInv, Next, Cut PROVE Given
        OBVIOUS
    <2>1. CASE Spawn \/ SpawnFails
        BY <2>1 DEF Spawn, SpawnFails
    <2>2. CASE Push \/ PushEnds \/ Pump \/ PumpReadError \/ Collect \/ CollectEof
        BY <2>2 DEF Push, PushEnds, Pump, PumpRead, PumpEof, PumpSend, PumpSendError,
           PumpGivesUp, PumpReadError, PumpTouches, Collect, CollectEof, taskVars
    <2>3. CASE ChildExited \/ KilledPumpJoined \/ PumpJoined
        BY <2>3 DEF ChildExited, KilledPumpJoined, PumpJoined, Held, IInv, CompletionShape
    <2>4. CASE TimeoutFires BY <2>4 DEF TimeoutFires
    <2>5. CASE StderrJoined
        BY <2>5 DEF StderrJoined, IInv, PumpShape, CompletionShape, Listening
    <2>6. CASE ClientTakes \/ Leave
        BY <2>6 DEF ClientTakes, Receive, ReceiveError, StreamEnd, Leave, ClientOnly
    <2>7. CASE GroupMoves BY <2>7 DEF GroupMoves, taskVars
    <2>8. CASE Over BY <2>8 DEF Over, vars, taskVars
    <2> QED BY <2>1, <2>2, <2>3, <2>4, <2>5, <2>6, <2>7, <2>8 DEF Next, Completion
<1> QED BY <1>1, Inductive, PTL DEF NoCutOutput, Spec

-------------------------------------------------------------------------------
\* A step of the process group writes to the abstract stream, closes it, or is
\* nothing it can see.
LEMMA GroupStepRefines ==
    ASSUME IInv, GroupStep, UNCHANGED taskVars
    PROVE  BS!Write \/ BS!Close \/ UNCHANGED BS!vars
PROOF
<1> USE DEF BS!Write, BS!Close, BS!vars, IInv, TypeOK, GroupTypeOK, CompletionShape,
            Held, taskVars, FgOnly
<1>1. CASE FgRead \/ FgReadEof BY <1>1 DEF FgRead, FgReadEof
<1>2. ASSUME NEW s \in Streams, FgWrite(s) \/ BgWrite(s)
      PROVE  BS!Write \/ UNCHANGED BS!vars
    BY <1>2 DEF FgWrite, BgWrite
<1>3. ASSUME NEW s \in Streams, FgBrokenPipe(s)
      PROVE  BS!Close \/ UNCHANGED BS!vars
    BY <1>3 DEF FgBrokenPipe
<1>4. CASE \E e \in Ends : FgCall(e) BY <1>4 DEF FgCall
<1>5. CASE FgDaemonize \/ FgExit BY <1>5 DEF FgDaemonize, FgExit
<1>6. CASE BgRead \/ BgExit BY <1>6 DEF BgRead, BgExit
<1>7. CASE ShellExit BY <1>7 DEF ShellExit
<1> QED BY <1>1, <1>2, <1>3, <1>4, <1>5, <1>6, <1>7
        DEF GroupStep, KernelStep, ProgramStep

\* A streaming response implements the abstract stream, for every value of the
\* constants.
THEOREM Refinement == Spec => ImplementsByteStream
PROOF
<1>1. Init => BS!Init
    BY DEF Init, GroupInit, BS!Init
<1>2. IInv /\ [Next]_vars => [BS!Next]_BS!vars
    <2> SUFFICES ASSUME IInv, [Next]_vars PROVE BS!Next \/ UNCHANGED BS!vars
        OBVIOUS
    <2> USE DEF BS!vars, BS!Next, Held
    <2>1. CASE Spawn
        BY <2>1 DEF Spawn, SpawnGroup, IInv, CompletionShape
    <2>2. CASE SpawnFails
        BY <2>2 DEF SpawnFails, groupVars, BS!Break, IInv, CompletionShape
    <2>3. CASE Push \/ PushEnds \/ Collect \/ CollectEof
        BY <2>3 DEF Push, PushEnds, Collect, CollectEof, taskVars
    <2>4. CASE Pump \/ PumpReadError
        BY <2>4 DEF Pump, PumpRead, PumpEof, PumpSend, PumpSendError, PumpGivesUp,
                    PumpReadError, PumpTouches
    <2>5. CASE ChildExited \/ KilledPumpJoined \/ PumpJoined
        BY <2>5 DEF ChildExited, KilledPumpJoined, PumpJoined, CompletionOnly
    <2>6. CASE TimeoutFires \/ StderrJoined
        BY <2>6 DEF TimeoutFires, StderrJoined, KillGroup, CompletionOnly, BS!Close, IInv,
                    CompletionShape
    <2>7. CASE Receive
        BY <2>7, GroupAssumption
        DEF Receive, ClientOnly, groupVars, BS!Receive, IInv, TypeOK, GroupTypeOK,
            Conserved, InHand, Listening
    <2>8. CASE ReceiveError
        BY <2>8 DEF ReceiveError, ClientOnly, groupVars, BS!Break
    <2>9. CASE StreamEnd
        <3>1. received = made["stdout"] /\ ~Held("stdout") /\ shell # "unborn"
            BY <2>9, GroupAssumption
            DEF StreamEnd, IInv, TypeOK, GroupTypeOK, Conserved, InHand, Listening,
                PumpShape
        <3> QED BY <2>9, <3>1 DEF StreamEnd, ClientOnly, groupVars, BS!End
    <2>10. CASE Leave
        BY <2>10 DEF Leave, ClientOnly, groupVars, BS!Leave
    <2>11. CASE GroupMoves
        BY <2>11, GroupStepRefines DEF GroupMoves
    <2>12. CASE UNCHANGED vars BY <2>12 DEF vars, groupVars, taskVars
    <2> QED BY <2>1, <2>2, <2>3, <2>4, <2>5, <2>6, <2>7, <2>8, <2>9, <2>10, <2>11, <2>12
            DEF Next, Completion, ClientTakes, Over
<1> QED BY <1>1, <1>2, Inductive, PTL DEF Spec, BS!Spec, ImplementsByteStream

===============================================================================
