--------------------------- MODULE PidReuse_proofs ---------------------------
(* A number belongs to one request at a time, and a kill stays within the   *)
(* group, while there is one, whatever the requests and the numbers.        *)
EXTENDS PidReuse, TLAPS

\* Nothing has a number before it is spawned.
LEMMA InitInv == ASSUME Init PROVE IInv
  BY PidAssumption DEF Init, IInv, TypeOK, NumbersUnique, ShellShape, Uses

\* A signal leaves the state well typed.
LEMMA KillTyped ==
  ASSUME TypeOK, NEW r \in Requests, NEW p \in Pids, NEW reap,
         KillProcessGroup(r, p, reap)
  PROVE  /\ shell' \in [Requests -> {"unborn", "running", "exited", "reaped"}]
         /\ family' \in [Requests -> BOOLEAN]
         /\ slain' \in [Requests -> Requests \cup {None}]
  BY DEF TypeOK, KillProcessGroup

\* Every step keeps numbers apart.
LEMMA StepInv == ASSUME IInv, [Next]_vars PROVE IInv'
<1> USE PidAssumption DEF IInv, TypeOK, NumbersUnique, ShellShape, Uses
<1>1. ASSUME NEW r \in Requests, Spawn(r) PROVE IInv'
  BY <1>1 DEF Spawn
<1>2. ASSUME NEW r \in Requests, FamilyGrows(r) PROVE IInv'
  BY <1>2 DEF FamilyGrows
<1>3. ASSUME NEW r \in Requests, FamilyEnds(r) PROVE IInv'
  BY <1>3 DEF FamilyEnds
<1>4. ASSUME NEW r \in Requests, ShellExit(r) PROVE IInv'
  BY <1>4 DEF ShellExit
<1>5. ASSUME NEW r \in Requests, ChildExited(r) PROVE IInv'
  BY <1>5 DEF ChildExited
<1>6. ASSUME NEW r \in Requests, TimeoutFires(r) PROVE IInv'
  <2>1. pid[r] \in Pids /\ pid' = pid /\ pc' = [pc EXCEPT ![r] = "done"]
        /\ KillProcessGroup(r, pid[r], TRUE)
    BY <1>6 DEF TimeoutFires
  <2>2. shell'[r] = "reaped"
    BY <2>1 DEF KillProcessGroup
  <2>3. \A q \in Requests :
          /\ family'[q] => family[q]
          /\ shell'[q] \in {"running", "exited"} => shell[q] \in {"running", "exited"}
          /\ q # r => (shell[q] = "unborn" <=> shell'[q] = "unborn")
          /\ q # r /\ shell[q] \in {"running", "exited"} => shell'[q] \in {"running", "exited"}
    BY <2>1 DEF KillProcessGroup
  <2>4. TypeOK'
    BY <2>1, KillTyped DEF KillProcessGroup
  <2>5. NumbersUnique'
    BY <2>1, <2>3
  <2>6. ShellShape'
    BY <2>1, <2>2, <2>3, <1>6 DEF TimeoutFires
  <2> QED
    BY <2>4, <2>5, <2>6
<1>7. ASSUME NEW r \in Requests, Joined(r) PROVE IInv'
  <2>1. pid[r] \in Pids /\ pid' = pid /\ pc' = [pc EXCEPT ![r] = "done"]
        /\ KillProcessGroup(r, pid[r], FALSE)
    BY <1>7 DEF Joined
  <2>2. \A q \in Requests :
          /\ family'[q] => family[q]
          /\ shell'[q] \in {"running", "exited"} => shell[q] \in {"running", "exited"}
          /\ shell[q] = "unborn" <=> shell'[q] = "unborn"
          /\ shell[q] \in {"running", "exited"} => shell'[q] \in {"running", "exited"}
    BY <2>1 DEF KillProcessGroup
  <2>3. TypeOK'
    BY <2>1, KillTyped DEF KillProcessGroup
  <2>4. NumbersUnique'
    BY <2>1, <2>2
  <2>5. ShellShape'
    BY <2>1, <2>2, <1>7 DEF Joined
  <2> QED
    BY <2>3, <2>4, <2>5
<1>8. ASSUME NEW r \in Requests, Dropped(r) PROVE IInv'
  BY <1>8 DEF Dropped
<1>9. ASSUME NEW r \in Requests, OrphanReaped(r) PROVE IInv'
  BY <1>9 DEF OrphanReaped
<1>10. CASE UNCHANGED vars
  BY <1>10 DEF vars
<1> QED
  BY <1>1, <1>2, <1>3, <1>4, <1>5, <1>6, <1>7, <1>8, <1>9, <1>10 DEF Next, Over

\* No two requests hold one number, and one that waits for its shell holds its
\* own (exec.rs:464-477).
THEOREM Inductive == Spec => []IInv
  BY InitInv, StepInv, PTL DEF Spec

\* One step ends a foreign shell only from a request whose own group is gone.
LEMMA StepHits ==
  ASSUME IInv, [Next]_vars, NEW r \in Requests, NEW q \in Requests,
         slain'[q] = r, slain[q] # r, q # r
  PROVE  pc[r] = "joining" /\ ~family[r]
<1> USE PidAssumption DEF IInv, TypeOK, NumbersUnique, ShellShape, Uses
<1>1. ASSUME NEW x \in Requests,
             Spawn(x) \/ FamilyGrows(x) \/ FamilyEnds(x) \/ ShellExit(x) \/ ChildExited(x) \/ OrphanReaped(x)
      PROVE  FALSE
  BY <1>1 DEF Spawn, FamilyGrows, FamilyEnds, ShellExit, ChildExited, OrphanReaped
<1>2. ASSUME NEW x \in Requests, TimeoutFires(x) PROVE FALSE
  BY <1>2 DEF TimeoutFires, KillProcessGroup
<1>3. ASSUME NEW x \in Requests, Joined(x) PROVE pc[r] = "joining" /\ ~family[r]
  BY <1>3 DEF Joined, KillProcessGroup
<1>4. ASSUME NEW x \in Requests, Dropped(x) PROVE FALSE
  BY <1>4 DEF Dropped
<1>5. CASE UNCHANGED vars
  BY <1>5 DEF vars
<1> QED
  BY <1>1, <1>2, <1>3, <1>4, <1>5 DEF Next, Over

\* A kill ends another request's shell only if nothing of the killer's group is
\* left: a shell not reaped, or a descendant, holds the number (exec.rs:467-482).
THEOREM ForeignHitsOnlyWhenGone == Spec => ForeignHitOnlyWhenGone
<1>1. IInv /\ [Next]_vars =>
        [\A r, q \in Requests : slain'[q] = r /\ slain[q] # r /\ q # r => pc[r] = "joining" /\ ~family[r]]_vars
  BY StepHits
<1> QED
  BY <1>1, Inductive, PTL DEF Spec, ForeignHitOnlyWhenGone
==============================================================================
