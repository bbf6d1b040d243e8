------------------------ MODULE EditorChecker_proofs ------------------------
(***************************************************************************)
(* The editor's checker for any number of documents, events and openings:  *)
(* the state is well typed, every directory has a call that will remove    *)
(* it, and no outdated report is put up.                                   *)
(*                                                                         *)
(* DirectoriesOwned is inductive as it stands: what a call does depends on *)
(* its own record and on the version of its object, and a directory is     *)
(* known by the number of the call that made it.                           *)
(***************************************************************************)
EXTENDS EditorChecker, TLAPS

\* The report that Show puts up.
ReportOf(r, kind) == [object |-> r.object, version |-> r.version, config |-> r.config, kind |-> kind]

LEMMA ShowDoes ==
  ASSUME TypeOK, NEW r \in runs, NEW kind \in {"report", "failure"}, Show(r, kind)
  PROVE  /\ shown' \in [Docs -> SUBSET Reports]
         /\ \A d \in Docs : AtMostOne(shown'[d])
         /\ \A d \in Docs : \A s \in shown'[d] \ shown[d] : version[<<d, s.object>>] = s.version
<1>1. r \in Calls /\ shown \in [Docs -> SUBSET Reports] /\ \A d \in Docs : AtMostOne(shown[d])
  BY DEF TypeOK
<1>2. CASE shown' = shown
  BY <1>1, <1>2
<1>3. CASE shown' # shown
  <2>1. /\ shown' = [shown EXCEPT ![r.doc] = {ReportOf(r, kind)}]
        /\ version[<<r.doc, r.object>>] = r.version
    BY <1>3 DEF Show, ReportOf
  <2>2. ReportOf(r, kind) \in Reports /\ r.doc \in Docs
    BY <1>1 DEF Calls, Reports, ReportOf
  <2>3. \A d \in Docs : shown'[d] = IF d = r.doc THEN {ReportOf(r, kind)} ELSE shown[d]
    BY <1>1, <2>1, <2>2
  <2>4. shown' \in [Docs -> SUBSET Reports]
    BY <1>1, <2>1, <2>2
  <2>5. \A d \in Docs : AtMostOne(shown'[d])
    BY <1>1, <2>3 DEF AtMostOne
  <2>6. \A d \in Docs : \A s \in shown'[d] \ shown[d] : version[<<d, s.object>>] = s.version
    BY <2>1, <2>3 DEF ReportOf
  <2> QED BY <2>4, <2>5, <2>6
<1> QED BY <1>2, <1>3

\* A call goes on, or a new one starts; the rest of the state keeps its kinds.
LEMMA QueueDoes ==
  ASSUME TypeOK, NEW docs, docs \subseteq Docs, NEW objects \in [Docs -> 0..MaxOpens],
         \A d \in docs : objects[d] # 0, Queue(docs, objects)
  PROVE  timer' \in [Docs -> SUBSET (1..MaxOpens)] /\ \A d \in Docs : AtMostOne(timer'[d])
<1>1. timer \in [Docs -> SUBSET (1..MaxOpens)] /\ \A d \in Docs : AtMostOne(timer[d])
  BY DEF TypeOK
<1>2. \A d \in docs : objects[d] \in 1..MaxOpens
  BY EditorAssumption
<1>3. timer' = [d \in Docs |-> IF d \in docs THEN {objects[d]} ELSE timer[d]]
  BY DEF Queue
<1>4. timer' \in [Docs -> SUBSET (1..MaxOpens)]
  BY <1>1, <1>2, <1>3
<1>5. \A d \in Docs : AtMostOne(timer'[d])
  BY <1>1, <1>3 DEF AtMostOne
<1> QED BY <1>4, <1>5

\* What an event changes besides the versions and the timers.
LEMMA EventTypes ==
  ASSUME TypeOK, Event
  PROVE  events' \in 0..MaxEvents /\ events' = events + 1 /\ events \in 0..MaxEvents /\ events' > events
  BY EditorAssumption DEF TypeOK, Event

----------------------------------------------------------------------------
(* The user's events. *)

LEMMA OpenKeeps ==
  ASSUME TypeOK, NEW d \in Docs, Open(d)
  PROVE  TypeOK'
<1>1. Event /\ events' \in 0..MaxEvents /\ events' = events + 1 /\ events \in Nat
  BY EventTypes DEF Open
<1>2. open' \subseteq Docs /\ object' \in [Docs -> 0..MaxOpens] /\ \A e \in open' : object'[e] # 0
  <2>1. object[d] \in 0..MaxOpens /\ object[d] < MaxOpens /\ object' = [object EXCEPT ![d] = object[d] + 1]
    BY DEF Open, TypeOK
  <2>2. object[d] + 1 \in 0..MaxOpens /\ object[d] + 1 # 0
    BY <2>1, EditorAssumption
  <2>3. open' = open \cup {d}
    BY DEF Open
  <2> QED BY <2>1, <2>2, <2>3 DEF TypeOK
<1>3. version' \in [Objects -> 0..events']
  <2>1. version \in [Objects -> 0..events] /\ version' = [version EXCEPT ![<<d, object'[d]>>] = 1]
    BY DEF Open, TypeOK
  <2>2. 0..events \subseteq 0..events' /\ 1 \in 0..events'
    BY <1>1
  <2> QED BY <2>1, <2>2
<1>4. timer' \in [Docs -> SUBSET (1..MaxOpens)] /\ \A e \in Docs : AtMostOne(timer'[e])
  <2>1. object'[d] # 0 /\ object' \in [Docs -> 0..MaxOpens] /\ Queue({d}, object')
    BY <1>2 DEF Open
  <2> QED BY <2>1, QueueDoes
<1>5. UNCHANGED <<runs, shown, config, started>>
  BY DEF Open
<1>6. disposed' \in BOOLEAN
  BY DEF Open, TypeOK
<1> QED BY <1>1, <1>2, <1>3, <1>4, <1>5, <1>6 DEF TypeOK

LEMMA ChangeKeeps ==
  ASSUME TypeOK, NEW d \in Docs, Change(d)
  PROVE  TypeOK'
<1>1. Event /\ events' \in 0..MaxEvents /\ events' = events + 1 /\ events \in Nat
  BY EventTypes DEF Change
<1>2. version' \in [Objects -> 0..events']
  <2>1. /\ version \in [Objects -> 0..events]
        /\ version' = [version EXCEPT ![<<d, object[d]>>] = version[<<d, object[d]>>] + 1]
    BY DEF Change, TypeOK
  <2>2. <<d, object[d]>> \in Objects
    BY DEF TypeOK, Objects
  <2>3. 0..events \subseteq 0..events' /\ version[<<d, object[d]>>] + 1 \in 0..events'
    BY <1>1, <2>1, <2>2
  <2> QED BY <2>1, <2>3
<1>3. timer' \in [Docs -> SUBSET (1..MaxOpens)] /\ \A e \in Docs : AtMostOne(timer'[e])
  <2>1. object[d] # 0 /\ object \in [Docs -> 0..MaxOpens] /\ Queue({d} \cap {e \in Docs : CheckOnChange}, object)
    BY DEF Change, TypeOK
  <2> QED BY <2>1, QueueDoes
<1>4. UNCHANGED <<open, object, runs, shown, config, started>>
  BY DEF Change
<1>5. disposed' \in BOOLEAN
  BY DEF Change, TypeOK
<1> QED BY <1>1, <1>2, <1>3, <1>4, <1>5 DEF TypeOK

\* Saving, closing, changing the settings and leaving.
LEMMA OtherEventKeeps ==
  ASSUME TypeOK, Configure \/ Dispose \/ \E d \in Docs : Save(d) \/ Close(d)
  PROVE  TypeOK'
<1>1. Event /\ events' \in 0..MaxEvents /\ events' = events + 1 /\ events \in Nat
  <2>1. Event
    BY DEF Configure, Dispose, Save, Close
  <2> QED BY <2>1, EventTypes
<1>2. UNCHANGED <<object, version, runs, started>>
  BY DEF Configure, Dispose, Save, Close
<1>3. version' \in [Objects -> 0..events']
  <2>1. version \in [Objects -> 0..events] /\ 0..events \subseteq 0..events'
    BY <1>1 DEF TypeOK
  <2> QED BY <1>2, <2>1
<1>4. open' \subseteq open
  BY DEF Configure, Dispose, Save, Close
<1>5. config' \in 0..MaxConfigs
  <2>1. config \in 0..MaxConfigs /\ MaxConfigs \in Nat
    BY EditorAssumption DEF TypeOK
  <2>2. config' = config \/ (config < MaxConfigs /\ config' = config + 1)
    BY DEF Configure, Dispose, Save, Close
  <2> QED BY <2>1, <2>2
<1>6. disposed' \in BOOLEAN
  BY DEF Configure, Dispose, Save, Close, TypeOK
<1>7. timer' \in [Docs -> SUBSET (1..MaxOpens)] /\ \A d \in Docs : AtMostOne(timer'[d])
  <2>1. CASE Configure
    <3>1. object \in [Docs -> 0..MaxOpens] /\ open \subseteq Docs /\ (\A d \in open : object[d] # 0) /\ Queue(open, object)
      BY <2>1 DEF Configure, TypeOK
    <3> QED BY <3>1, QueueDoes
  <2>2. ASSUME NEW d \in Docs, Save(d)
        PROVE  timer' \in [Docs -> SUBSET (1..MaxOpens)] /\ \A e \in Docs : AtMostOne(timer'[e])
    <3>1. object \in [Docs -> 0..MaxOpens] /\ object[d] # 0 /\ Queue({d}, object)
      BY <2>2 DEF Save, TypeOK
    <3> QED BY <3>1, QueueDoes
  <2>3. CASE \E d \in Docs : Close(d)
    <3>1. timer' = timer
      BY <2>3 DEF Close
    <3> QED BY <3>1 DEF TypeOK
  <2>4. CASE Dispose
    <3>1. timer' = [d \in Docs |-> {}]
      BY <2>4 DEF Dispose
    <3> QED BY <3>1 DEF AtMostOne
  <2> QED BY <2>1, <2>2, <2>3, <2>4
<1>8. shown' \in [Docs -> SUBSET Reports] /\ \A d \in Docs : AtMostOne(shown'[d])
  <2>1. CASE shown' = shown
    BY <2>1 DEF TypeOK
  <2>2. ASSUME NEW d \in Docs, Close(d)
        PROVE  shown' \in [Docs -> SUBSET Reports] /\ \A e \in Docs : AtMostOne(shown'[e])
    <3>1. shown \in [Docs -> SUBSET Reports] /\ shown' = [shown EXCEPT ![d] = {}]
      BY <2>2 DEF Close, TypeOK
    <3> QED BY <3>1 DEF TypeOK, AtMostOne
  <2>3. CASE Dispose
    <3>1. shown' = [d \in Docs |-> {}]
      BY <2>3 DEF Dispose
    <3> QED BY <3>1 DEF AtMostOne
  <2> QED BY <2>1, <2>2, <2>3 DEF Configure, Save
<1> QED BY <1>1, <1>2, <1>3, <1>4, <1>5, <1>6, <1>7, <1>8 DEF TypeOK

----------------------------------------------------------------------------
(* The calls of validate(). *)

LEMMA FireKeeps ==
  ASSUME TypeOK, NEW d \in Docs, Fire(d)
  PROVE  TypeOK'
<1>1. PICK o \in timer[d] :
        /\ timer' = [timer EXCEPT ![d] = timer[d] \ {o}]
        /\ runs' = runs \cup {[id |-> started + 1, doc |-> d, object |-> o,
                               version |-> version[<<d, o>>], config |-> 0, at |-> "mkdtemp"]}
  BY DEF Fire
<1>2. UNCHANGED <<open, object, version, shown, config, events>> /\ started' = started + 1
  BY DEF Fire
<1>3. o \in 1..MaxOpens /\ <<d, o>> \in Objects
  BY DEF TypeOK, Objects
<1>4. version[<<d, o>>] \in 0..MaxEvents
  <2>1. version[<<d, o>>] \in 0..events /\ events \in 0..MaxEvents
    BY <1>3 DEF TypeOK
  <2> QED BY <2>1, EditorAssumption
<1>5. [id |-> started + 1, doc |-> d, object |-> o,
       version |-> version[<<d, o>>], config |-> 0, at |-> "mkdtemp"] \in Calls
  BY <1>3, <1>4, EditorAssumption DEF Calls, TypeOK
<1>6. runs' \subseteq Calls /\ started' \in Nat /\ \A r \in runs' : r.id \in 1..started'
  BY <1>1, <1>2, <1>5 DEF TypeOK
<1>7. timer' \in [Docs -> SUBSET (1..MaxOpens)] /\ \A e \in Docs : AtMostOne(timer'[e])
  BY <1>1 DEF TypeOK, AtMostOne
<1>8. disposed' \in BOOLEAN
  BY DEF Fire, TypeOK
<1> QED BY <1>2, <1>6, <1>7, <1>8 DEF TypeOK

Step(r) == Mkdtemp(r) \/ WriteFile(r) \/ RunEnds(r) \/ Rm(r)

LEMMA StepDoes ==
  ASSUME TypeOK, NEW r \in runs, Step(r)
  PROVE  /\ \/ runs' = runs \ {r}
            \/ \E q \in Calls : q.id = r.id /\ runs' = (runs \ {r}) \cup {q}
         /\ shown' = shown \/ \E kind \in {"report", "failure"} : Show(r, kind)
         /\ UNCHANGED <<open, object, version, timer, config, events, started, disposed>>
<1>1. r \in Calls /\ config \in 0..MaxConfigs
  BY DEF TypeOK
<1>2. \A at \in {"mkdtemp", "writeFile", "run", "rm"} :
        /\ [r EXCEPT !.at = at] \in Calls /\ [r EXCEPT !.at = at].id = r.id
        /\ [r EXCEPT !.at = at, !.config = config] \in Calls
        /\ [r EXCEPT !.at = at, !.config = config].id = r.id
  BY <1>1 DEF Calls
<1>3. CASE Mkdtemp(r)
  BY <1>2, <1>3 DEF Mkdtemp, At
<1>4. CASE WriteFile(r)
  BY <1>2, <1>4 DEF WriteFile, At
<1>5. CASE RunEnds(r)
  BY <1>2, <1>5 DEF RunEnds, At
<1>6. CASE Rm(r)
  BY <1>6 DEF Rm
<1> QED BY <1>3, <1>4, <1>5, <1>6 DEF Step

LEMMA StepKeeps ==
  ASSUME TypeOK, NEW r \in runs, Step(r)
  PROVE  TypeOK'
<1>1. UNCHANGED <<open, object, version, timer, config, events, started>>
  BY StepDoes
<1>2. disposed' \in BOOLEAN
  BY StepDoes DEF TypeOK
<1>3. runs' \subseteq Calls /\ \A q \in runs' : q.id \in 1..started
  BY StepDoes DEF TypeOK
<1>4. shown' \in [Docs -> SUBSET Reports] /\ \A d \in Docs : AtMostOne(shown'[d])
  <2>1. CASE shown' = shown
    BY <2>1 DEF TypeOK
  <2> QED BY <2>1, StepDoes, ShowDoes
<1> QED BY <1>1, <1>2, <1>3, <1>4 DEF TypeOK

----------------------------------------------------------------------------
(* The directories. *)

\* A call keeps its number and, after mkdtemp, its directory until it removes it.
LEMMA OwnedAfterStep ==
  ASSUME TypeOK, TempsOwned, NEW r \in runs, Step(r)
  PROVE  TempsOwned'
<1>1. r \in Calls
  BY DEF TypeOK
<1>2. ASSUME NEW q, q.id = r.id, q.at # "mkdtemp",
             runs' = (runs \ {r}) \cup {q}, temps' \subseteq temps \cup {r.id}
      PROVE  TempsOwned'
  <2>1. SUFFICES ASSUME NEW id \in temps' PROVE \E c \in runs' : c.id = id /\ c.at # "mkdtemp"
    BY DEF TempsOwned
  <2>2. CASE id = r.id
    BY <1>2, <2>2
  <2>3. CASE id # r.id
    <3>1. id \in temps
      BY <1>2, <2>1, <2>3
    <3>2. PICK c \in runs : c.id = id /\ c.at # "mkdtemp"
      BY <3>1 DEF TempsOwned
    <3> QED BY <1>2, <2>3, <3>2
  <2> QED BY <2>2, <2>3
<1>3. \A at \in {"writeFile", "run", "rm"} :
        /\ [r EXCEPT !.at = at].id = r.id /\ [r EXCEPT !.at = at].at # "mkdtemp"
        /\ [r EXCEPT !.at = at, !.config = config].id = r.id
        /\ [r EXCEPT !.at = at, !.config = config].at # "mkdtemp"
  BY <1>1 DEF Calls
<1>4. CASE runs' = runs \ {r} /\ ((r.at = "mkdtemp" /\ temps' = temps) \/ temps' = temps \ {r.id})
  <2>1. SUFFICES ASSUME NEW id \in temps' PROVE \E c \in runs' : c.id = id /\ c.at # "mkdtemp"
    BY DEF TempsOwned
  <2>2. PICK c \in runs : c.id = id /\ c.at # "mkdtemp"
    BY <1>4, <2>1 DEF TempsOwned
  <2>3. c # r
    BY <1>4, <2>1, <2>2
  <2> QED BY <1>4, <2>2, <2>3
<1>5. CASE Mkdtemp(r)
  <2>1. CASE runs' = (runs \ {r}) \cup {[r EXCEPT !.at = "writeFile"]} /\ temps' = temps \cup {r.id}
    BY <1>2, <1>3, <2>1
  <2>2. CASE r.at = "mkdtemp" /\ runs' = runs \ {r} /\ temps' = temps
    BY <1>4, <2>2
  <2> QED BY <1>5, <2>1, <2>2 DEF Mkdtemp, At
<1>6. CASE WriteFile(r)
  BY <1>2, <1>3, <1>6 DEF WriteFile, At
<1>7. CASE RunEnds(r)
  BY <1>2, <1>3, <1>7 DEF RunEnds, At
<1>8. CASE Rm(r)
  BY <1>4, <1>8 DEF Rm
<1> QED BY <1>5, <1>6, <1>7, <1>8 DEF Step

----------------------------------------------------------------------------
(* The theorems. *)

LEMMA IInvStays ==
  ASSUME DirectoriesOwned, Next \/ UNCHANGED editorVars
  PROVE  DirectoriesOwned'
<1>1. TypeOK /\ TempsOwned
  BY DEF DirectoriesOwned
<1>2. ASSUME NEW d \in Docs, Open(d) \/ Change(d) \/ Save(d) \/ Close(d)
      PROVE  DirectoriesOwned'
  <2>1. TypeOK'
    BY <1>1, <1>2, OpenKeeps, ChangeKeeps, OtherEventKeeps
  <2>2. runs' = runs /\ temps' = temps
    BY <1>2 DEF Open, Change, Save, Close
  <2> QED BY <1>1, <2>1, <2>2 DEF DirectoriesOwned, TempsOwned
<1>3. ASSUME NEW d \in Docs, Fire(d)
      PROVE  DirectoriesOwned'
  <2>1. TypeOK'
    BY <1>1, <1>3, FireKeeps
  <2>2. runs \subseteq runs' /\ temps' = temps
    BY <1>3 DEF Fire
  <2> QED BY <1>1, <2>1, <2>2 DEF DirectoriesOwned, TempsOwned
<1>4. CASE Configure \/ Dispose
  <2>1. TypeOK'
    BY <1>1, <1>4, OtherEventKeeps
  <2>2. runs' = runs /\ temps' = temps
    BY <1>4 DEF Configure, Dispose
  <2> QED BY <1>1, <2>1, <2>2 DEF DirectoriesOwned, TempsOwned
<1>5. ASSUME NEW r \in runs, Step(r)
      PROVE  DirectoriesOwned'
  BY <1>1, <1>5, StepKeeps, OwnedAfterStep DEF DirectoriesOwned
<1>6. CASE UNCHANGED editorVars
  <2>1. disposed' \in BOOLEAN
    BY <1>1, <1>6 DEF editorVars, TypeOK
  <2>2. UNCHANGED <<open, object, version, timer, runs, temps, shown, config, events, started>>
    BY <1>6 DEF editorVars
  <2> QED BY <1>1, <2>1, <2>2 DEF DirectoriesOwned, TypeOK, TempsOwned
<1> QED BY <1>2, <1>3, <1>4, <1>5, <1>6 DEF Next, Step

LEMMA IInvStarts ==
  ASSUME Init
  PROVE  DirectoriesOwned
<1>1. /\ open = {} /\ object = [d \in Docs |-> 0] /\ version = [o \in Objects |-> 0]
      /\ timer = [d \in Docs |-> {}] /\ runs = {} /\ temps = {}
      /\ shown = [d \in Docs |-> {}] /\ config = 0 /\ events = 0 /\ started = 0
  BY DEF Init
<1>2. disposed \in BOOLEAN
  BY DEF Init
<1> QED BY <1>1, <1>2, EditorAssumption DEF DirectoriesOwned, TypeOK, TempsOwned, AtMostOne

\* The state is well typed and every directory belongs to a call that will remove it,
\* however the awaits of any number of checks interleave (extension.ts:106-170).
THEOREM EveryDirectoryOwned == Spec => []DirectoriesOwned
<1>1. Init => DirectoriesOwned
  BY IInvStarts
<1>2. DirectoriesOwned /\ [Next]_editorVars => DirectoriesOwned'
  BY IInvStays
<1> QED BY <1>1, <1>2, PTL DEF Spec

\* The time between reading a text and having its report does not matter: a report put
\* up is of the version its object then has (extension.ts:136-164).
THEOREM NeverOutdated == Spec => NoOutdatedReport
<1> DEFINE Fresh == \A d \in Docs : \A s \in shown'[d] \ shown[d] : version[<<d, s.object>>] = s.version
<1>1. Init => DirectoriesOwned
  BY IInvStarts
<1>2. DirectoriesOwned /\ [Next]_editorVars => DirectoriesOwned'
  BY IInvStays
<1>3. DirectoriesOwned /\ [Next]_editorVars => [Fresh]_editorVars
  <2>1. SUFFICES ASSUME DirectoriesOwned, Next PROVE Fresh
    OBVIOUS
  <2>2. TypeOK /\ shown \in [Docs -> SUBSET Reports]
    BY <2>1 DEF DirectoriesOwned, TypeOK
  <2>3. CASE shown' = shown
    BY <2>3
  <2>4. ASSUME NEW r \in runs, Step(r) PROVE Fresh
    BY <2>2, <2>3, <2>4, StepDoes, ShowDoes
  <2>5. ASSUME NEW d \in Docs, Close(d) PROVE Fresh
    BY <2>2, <2>5 DEF Close
  <2>6. CASE Dispose
    BY <2>6 DEF Dispose
  <2> QED BY <2>1, <2>3, <2>4, <2>5, <2>6 DEF Next, Step, Open, Change, Save, Fire, Configure
<1> QED BY <1>1, <1>2, <1>3, PTL DEF Spec, NoOutdatedReport
=============================================================================
