---------------------------- MODULE EditorChecker ----------------------------
(***************************************************************************)
(* The editor extension's checker: a timer per document, and validate(),   *)
(* which writes the text to a directory of its own, runs the program on it *)
(* and shows the report, with an await between any two of these.  The      *)
(* user's events come at any await; between two awaits nothing comes.      *)
(*                                                                         *)
(* A document is known by its URI, and each time it is opened it is a new  *)
(* object whose version starts again.  A closed object keeps its version.  *)
(***************************************************************************)
EXTENDS Naturals, FiniteSets

CONSTANTS
  Docs,          \* URIs of documents of the language
  CheckOnChange, \* the setting miiHttp.checkOnChange
  MaxEvents,     \* bound: what the user does
  MaxOpens,      \* bound: how often one document is opened
  MaxConfigs     \* bound: changes of the settings

ASSUME EditorAssumption ==
  /\ IsFiniteSet(Docs) /\ CheckOnChange \in BOOLEAN
  /\ MaxEvents \in Nat /\ MaxOpens \in Nat /\ MaxConfigs \in Nat

VARIABLES
  open,      \* documents that are open
  object,    \* which object each document is, by how often it was opened
  version,   \* version of every object
  timer,     \* per document, the object whose check is due
  runs,      \* calls of validate() that have not returned
  temps,     \* directories that exist, by the run that made them
  shown,     \* per document, the report in the diagnostics collection
  config,    \* the settings
  events,    \* what the user did so far
  started,   \* calls of validate() so far
  disposed   \* the extension is deactivated

editorVars ==
  <<open, object, version, timer, runs, temps, shown, config, events, started, disposed>>

Objects == Docs \X (0..MaxOpens)

----------------------------------------------------------------------------
(* Events: the subscriptions of activate(). *)

\* queue(): the document's timer is set anew, for the object at hand.
Queue(docs, objects) ==
  timer' = [d \in Docs |-> IF d \in docs THEN {objects[d]} ELSE timer[d]]

Event == ~disposed /\ events < MaxEvents /\ events' = events + 1

Init ==
  /\ open = {} /\ object = [d \in Docs |-> 0] /\ version = [o \in Objects |-> 0]
  /\ timer = [d \in Docs |-> {}] /\ runs = {} /\ temps = {}
  /\ shown = [d \in Docs |-> {}] /\ config = 0 /\ events = 0 /\ started = 0
  /\ disposed = FALSE

Open(d) ==
  /\ Event /\ d \notin open /\ object[d] < MaxOpens
  /\ open' = open \cup {d}
  /\ object' = [object EXCEPT ![d] = @ + 1]
  /\ version' = [version EXCEPT ![<<d, object'[d]>>] = 1]
  /\ Queue({d}, object')
  /\ UNCHANGED <<runs, temps, shown, config, started, disposed>>

Change(d) ==
  /\ Event /\ d \in open
  /\ version' = [version EXCEPT ![<<d, object[d]>>] = @ + 1]
  /\ Queue({d} \cap {x \in Docs : CheckOnChange}, object)
  /\ UNCHANGED <<open, object, runs, temps, shown, config, started, disposed>>

Save(d) ==
  /\ Event /\ d \in open
  /\ Queue({d}, object)
  /\ UNCHANGED <<open, object, version, runs, temps, shown, config, started, disposed>>

\* The report goes; a timer and a run of the document do not.
Close(d) ==
  /\ Event /\ d \in open
  /\ open' = open \ {d}
  /\ shown' = [shown EXCEPT ![d] = {}]
  /\ UNCHANGED <<object, version, timer, runs, temps, config, started, disposed>>

Configure ==
  /\ Event /\ config < MaxConfigs
  /\ config' = config + 1
  /\ Queue(open, object)
  /\ UNCHANGED <<open, object, version, runs, temps, shown, started, disposed>>

\* Timers are cleared and the collection is disposed of; runs go on.
Dispose ==
  /\ Event
  /\ disposed' = TRUE
  /\ timer' = [d \in Docs |-> {}] /\ shown' = [d \in Docs |-> {}]
  /\ UNCHANGED <<open, object, version, runs, temps, config, started>>

----------------------------------------------------------------------------
(* validate(). *)

\* The version and the text are read before the first await.
Fire(d) ==
  /\ \E o \in timer[d] :
       /\ timer' = [timer EXCEPT ![d] = @ \ {o}]
       /\ runs' = runs \cup {[id |-> started + 1, doc |-> d, object |-> o,
                              version |-> version[<<d, o>>], config |-> 0, at |-> "mkdtemp"]}
  /\ started' = started + 1
  /\ UNCHANGED <<open, object, version, temps, shown, config, events, disposed>>

At(r, at, next) == r.at = at /\ runs' = (runs \ {r}) \cup {next}

\* Mutant: the report is shown whatever was edited meanwhile.
ShowAlways(r, kind) ==
  shown' = IF disposed THEN shown
           ELSE [shown EXCEPT ![r.doc] = {[object |-> r.object, version |-> r.version, config |-> r.config, kind |-> kind]}]

\* A report of a version that is not the object's any more is dropped; a
\* disposed collection throws, and nothing is shown.
Show(r, kind) ==
  shown' = IF disposed \/ version[<<r.doc, r.object>>] # r.version THEN shown
           ELSE [shown EXCEPT ![r.doc] = {[object |-> r.object, version |-> r.version, config |-> r.config, kind |-> kind]}]

\* Without a directory the failure is shown and there is nothing to remove.
Mkdtemp(r) ==
  /\ \/ /\ At(r, "mkdtemp", [r EXCEPT !.at = "writeFile"])
        /\ temps' = temps \cup {r.id} /\ UNCHANGED shown
     \/ /\ r.at = "mkdtemp" /\ runs' = runs \ {r}
        /\ Show(r, "failure") /\ UNCHANGED temps
  /\ UNCHANGED <<open, object, version, timer, config, events, started, disposed>>

\* The settings are read when the file is written, and the program is spawned.
WriteFile(r) ==
  /\ \/ At(r, "writeFile", [r EXCEPT !.at = "run", !.config = config]) /\ UNCHANGED shown
     \/ At(r, "writeFile", [r EXCEPT !.at = "rm"]) /\ Show(r, "failure")
  /\ UNCHANGED <<open, object, version, timer, temps, config, events, started, disposed>>

\* Mutant: an outdated report returns before the directory is removed.
RunEndsEarly(r) ==
  /\ \/ At(r, "run", [r EXCEPT !.at = "rm"]) /\ version[<<r.doc, r.object>>] = r.version
     \/ r.at = "run" /\ runs' = runs \ {r} /\ version[<<r.doc, r.object>>] # r.version
  /\ \E kind \in {"report", "failure"} : Show(r, kind)
  /\ UNCHANGED <<open, object, version, timer, temps, config, events, started, disposed>>

\* run() settles once, by the close of the program, its error or ten seconds;
\* what follows it up to the next await is one step.
RunEnds(r) ==
  /\ At(r, "run", [r EXCEPT !.at = "rm"])
  /\ \E kind \in {"report", "failure"} : Show(r, kind)
  /\ UNCHANGED <<open, object, version, timer, temps, config, events, started, disposed>>

\* Mutant: the wrong directory.
RmLast(r) ==
  /\ r.at = "rm"
  /\ runs' = runs \ {r} /\ temps' = temps \ {started}
  /\ UNCHANGED <<open, object, version, timer, shown, config, events, started, disposed>>

\* finally
Rm(r) ==
  /\ r.at = "rm"
  /\ runs' = runs \ {r} /\ temps' = temps \ {r.id}
  /\ UNCHANGED <<open, object, version, timer, shown, config, events, started, disposed>>

Next ==
  \/ \E d \in Docs : Open(d) \/ Change(d) \/ Save(d) \/ Close(d) \/ Fire(d)
  \/ Configure \/ Dispose
  \/ \E r \in runs : Mkdtemp(r) \/ WriteFile(r) \/ RunEnds(r) \/ Rm(r)

Spec == Init /\ [][Next]_editorVars

\* A timer fires, an operation on a file ends, and so does run(), which its
\* own timer ends; what the user does is not fair.
RunOf(id) == \E r \in runs : r.id = id /\ (Mkdtemp(r) \/ WriteFile(r) \/ RunEnds(r) \/ Rm(r))

FairSpec ==
  /\ Spec
  /\ \A d \in Docs : WF_editorVars(Fire(d))
  /\ \A id \in 1..(MaxEvents * Cardinality(Docs)) : WF_editorVars(RunOf(id))

----------------------------------------------------------------------------
(* Properties. *)

Calls ==
  [id : Nat, doc : Docs, object : 1..MaxOpens, version : 0..MaxEvents, config : 0..MaxConfigs,
   at : {"mkdtemp", "writeFile", "run", "rm"}]
Reports ==
  [object : 1..MaxOpens, version : 0..MaxEvents, config : 0..MaxConfigs, kind : {"report", "failure"}]
AtMostOne(set) == \A x, y \in set : x = y

\* Documents, versions, timers, runs and reports keep to their kinds: an open document
\* has been opened, no version runs ahead of the user, and a document has one timer and
\* one report (extension.ts:106-170).
TypeOK ==
  /\ open \subseteq Docs /\ object \in [Docs -> 0..MaxOpens] /\ \A d \in open : object[d] # 0
  /\ events \in 0..MaxEvents /\ version \in [Objects -> 0..events]
  /\ timer \in [Docs -> SUBSET (1..MaxOpens)] /\ shown \in [Docs -> SUBSET Reports]
  /\ \A d \in Docs : AtMostOne(timer[d]) /\ AtMostOne(shown[d])
  /\ config \in 0..MaxConfigs /\ disposed \in BOOLEAN
  /\ started \in Nat /\ runs \subseteq Calls /\ \A r \in runs : r.id \in 1..started

\* A report put up is of the version its object then has: the time between
\* reading the text and having the report does not matter
\* (extension.ts:136-164).
NoOutdatedReport ==
  [][\A d \in Docs : \A s \in shown'[d] \ shown[d] : version[<<d, s.object>>] = s.version]_editorVars

\* Every directory belongs to a call that will remove it, its own
\* (extension.ts:142-168).
TempsOwned == \A id \in temps : \E r \in runs : r.id = id /\ r.at # "mkdtemp"

\* The state is well typed, and every directory has a call that will remove it.
DirectoriesOwned == TypeOK /\ TempsOwned

\* When the user stops, no call and no directory is left, and with checkOnChange
\* every open document shows a report: of the text it has, if it was not opened
\* again; else of that, or of what it was when it was closed, for a run of a closed
\* object ends like any other.  Without checkOnChange an edit during a check drops
\* its report and queues no other (extension.ts:65-69, 136-170).
SettledChecked ==
  <>[](/\ runs = {} /\ temps = {}
       /\ CheckOnChange /\ ~disposed => \A d \in open : \E s \in shown[d] : s.object < object[d] \/ s.version = version[<<d, object[d]>>])
==============================================================================
