# A verification model of mii-http

mii-http is a program that reads a `.http` specs file and serves it: each endpoint names its
parameters with their types and an `Exec`, a shell command into which the values of a request are
put. A `client!` macro generates a typed client from the same file. This directory holds TLA+ modules that model the program, the configurations with which TLC
checks small instances of them, and theorems about them that TLAPS checks for every instance.
`PROJECT.json` lists the runs, the mutants (bugs the properties are shown to catch), the source
lines each definition stands for, the hazards, the findings and the theorems.

Paths below are relative to the repository: `exec.rs` is `src/exec.rs`, and so on; the client's
crates are `crates/mii-http-client` (runtime) and `crates/mii-http-client-macros` (macro).

    tlc -workers 2 -config MCBufferedExec.cfg MCBufferedExec     # check one run
    tlapm BufferedExec_proofs.tla                                # check one set of proofs

## 1. The system

### Components

| Component | State it keeps | Operations | What makes it right |
|---|---|---|---|
| **Startup** (`main.rs`, `check`, `serve`, `build_router`) | options, diagnostics, the route map | read the arguments, parse, check, report or abort, resolve the static values, merge and mount the routes, bind | one verdict however it is asked for; a file with errors is never served; every endpoint is at its route |
| **Specs parser** (`parse/spec.rs`) | a cursor over the lines, the endpoint being read, diagnostics | one loop each for setup, endpoints, directives, brace blocks, Exec blocks | it ends; a file without errors has been read by its brackets, and in place |
| **Checker** (`check.rs`) | the keys already seen | rules per endpoint | what it accepts is safe to render and to mount |
| **Request gate** (`server.rs`) | none between requests; within one, the context so far | extract, body size, authenticate, query, headers, path, VARs, body, dry run | only a request good at every gate is executed; the first defect answers |
| **Renderer** (`exec.rs`, upper half) | words, commands, lines, the input, temporary files | resolve references, quote, omit groups, materialise binaries | each value is one quoted word; the script has the words of the Exec, `build_argv`'s list where no file is named; files are held |
| **Buffered execution** (`run_shell`) | the child, two reader tasks, stdin, timer | spawn, write stdin, read, wait or time out, join, kill | complete output, no survivors, TIMEOUT kept |
| **Streaming execution** (`spawn_streaming`, `run_streaming`) | four tasks, a channel of 8 chunks | push, pump, collect, complete; the client reads, stalls or leaves | a clean end is complete; resources are freed |
| **Editor checker** (`extension.ts`) | a timer per document, runs under way, the shown reports | queue, validate, the events of the editor | no outdated report, no directory left, the last text is checked |
| **Exec parser** (`parse/exec.rs`) | none: a place in the line | split a line into stages, tokens, pieces and parts | the words of the command are those its author wrote, and so are the references |
| **Value validation** (`value.rs`) | none | accept a text or a JSON value for a type | what a command gets is in its field's range |
| **Multipart** (`split_multipart`, `parse_multipart`) | none | find delimiters, cut parts, read their headers | the form that was sent is the form that is read |
| **Client macro** | per invocation: method names, mapped endpoints, errors | parse the mapping, find each line's endpoint, generate types and a method, or an error | a client is generated exactly if every line binds one endpoint and its names do not collide |
| **Client runtime** | base URL and bearer token | new, set or clear the token, build and send a request, read the response | the call reaches its endpoint; it is refused only for its values; an `Ok` is a command that ran, or a dry run's answer |
| Diagnostics' rendering, completions, hover, definitions | none (pure functions) | | see section 8 |

### How they interact

    main ── parse::parse ── check::check ── server::serve ── build_router ── axum (external)
                                                                  │ one task per request
       handle ── handle_inner: gates ── ExecContext ── render_shell ── run_shell | spawn_streaming
                                                                  │ fork, pipes, signals
                                                             /bin/sh -c script, its process group
    editor extension ── temp file, child process ── main --check --json
    client! ── parse::parse, check::check (at compile time) ── generated methods ── Client ── HTTP ── axum

Requests share only the immutable `AppState`, the process environment and the kernel's table of
process ids. So `RequestGate`, `ExecRender`, `BufferedExec` and `StreamingExec` follow one request
each, and `PidReuse` is the module in which several requests meet, in the one place they can.

### What is hard here

* `run_shell` is one future with five awaits, beside two detached tasks and an arbitrary command,
  and may be dropped at any await. The order of write, spawn, select, join and kill decides
  whether it deadlocks, loses output, or leaves processes and files behind.
* A streaming response has five actors around a bounded channel.
* A process id is used after its process has been reaped.
* The checker decides about references statically, the renderer resolves them by other rules.
* The checker's key of an endpoint is not the router's.
* The parser's loops take lines in several places, and recover from errors by skipping.
* An `Exec` line is read by three grammars in turn: the parser's, the renderer's and sh's.
* The client's names, URL, header and multipart encodings are undone by code that was not written
  with it: the URL parser, HTTP, the router, and a splitter that searches delimiters in raw bytes.
* The editor reads a text, awaits four times, and shows what came of it.

`PROJECT.json` lists these as hazards, at their lines, each with the properties that cover it or
the reason why none does yet.

## 2. Modules

| Module | Models | Composed of |
|---|---|---|
| `ShellGroup` | the kernel's and the command's side: group, pipes, reads, writes, kills | |
| `BufferedExec` | `run_shell` | `ShellGroup`; implements `CommandRun` |
| `CommandRun` | what a buffered execution promises | abstract |
| `StreamingExec` | `spawn_streaming`, `run_streaming`, `chunk_stream` | `ShellGroup`; implements `ByteStream` |
| `ByteStream` | what a streaming response promises | abstract |
| `PidReuse` | process ids and group kills of several requests | |
| `RequestGate` | `serve`'s static values and `handle_inner` | |
| `ValueTypes` | `validate_text`, `validate_json_value` | |
| `Multipart` | `split_multipart`, and an encoder of the form a client sends | |
| `RequestData` | requests whose values and bodies are spelled out | `RequestGate`, `ValueTypes`, `Multipart` |
| `ExecRender` | the checker's rules for an `Exec` and `render_shell_with_mode` | |
| `ShellQuote` | `shell_word`, `shell_quote`, and sh reading the result | |
| `ExecLine` | `parse_exec` and the words of a rendered command | `ShellQuote` |
| `ClientMacro` | the `client!` macro | `Multipart` (its splitting of sequences) |
| `ClientCall` | a generated method, the runtime and the way to the handler and back | `ClientMacro`, `RequestData` |
| `Startup` | `main`, `check`'s loop, `build_router`, routing | |
| `SpecParser` | the loops of `parse/spec.rs` | |
| `EditorChecker` | `Checker` and its subscriptions | |
| `X_proofs` | theorems about module `X` | `X`, TLAPS |
| `MCX` | constants of `X` for TLC | `X` |

Definitions whose comment begins with "Mutant" are not part of a specification: each is a
plausible bug in the definition it stands before, used to show that a property would notice.

### How state and actions correspond to the code

**ShellGroup.** `shell`, `fg` and `bg` are the `/bin/sh` of `Command::new("/bin/sh")`, the command
it waits for, and a descendant it does not wait for; `bgHolds` the pipe ends the descendant has
inherited. A pipe is a count of units. `made` is a history variable. `KillGroup` is
`kill_process_group`, `KillShellOnly` what dropping a `Child` with `kill_on_drop` does. Commands
are arbitrary: any action of `ProgramStep` may be taken or not, and once a command is in a `read`
or a `write` only the kernel gets it out (`KernelStep`). A SIGKILL is modelled as the end of its
target at once. A process that leaves the group (`setsid`) is outside of this module, as it is out
of reach of `kill(-pgid)`.

**BufferedExec.** `pc` names the await at which `run_shell` is suspended: `"writing"` is
`write_all(...).await` (exec.rs:439), `"selecting"` the `select!` or `wait` (464-477), `"joiningOut"`
and `"joiningErr"` lines 478 and 479. All code between two awaits is one action, because nothing
else of the future runs in between. `reader` and `buf` belong to the two tasks of 445-462.
`Disconnect` drops the future at any await: which pipes close, and what is killed, depends on what
had been moved into the tasks by then. The value returned is `result`; `temps` is the life of
`rendered`, a parameter of `run_shell`.

**StreamingExec.** One variable per task: `pusher` (541-543), `pump` (562-585), `collector`
(551-559), `completion` (587-613), and `client`, the receiver's end in `chunk_stream`. `chunks`,
with `errQueued`, is the channel; an `Err` item is the last its sender queues.

**PidReuse.** `pid[r]` is `child_id`; a number is free when no unreaped shell and no group member
has it (`Uses`). The pipes and tasks are abstracted to the three waits that matter: for the shell,
for the readers, and none.

**RequestGate.** `stage` names the gate the request is at, in the order of server.rs:177-186, and
`i` the declared item whose turn it is in a validation loop. `FieldErrors` is the set of statuses
one round of a loop may answer with, empty if it passes. `ctx` is the `ExecContext` being built.
Types are relations (`Fits`, `FitsJson`), so that the proofs hold whatever the types are; in the
runs they are `ValueTypes`' (`DataAssumption`). A text is a sequence of lexemes. Without
MAX_BODY_SIZE axum's own limit of 2 MB holds, which is `DefaultLimit`.

**ValueTypes, Multipart, RequestData.** `ValidateText` and `ValidateJson` have one line per type;
which number a text reads as is the standard library's and a constant (`IntOf`, `FloatOf`, with NaN
among the floats, as `f64::from_str` has it). `Split` is `split_multipart` over a sequence of pieces
of bytes: it looks for the delimiter anywhere, from behind the last one found on (`Spaced`), takes the windows between two of them, strips one
line break at either end, and reads the header lines. `Encode` is how a sender puts a form
together (RFC 7578, and the client's own). `RequestData` composes them with the gate.

**ExecRender.** The first step is the checker: `Check` rejects the endpoint or lets it through.
Then `s`, `g`, `t` are the loop variables of `render_shell_with_mode` and `render_command`. A value
remembers the declaration it was validated against, so that a property can say what became of it.
`Shown` is `render_text_parts`. `BuildArgv` is the code's own `build_argv`: it takes a reference to a
binary value for a missing one, so a group with one is dropped there and any other word has a gap
(exec.rs:99, 104, 152), while the script has a file's name. `ScriptArgv` is the same list with the file
in its place, and is what the script is compared with; where no file is named (`NamesFile`) the two
are the same, and the script is compared with `BuildArgv` itself.

**ExecLine, ShellQuote.** `phase` says which parser is at work (a stage, a command's tokens, a
group's pieces) and `open` whether it is inside of quotes; each action takes one chunk, as the
grammar's `repeated` and `separated_by` do, and the source stage's look-ahead is in its guard. Once
a line is accepted, `Render` puts the values of a request into the words of one of its commands
(the rules of `render_command` that concern words), and `ShellQuote` takes over: a writer (`Begin`,
`Push`, `End`: the loops of `shell_word` and `shell_quote`) produces the script, then a reader
(`Read`: sh's rules for quotes, backslashes, blanks, operators, a comment and backquotes) takes it,
one character at a time. Of what the author leaves to sh without quotes, here-documents, `$(...)` and
arithmetic are not told apart from other syntax. The
reference for the parser is not a second parser but a description of the line (`WellFormed`,
`AuthorsWords`): which characters are in quotes, in brackets, in braces, and where words end.

**ClientMacro, ClientCall.** `ClientMacro` is one invocation: `phase`, the mapping `line`, the
sets `method_names` and `mapped_endpoints` (`taken`, `mapped`), `methods` generated, `faults`
pushed. `ClientCall` follows one call of a method: `NewClient`, `SetToken` (any number of times,
or none), `Start` with any arguments of the method's Rust types, `Send`, which builds URL, query,
headers and body and lets the URL parser, HTTP and the router take them; then the actions of
`RequestGate` handle it, for the same spec, with its dry run (whose answer is a 200 and so an `Ok`), and
`Receive` reads the answer. The server is down, as its `build_router` panics, if two routes are alike but
for their parameters' names, or for one route twice with one method (`Clash`); routes with other names
at one place and other rests are served, and a call to them is followed.

**Startup.** `phase` is the place in `main`, `serve` and `build_router`; `routes` is the `HashMap`
before, `router` after mounting; `MountRoute` may take the routes in any order. Code 101 is a panic.
The rules of matchit and axum (two methods on one route, two routes that differ in their parameters'
names only, as matchit 0.7 compares routes with the names made alike, literal before parameter, HEAD
served by GET) are modelled from how `build_router` uses them and marked external.

**SpecParser.** A line is its class: what it is to each loop that may read it. Between braces any line
with a colon and a type behind it is a field, whatever its first word (`GET /b/:mode:on|off`, `Exec: $
| jq`), so of these lines the class does not decide and both outcomes are taken; text behind an opening
brace is dropped (`starts_with('{')`). `mode` is the loop
the cursor is in. `current` is the endpoint being read. `errors` pairs a line with the diagnostic
given for it, 0 being the span `0..0`.

**EditorChecker.** Every `await` in `validate` separates two actions (`Mkdtemp`, `WriteFile`,
`RunEnds`, `Rm`), and events come between any two. A document opened again is a new object whose
version starts again, while a run of the closed object keeps the old one.

## 3. The runs

Every passing run ends within three minutes on two workers, most within half a minute. Safety and liveness of one component are
checked together, on the state graph of its fair specification.

| Run | Asks | Result |
|---|---|---|
| `buffered` | every interleaving of handler, readers, disconnect and command: is a result complete, does anything survive, are the files held, is `CommandRun` implemented? What does a TIMEOUT, an end of the command, or a write begun lead to? | holds |
| `timeout_enforced` | is TIMEOUT enforced (README.md:255)? | **violated**, see section 6 |
| `streaming` | every interleaving of the five actors: is a clean end complete, are the files held, is `ByteStream` implemented? Does a TIMEOUT stop the shell whatever the client does, does the execution complete? | holds |
| `process_ids` | when may a kill end another request's shell? Only once nothing of the killer's group is left | holds |
| `gate` | is only a request good at every gate executed, with its own values; does the first defect answer; does the status tell why? Is each value in its type's range, however it came; is the form a command gets the one that was sent? | holds |
| `render` | is what the checker accepts rendered to typed, quoted words, those of the Exec, with their files and the input of the first statement? Are they `build_argv`'s where no file is named? | holds |
| `argv_constrained` | is text of no constrained type kept out of every command line (README.md:253, llm.md:85, specs.md:192)? | **violated**, see section 6 |
| `exec_line` | is a line accepted exactly if well formed, its words and references those its author wrote; does sh read back every word, and does no character of a value act, unless the author's line opens a comment or a backquote? | holds |
| `client` | is a client generated exactly if each line binds one endpoint; does a call reach its endpoint; does a command run exactly if the call's values fit, and with these values; is an `Ok` such a run, or a dry run's answer? | holds |
| `startup` | one verdict; only valid files served; panics exactly on clashes; all endpoints mounted; requests to the right one | holds |
| `spec_parser` | does the parser end; is an accepted file read by its brackets; do unclosed blocks get an error? | holds |
| `editor` | with edits, settings, closing and opening again at any await: no outdated report, no directory left; once the user stops, with checkOnChange, a report of the text of each open document that was not opened again | holds |

### Bounds, and why they are enough

* **Pipes** hold one unit, the channel one chunk. What matters is full, empty and neither blocked;
  with one unit each is reached at once. Inputs of up to two units are smaller, equal and larger
  than the pipe; `MaxOut` is two units per stream, or three to fill channel, hand and pipe. One foreground command and one descendant suffice: commands are arbitrary, and only
  "some process holds this end" is ever asked. `MaxOut` is a bound of the runs, not of the proofs,
  which hold for any value.
* **PidReuse**: three requests on two numbers: one number is given out again while the other is
  held, and a request that was signalled by a stranger can itself be a stranger to the third.
* **RequestGate**: one specification per kind of setting or declaration (every way to check a
  token, two fields of a scope of which one is optional, one per kind of body), with texts that are
  good, of the wrong type, too long, not visible ASCII or empty, alone and together. Since the gates
  are passed in turn, two defects at two gates are the most an order can be seen by.
* **ExecRender**: each reference in each position (word, group, source, first token), for each kind
  of body and each choice of optional values; two statements, two pieces and three stages where the
  rules speak of a second one.
* **ExecLine**: every line of up to four characters over fourteen classes, and every line of four
  out of sixteen fragments (a reference, an open or closed bracket, quotes with a reference in
  them, a `#`, a backquote...). Values are absent, empty, a quote followed by a character that sh would
  act on, or such characters behind a line break and a backquote. Without the exception for
  comments and backquotes `ReadsBack` is violated on a line that begins with `#`.
* **Values and forms** (gate): texts at both bounds of a range and next to them, beyond i64, with a point, NaN;
  forms of up to two parts, with data that holds line breaks, half a delimiter or bytes that are not
  UTF-8, an empty boundary, a boundary that occurs in the data, a missing terminator.
* **Client**: five specs of two to five routes with alike literals and parameters (one that the
  server panics on, one whose parameters have other names at one place), one endpoint per kind of
  value and body, a server in dry run, one spec for the macro to refuse with one or two mapping lines; arguments
  of up to two characters of those a URL, a form or a header treats in its own way; tokens that are
  right, empty, with blanks, or not sendable. One call is followed: a `Client` is only read by it.
* **Startup**: command lines of up to three words and one of five; two endpoints of any two of eleven
  alike paths and two methods, and three of them; requests of three methods and six paths.
* **SpecParser**: all files of up to three lines over nineteen classes, all of four that begin with
  a method, and a file of eleven lines that uses every loop with any two lines replaced, or one
  replaced and one left out.
* **EditorChecker**: four events of the user, one document (documents share only the timers' map,
  keyed by document), opened at most twice. The setting `miiHttp.checkOnChange` is on: without it an
  edit during a check drops the check's report and queues no other, so that nothing has to be shown
  until the next save, and `SettledChecked` claims nothing but that calls and directories go. `MaxEvents`, `MaxOpens`, `MaxConfigs` bound the user.

### Fairness

* *Server*: weak fairness of the handler and of each task: tokio polls a woken task.
* *Kernel*: weak fairness of calls that can complete, and of sh's exit once its commands ended.
* *Commands and clients*: none. A command may never read, write or end, a client may never read
  or leave. Where a property needs that they do, it says so in its hypothesis
  (`<>[]~Lingering`, `[]<>(client # "streaming" \/ chunks < ChanCap)`).
* *Timer*: the `TimeoutFires` branch belongs to a fair task; a sleep ends. Time itself is not
  modelled, so a timer may win at any moment.
* *Parser*: it is a function that runs until it returns.
* *Editor*: timers fire, file operations end, and `run` settles because of its own ten-second timer
  (extension.ts:304-307). The user is not fair.

Deadlock is checked in the execution and process id runs, where `Over` marks the legal end, and in
`exec_line`, where `LineDone` does: so every line gets its verdict, and every script is read. The
other runs say CHECK_DEADLOCK FALSE: a program that exited, a request that was answered, a file
that was parsed and a user who stopped are legal ends without a further step.

## 4. What is proved

For every value of the constants that satisfies the named assumptions (`GroupAssumption`: pipes
have a capacity; `BufferedAssumption`, `StreamingAssumption`: numbers are numbers; `PidAssumption`:
`None` is no request and no number; `ConfigAssumption`, `RequestAssumption`: names are unique where
the checker demands it, and every path parameter is bound by the router; `TypesAssumption`: ranges
have integer bounds, a number is an integer or NaN, JSON has no NaN and a JSON number's text reads
back as that number; `DataAssumption`: a pair of `Fits` is one `validate_text` accepts, fields of a body
have a declared type, a JSON value that is no array is one scalar; `SentAssumption`: the bytes of a
body that is a form somebody sent are that form's encoding, and multipart can carry it (`Carries`: the
delimiter is in nothing it delimits, no line break is in a name, no semicolon in a field's name); `InputAssumption`,
`CallAssumption`: a mapping is a sequence of non-empty lines, a client's endpoints are among the
server's; `RouteAssumption`: the slash is among the characters that `encode_path_segment` encodes, the
base is the server's root, a literal of a route is one segment of a URL as it is written (it is not
empty, not `.` or `..`, and holds no slash and no backslash), and a route's parameters are those of
its segments; `ValueAssumption`: what is written is text, a form does not carry a plus as it is, a
multipart form's boundary is new and its field names are of one line; `ExecAssumption`, `TypeAssumption`, `ContextAssumption`: an Exec is a list of non-empty
lines of non-empty commands, a context holds what the gate lets through; `EditorAssumption`:
there are finitely many documents and the bounds are numbers; `ScenarioAssumption`: a file is a list of endpoints with a number
of errors each, and a path has a segment; `FilesAssumption`: a file is a sequence of lines of known classes; `LineAssumption`: an Exec line is a
non-empty sequence of characters, none of which stands for the end, a value has at most one text, and its syntax is told from the author's). TLC evaluates all of them.

| Theorem | States |
|---|---|
| `BufferedExec_proofs!Inductive` | `Spec => []IInv`, with type correctness |
| `...!OutputIsComplete`, `NothingSurvives`, `TempFilesAreHeld` | the safety invariants of `buffered` |
| `...!OutputNotCut` | the action property `NoCutOutput` |
| `...!Refinement` | `Spec => CR!Spec`: `run_shell` implements `CommandRun` |
| `StreamingExec_proofs!Inductive`, `CleanEndIsComplete`, `TempFilesAreHeld`, `OutputNotCut`, `Refinement` | the same of a streaming response, and `ByteStream` |
| `PidReuse_proofs!Inductive`, `ForeignHitsOnlyWhenGone` | a kill ends another request's shell only if nothing of the killer's group is left |
| `ClientCall_proofs!Inductive`, `OnlyGoodExecutes`, `FirstDefectIsTold` | what is executed is good at every gate; the first defect answers |
| `ClientCall_proofs!StatusIsTrue` | the status that answers tells a defect the request has |
| `ClientCall_proofs!RangesAlwaysHold` | a value a command is given lies in its declared range, by query, header, path, form or JSON; a NaN written as text is the one exception |
| `ClientCall_proofs!FormAlwaysAsSent` | of every multipart form, of any length, the command gets the values that were sent, byte for byte and no others; a refusal names a field that is missing, unfit or not text |
| `ClientCall_proofs!CallAlwaysArrives` | a call reaches the endpoint it was generated for, with the path values it was given, whatever the other routes are, as long as no two are alike but for their parameters' names; the values a URL cannot carry and those that spell a sibling's literal are the exceptions |
| `ClientCall_proofs!AlwaysExecutesTheCall` | a command that runs for a call has the call's query, headers, path and body under the declared names, what was given and nothing else; an `Ok` comes of such a run only, or of a server in dry run |
| `ClientCall_proofs!AlwaysRunsIffFit` | a call passes every gate exactly if its token is accepted, each of its values is of the declared type and within the limits, and the VARs are bound; values a URL cannot carry and multipart names the server misreads are the exceptions |
| `ClientCall_proofs!ClientAlwaysIffSound` | the macro generates a client exactly for a sound mapping; no two of its methods have one name or one endpoint |
| `ExecRender_proofs!QuotedAlways`, `ArgvTypedAlways` | every word with a value in it is quoted; a single value that is an argument is of a constrained type or the server's own. The whole of a typed JSON or form body is the exception, see `argv_constrained` |
| `ExecRender_proofs!UnresolvedAlwaysOptional`, `TempFilesAlwaysBacked` | a group is only dropped for an optional value; every path written is a file the result holds, one for each place |
| `ExecRender_proofs!ScriptAlwaysArgv` | the script run has, word by word, what each command says, with a file for a binary value; where no file is named that is `build_argv`'s list; its input is the first statement's last source |
| `Startup_proofs!OneVerdictAlways`, `MountsAlwaysAllOrPanics`, `MergePanicAlwaysWarned` | one verdict on every path through `main`; a listening server has all of its endpoints; startup panics for one method twice on a route or for two routes alike but for their parameters' names, and for nothing else |
| `Parsers_proofs!Inductive`, `AcceptedIsRead` | a file without errors is read by its brackets: outside of braces and Execs no endpoint and no directive is lost or read in another's place, inside each line is a field or a statement of the endpoint it stands in |
| `Parsers_proofs!AlwaysReadsBack` | no character of any value acts as sh's syntax, whatever the line around it, unless its author wrote what opens a comment or a backquote; where the author left nothing to sh, it reads the words that were written, each whole and nothing else |
| `Parsers_proofs!AlwaysAsWritten` | `parse_exec` accepts a line exactly if it is well formed, and finds the words, texts and references its author sees in it, in their order |
| `Startup_proofs!AlwaysRightHandler` | a request is given to the one endpoint it is for |
| `EditorChecker_proofs!EveryDirectoryOwned`, `NeverOutdated` | every temporary directory belongs to a run that will remove it; a report put up is of the version its object then has |

**The arguments.** `OutputComplete` is not inductive: that a result has all of the output rests on
units being conserved (`Conserved`: what was made is in the buffer or in the pipe), on end-of-file
being final (`EofFinal`: a reader that has seen it leaves an empty pipe with no writer, and no
process can come to hold the end again), and on the handler joining both readers before it returns
(`HandlerShape`). `GroupShape` says what an unborn or dead group cannot hold. `StreamingExec` adds
the channel and the pump's hand to the conservation, and `PumpShape`: while the client listens the
pump ends at end-of-file or behind an error. In `PidReuse` the key is `NumbersUnique`: two requests
never use a number at once; a request that waits for its shell holds its number, as the shell is a
zombie at least (`ShellShape`). In `RequestGate`, lemmas show for each gate that the code's errors
are empty exactly if the request is `Good` by a definition that does not mention the code's order;
`GatesPassed` and `ItemsPassed` carry that past the gates, and `CtxDeclared` follows the context.
For `RangesHold` that is not enough, as nothing said what became of the body: `BodyKept` says that
from build_body on the context's body is `BodyValue` of the request, and lemmas on `ValidateText` and
`ValidateJson` turn a pair of `Fits` into a range.
`FormIsWhatWasSent` rests on `SplitIs`: `Split(Encode(form, d), d)` is the form's parts, as the server
tells them. A scan of the bytes has one outcome (`ScanMatches`: of two that agree so far, neither is
ahead), so it is enough to show that the delimiters the sender wrote are a scan: each part lies in the
bytes at its offset (`Laid`, by induction over the parts), and a delimiter that begins anywhere else
would be in what it delimits (`Occurs`, `NotInPiece`). What lies between two of them is one part's
lines, which `Part` reads back (`SegmentIs`, `NameIs`). `AnsweredLast` then says that a refusal at the
body is told of the body the handler saw. The proofs of the gate and of the macro are in one
module, that of their composition. In `ClientMacro` the invariant is `MacroInv`: each line before the
cursor is `Placed` beside those before it (`LinesDone`) or is a fault, and each fault is a reason
against `Sound`; a name set is as large as its list exactly if no name comes twice (`NamesAtMost`).
For `CallArrives` the URL is followed as `endpoint_url` writes it: `BuildPath` lays a slash and a segment
for each place of the route one behind the other (`Laid` again), no segment holds a separator
(`UrlPieceIs`: a value's slashes are encoded, a literal has none), so the parser cuts exactly there
(`UrlCuts`) and, with no dot segment to resolve (`AllKept`), the server gets what was written
(`SegmentsAre`). The own route then matches; a route that would win over it is one its values spell
(`NotBeaten`), and one that neither wins nor loses has a parameter wherever the other has one, so the two are alike
but for their parameters' names (`OtherClashes`) and the server would not have come up: `CallInv` says
that it is then down.
`ExecutesTheCall` joins the two sides: `BothInv` has the gate's `IInv` and `BodyKept`, the client's
`CallInv`, and `HeardInv`, by which the request at the gates is the one the arguments in `call`, still
there, make (`Heard`), and an answer of 200 is that of a command or of a dry run (`Ran`). The gate then says that the context has
the request's values, so it is left to undo the client's encoders: a form's characters (`UrlEncodedTold`),
a multipart form by `SplitIs` with a boundary that is new (`MultipartTold`), a JSON object (`JsonTold`),
a header's blanks (`HeadersTold`); `GivenIs` says that the fields left out are those that are `None`.
This proof changed the model too: an array of strings, a blank token and a VAR of a call were not told
apart as the code does.
`RunsIffFit` needs of each gate that its verdict on the request is a statement about the call's own
arguments: `AuthFits`, `QueryFits`, `HeadersFit`, `PathFits`, `VarsFit` and `BodyFits` say so of one gate
each, and `FirstDefect` makes the answer the conjunction of the verdicts. The token is the hard one: the
client puts a word before it, the transport takes the blanks off both ends, and the server takes the
word and one run of blanks away again. `TokenRead` shows that the caller's token is what remains, or
the bare word if the token was blank, by what trimming does to each shape of text (`TrimIs`, `EndsAre`,
`OnWireIs`). An answer has to say where it was given, and the token has to be one an application may
set: `SaidInv`.
In `ExecRender` the words written are in `Seq(S)` for a set `S` all of whose members are good
(`Written`): a token adds its own words to `S`, so no position is ever counted. `Settled` says that the
checker found nothing and what the context holds; `Headed`, that a command's program is the author's
own word; `Past`, that a temporary file is of a place the renderer has left, so that no place gets two.
`ScriptIsArgv` needs `Scripted`: of the statement under way the first stages are its sources, the
commands written are the lists of `ScriptArgv`, and the words of the command under way are that list
after the tokens read. That one more token extends the list by that token's words, and an optional
group by none or by all of its words, is an induction over the tokens, by `WFMin`.
In `Startup`, `Counted` makes the number of errors zero exactly while what was read is clean;
`Routed` makes the route table the inverse of the endpoints merged so far, whatever the order of the
map, and `Fits` says that what is mounted does not clash. Where two routes that match one path part, at the
least place at which they differ, one is literal, so preference orders the routes that match and one of
them is best; least places and induction come from `WFMin` of the well-founded induction library.
In `SpecParser`, until something is reported the mode is what the lines before the cursor say by
themselves (`Nested`: it is in a block exactly if an opening line has no closing line yet), endpoints
begin at their methods, in order and apart (`Owned`), and each line already read is held by the
endpoint it belongs to (`ReadRight`); at the end of the file that is the property.
For `ReadsBack` the invariant has to say what sh *will* read while it has read nothing yet: `Spoken` says
that some run of the reader over the characters written ends in a state that fits the writer's
(`Placed`) and that has read just the words begun (`Heard`). A character written extends that run at
its end, a character read takes its first step, and what a reader has read it keeps (`Extends`). The
words come from the parser: in a piece the author did not quote there is no quote character
(`PieceOf`), a reference forces quotes, and putting sequences one after the other adds no character
(`FlattenIs`). Places in a line are least numbers of sets that are not empty (`PastIs`, `RefIs`).
`LineAsWritten` relates a parser that goes from left to right to a description that looks at the whole
line, so `Followed` says what the two agree on at the place where the parser is. The mode is the one
the automaton has there, and what lies before it is well formed (`LexicalAt`: a reference that began
has ended, `Behind`). The piece being read is the text from its first place on, as its author sees it
(`PieceAt`), and the words read are, in their order, the stretches that end before that place
(`Listed`). A stage or a group has a word exactly if tokens or pieces were read (`SegmentAt`). To
that belongs that no source lies where a command is read (`NoSource`): the look-ahead of
`source_only` and `Alone` are shown to be one. `WellFormed` speaks of the brackets *after* a place,
so it is first turned round into what each place says of those before it (`Fine`, `WellFormedIsFine`); then
an error is shown to contradict it (`RejectFollows`). One case is not like the others: behind a
piece may stand a character that fits nothing, where the two no longer agree on where words end,
but there only an error can follow (`Doomed`). At the end the words, one for each stretch that is no
source, are counted off as `AuthorsWords` counts them (`FirstOnes`, `Accepting`).
`DirectoriesOwned` of `EditorChecker` is inductive as it stands.

The refinements are shown step by step: the initial state maps to an initial state, and each action
to one action of the abstract specification or to a stuttering step.

Liveness under fairness and ENABLED are out of the prover's reach and are model-checked only:
`TimelyAnswer`, `WritesComplete`, `ShellStopped`, `TimelyCompletion`, `Terminates`,
`SettledChecked`. The other 34 of the 40 properties the runs check are theorems.

## 5. What the properties say of the code

Some facts the runs establish that a reader of the code may not expect:

* The temporary files of a *buffered* command may be removed under a process that still runs: after
  a disconnect (only the shell is killed), and after a command that did not read its stdin and left
  a descendant. A *streaming* command's files always outlive the group (`TempFilesHeld` in both).
* A command that ends successfully without reading a large stdin is answered with 500: `write_all`
  fails with EPIPE and `?` returns (`StdinBroken`).
* A streaming command that is killed by its timeout, or exits non-zero, ends *cleanly* for the
  client, behind everything it wrote (`CleanEndComplete`); the rest is only logged.
* A client that neither reads nor leaves keeps the completion task and its temporary files, even
  with a TIMEOUT: the shell is stopped (`ShellStopped`), but the pump stays in its `send`
  (the hypothesis of `TimelyCompletion` cannot be dropped).
* A source in a second statement, or after a command, passes the checker and fails each request;
  of two sources in a row the first is dropped (`ScriptIsArgv`).
* After a line that is not a header the parser drops the following line unread (`NoHeader`); it has
  reported the first, so no *accepted* file loses anything by it (`AcceptedReadsAll`).
* In the editor, a run of a document that was closed and opened again may replace the new object's
  report by one of the old text (the exception in `SettledChecked`).
* A buffered request whose shell has exited waits for its readers without the timer (exec.rs:478):
  a descendant that keeps stdout or stderr open holds it past its TIMEOUT. This is the second way
  in which a TIMEOUT is not kept, and why `TimelyAnswer` asks for `<>[]~Lingering`.
* The kill after a normal completion (exec.rs:480) uses a number that was given back when the shell
  was reaped. Once the group is empty the kernel may have given it to another request's shell,
  which then ends with a SIGKILL (the exception in `ForeignHitOnlyWhenGone`).
* A BODY block without its end is reported with the span `0..0` (parse/spec.rs:589), the start of
  the file, an Exec block at its opener (339-344); the extension's README:8 promises exact ranges.
* The whole of a typed JSON body or of a form (`[$]`) is accepted as an argument whatever its fields'
  types are, although README.md:253 and llm.md:85 keep strings to stdin and specs.md:192 asks for
  fields that may be one (the exception `WholeBody` in `ArgvTyped`, the run `argv_constrained`):
  check_argv_safety looks at a field's type only behind a path (check.rs:327, 338, 343).
* `build_argv`, which only tests call, takes a binary value for a missing one: it drops a group that the
  script has, and leaves a gap in a word in which the script names a file (`ScriptIsArgv`).
* An accepted file can lose an endpoint: where a brace is forgotten and another closes the block later,
  a header line between them is a body field if a type stands behind a colon in it, such as
  `GET /b/:mode:on|off` (parse/spec.rs:598-602, 638-668). What stands behind an opening brace on its line is dropped
  without a diagnostic (510). `AcceptedReadsAll` says that this is the only way.
* In a line with a bare `#` at the start of a word, as in `Exec: echo hi # [%q]`, sh takes the rest for a
  comment, the quotes around a value included: a line break in the value ends the comment, and
  sh goes on with the rest of the value. In the same way a value's backquote ends one
  of the author's (`Opens`, the exception in `ReadsBack`).
* llm.md:217-224 gives `[-vf scale=%width:-1]` as one shell word with one optional sigil. The parser
  makes two words of it, and of `:-1` a reference to a path parameter `-1`, which the checker then
  does not find: the documented endpoint is rejected (`LineAsWritten` has the parser's reading).
* A later endpoint of the same method and path does not override the earlier, as check.rs:19 and
  llm.md:196 say: `merge` panics at startup (server.rs:91, `MergePanicWarned`).
* A server started with `--dry-run` answers 200 with the script's text, which the client returns as the
  command's output (`ExecutesTheCall`).
* A `float(a..b)` lets NaN through by the query, a header, the path or a form: it is below and above
  nothing (value.rs:53). By JSON it cannot come (`RangesHold`); the client writes it as `null`,
  which the server refuses.
* A file name that holds `;name=x` is read as the name of the field (server.rs:623-627), by the
  client's own encoder too (`Misread`, the exception in `FormIsWhatWasSent` and `RunsIffFit`).
* A body without its closing delimiter loses its last part in silence: parts are the windows between
  two delimiters. A delimiter inside of a part's data cuts that part. Both are outside of
  `FormIsWhatWasSent`, whose forms are encoded as RFC 7578 has it (`Carries`).
* A path value that is empty, `.`, `..`, or holds a backslash does not reach its endpoint, and one
  that spells a literal of a sibling route reaches that one (`Addressable` in `CallArrives`):
  encode_path_segment leaves these as they are, and the URL parser acts on them.
* Where the spec declares the header that carries the token, the token's value wins over the caller's,
  as it was set first (`Carried`).
* An optional header whose value is not visible ASCII counts as absent on the server (645), and blanks
  around a value are lost (`ExecutesTheCall`). An empty token arrives as `Bearer`, which
  `extract_bearer` takes for a bare token; the server accepts any token without the prefix.
* Two routes that the checker tells apart and the router does not (`/u/:a`, `/u/:b`) give a client
  that compiles and a server that panics at startup; `/u/:a` and `/u/:b/posts` are served.
* Double quotes of an author's come out as single quotes: sh expands nothing in them. A bare backslash
  at the end of a word joins it to the next in sh (`Trusted` in `ReadsBack`).
* The macro's `is_keyword` lacks some of Rust's reserved words (`do`, `final`, `box`, `try`...), and
  its names for the types of `get_v1` and `get_v_1` are one: such a client does not compile, with
  Rust's error instead of the macro's. A path typed with a regular expression cannot be written in
  a mapping line unless it is a string literal. A `VAR` read from a header that the endpoint does
  not declare has no field in the client, which therefore cannot send it. These are outside of
  `ClientMacro`'s inputs.

## 6. Findings

Each is a violation run; the counterexample is short and can be read next to the code.

1. `timeout_enforced` (exec.rs:439): the timer starts after stdin has been written whole. A command
   that does not read, or that fills its output first, holds the request past its TIMEOUT.
2. `argv_constrained` (check.rs:343): text of type `string` is said to reach stdin only; as part of
   the whole of a typed JSON body or of a form it reaches the command line, in one quoted word.

## 7. The plan

Written so far, in the order of importance: execution (`ShellGroup`, `BufferedExec`,
`StreamingExec` and their abstractions, `PidReuse`), the gate (`RequestGate`, with `ValueTypes` and
`Multipart` in `RequestData`), rendering (`ExecRender`, `ExecLine`, `ShellQuote`), the client
(`ClientMacro`, `ClientCall`), then `Startup`, `SpecParser`, `EditorChecker`.

What is left, in this order:

1. A composition of gate, rendering and execution: one request from its bytes to its answer, as an
   abstract specification of an endpoint. `ClientCall` goes as far as the start of the command.
2. The texts within a line of a specs file: types, value sources, sizes, durations.
3. The checker's warnings about patterns and bare references.

Every safety invariant and every action property of the runs is a theorem, for every value of the
constants; what the provers cannot do is the liveness of section 4.

## 8. What is not modelled, and why

* **The text within a line of a specs file** (`parse/spec.rs`, types, value sources, sizes and
  durations): pure functions of one line; `SpecParser` has the class of the line.
* **The checker's warnings** other than that of a duplicate endpoint: no later code reads them.
* **Diagnostics' rendering** (`diag.rs`), **completions, hover, definitions** (`extension.ts`), the
  **text of the generated Rust**: text in, text out.
* Which texts match a pattern, read as a number or a UUID: the `regex` and `uuid` crates and the
  standard library.
* Within the modelled parts: header names are compared as given, though HTTP ignores their case;
  `Response-Type` (two flags, cannot fail) is left out of `SpecParser`; BASE and VERSION, which
  prefix every route alike, and wildcard characters inside literal segments are left out of
  `Startup`; a NUL byte in a value makes `spawn` fail and is part of `SpawnFails`; a failing `rm` in
  the extension is left out; a form endpoint that declares Content-Type
  as a header of its own has its generated client send that header besides the one of the body, which
  `ClientCall` does not have; reads of stdout do not fail in `BufferedExec`, where `read_to_end` can
  only end early with the output lost, while `StreamingExec` models the error; wall-clock time is a
  choice.
