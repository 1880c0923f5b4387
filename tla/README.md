# A verification of the vhdlstuff language server

vhdlstuff is a language server for VHDL and SystemVerilog: an editor speaks
JSON-RPC to it over stdio, and it answers with folding ranges, symbols, hover
texts, definitions and diagnostics. This directory holds TLA+ modules that model
its concurrent core, its parser and its cache of analysed units, TLC
configurations that check them on small instances, and proofs checked by TLAPS.
`PROJECT.json` maps each definition to the lines of source it stands for and lists
the runs, the seeded faults, the findings, the hazards and the theorems.

    tlc -workers 2 -config MCWorkingFiles.cfg MCWorkingFiles
    tlapm WorkingFiles_proofs.tla

Each module `X_proofs` has the proofs about `X`; `ParserRecovery_proofs` and
`ParserUnits_proofs` extend `Parser_proofs` with the second and the third part of those
about `Parser`.

## The system

| Component | State | Operations | Modelled in |
|---|---|---|---|
| frontend, server (`src/src/lsp/frontend.*`, `server.cpp`) | requests in flight under the editor's ids, outgoing requests, `started_`, `is_running_` | dispatch, refuse, reply, cancel, exit | `Frontend` |
| client (`things/client.*`) | progress bar, persistent diagnostics | request, report, clear | `Frontend`, `Project` |
| language (`things/language.*`) | owns capabilities, client, documents, project, in this order | one handler per LSP method | handlers are actions of the others |
| working files (`things/working_files.*`) | map of open documents, one object, queue, mutex and thread each | open, save, close, four kinds of request, the thread's loop | `WorkingFiles` |
| project, explorer, compass (`things/project.*`) | version, explorer and its worker, file list, library managers | reload, start, stop, join, explore, look-ups | `Project` |
| library managers (`vhdl/`, `sv/library_manager.*`) | backends by name, known or unknown, the SQL tables | initialise, destroy, get, put | partly `Project`, `AstCache` |
| VHDL ast (`vhdl/ast.*`) | main file, cached units and their states, invalidated files | update, load units on demand | `AstCache`, by whole files `WorkingFiles` |
| SystemVerilog ast (`sv/ast.*`) | main file, imported packages | update, import on demand | partly `WorkingFiles` |
| connection (`lsp/connection.*`) | stdio framing, journal, replay | read, write | planned |
| lexer (`vhdl/lexer.*`) | ring of tokens, tokens ahead, checkpoints | scan, peek, look for, mark, backtrack, drop | `Lexer`, `TokenCursor` |
| parser (`vhdl/parser.*`, `fast_parser.*`) | states of the lists being parsed, guard against endless loops | parse, skip, resynchronise, give up | `Parser` |
| binder (`vhdl/binder.*`) | regions, the unit being bound | ask for units, resolve names | only the first, `AstCache` |
| providers, string table, serialisation, natsuki | no state of interest | pure conversions, code generation | no |

Four kinds of thread meet:

- **main** reads one message at a time and runs its handler to the end;
- each open document's **file thread** takes tasks off the document's queue and
  runs them while it holds the document's mutex, a reply included;
- the **explorer's worker** goes over the file specifications of
  `vhdl_config.yaml`, and after the last one calls back into the documents;
- none other: timers, retries and persistence do not exist. What is stored in the
  libraries is rebuilt at each start, so there is no crash recovery to model.

They share the document's queue and mutex, the map of requests in flight, the
project's version, explorer, file list and library managers (of which only the
last have a lock), the connection's write lock and the editor's view. The hard
behaviours are the interleavings of these threads: tasks superseded while others
are popped; a document closed and opened again while its old thread is still on
its way out; the reload's busy-wait against the callback; replies that race; ids
used again; the destruction of everything in order. What makes each component
correct:

- *frontend*: one response per request, nothing before `initialize`, the table
  of requests in flight true at every moment, accepted replies written;
- *working files*: first come first served, only older tasks superseded, no
  diagnostics for a closed document or from an older content, no file's
  staleness forgotten, no thread outliving the object, no request left waiting;
- *project*: one worker at a time and only over specifications that exist, its
  units kept and its end announced, progress bars that end, errors that go away,
  a reload that terminates, asts made from the current libraries;
- *library managers*: one backend per name, units put are units found, whatever
  threads ask for them;
- *ast*: what a document depends on after an update are units of the files as
  they are, each name denotes one unit, loading units that need each other ends,
  and an interrupted update is made good by the next one;
- *lexer*: looking ahead has no effect, no token is lost to a replay;
- *parser*: every parse ends, at the end of the file unless it gives up, and it
  gives up only where it is documented here; what the explorer puts into the
  libraries are the units the parser would find.

## The modules

### WorkingFiles, RequestLines, MCWorkingFiles

`WorkingFiles` has one `working_file` per object number, so a document closed and
reopened has two, as in the code. `thread[o]` follows `forever_loop`: "loop"
outside of the mutex, "took" and "analysed" inside a task, "ended" after the
scope guard of `working_files::update` has counted the thread out. A handler of
main that goes over all objects is a loop (`todo`) whose steps the other threads
may come between; `add_task` is two steps, because it marks the queue *without*
the mutex and pushes *with* it. `ast[o]` keeps what the properties tell apart:
the project generation it was made for, the content version parsed, whether it is
invalidated, and of which versions of the other files it holds units.
`ProjectChanges` is all that this module sees of `Project`. An update is three steps of
its thread: `Look` makes sure of the ast and tests, without the list's mutex, whether files
were reported; `Analyse` takes the mutex, hands over what is on the list *by then*, clears
it and runs the analysis; `Finish` sends the diagnostics and the reply. Main may put a file on the
list between the first two, so what was looked at and what is handed over differ. An
exception (`Fail`) comes out of the analysis, and then nothing is sent, or out of a
provider, and then the diagnostics have been sent and the reply has not.

`RequestLines` is the abstract specification: documents are lines, requests join
an open line, the oldest is served, a line that closes drops those who wait.
`WorkingFiles` is shown to implement it (`FirstComeFirstServed`).

Abstractions, on top of the general rule that data is versions and names:
starting a thread, inserting the object and counting it are one step, since only
main looks at any of it but the worker's walk, which may or may not see the new
entry; `didSave` and the write to disk before it are one step; the marking in
`add_task` is one step: next to a simultaneous pop it is undefined behaviour on a
`std::deque`, and the atomic outcomes are those that do not crash; the
worker's walk over the map main changes is likewise limited to seeing or missing a
new entry and skipping an erased one; the wait of `forever_loop`, which has a
predicate, is a guard; the pop of a superseded task and its empty
reply are one step; a file that is missing on disk is not modelled;
`run_on_main_thread` is never selected (`things/language.cpp:11`).

### Frontend

The editor picks ids, as numbers or strings, and may use one again. A request is
named by its order of arrival, which is that of `internal_request_id_`. `reply` is
four steps: test `replied_` (`Reply`), set it (`Mark`), erase the entry under the lock
(`Erase`), write (`Write`). `replied_` is a plain bool that no lock guards, but a request is
held by one thread at a time: main's handler has it by reference until it moves it into a
task, and the task belongs to one document's thread. So two replies to *one*
request come one after the other, and what interleaves between the test and the
mark are the replies to others, on other threads and under the same id. `Insert` is main's insertion, which takes no lock.
Whoever holds the request may reply more than once (`MaxReplies`), as the
documentation allows an application to attempt. The actions that end the server
in a crash, or in an exception out of `forever_loop`, are part of the model.
The C++ undefined behaviour of the unlocked insertion is a switch
(`RacyInsert`): with it off, an erasure waits for the insertion, and the passing
run shows that nothing *else* is wrong with the table; with it on, the run
`unlocked_insert` shows that the missing lock loses an entry.

### Project

A load of `vhdl_config.yaml` names everything made for it: explorer, worker, file
list, manager. `reload_yaml_reset_project_...` is a sequence of steps of main:
`LoadFails`, or `LoadSucceeds` (which moves the version on and tells the explorer
to stop), `ExplorerJoined` (the busy-wait), `StartExplorer`, `ReplaceManagers`
(takes `clm_mtx_`), `ClearDiagnostics`. The worker's steps are those of
`worker::work` and `explore_spec`: look up a library, put units, count,
notify each document. A file thread reads the project in the four steps of
`make_sure_this_is_latest_project_version`, which is what lets it mix two loads.
A thread that reads the explorer or the file list while main swaps them, or the
project while it is destroyed, meets undefined behaviour: that is the step
`MeetsNothing`, after which nothing is claimed. A specification stands for one
file; only the VHDL libraries are followed, the SystemVerilog ones are handled on
the same lines without an `initialise`.

### Lexer, TokenCursor

A token is the number of its place in the file. `Lexer` has the ring `tokens_`
with `current_one_`, the queue `lookahead_tokens_`, and `checkpoints_`, each with
its record of tokens; its actions are the calls the parser makes. `look_for` is as
many peeks. The promise is `TokenCursor`: a position, and a stack of positions to
return to. `LexerIsACursor` is the refinement.

`lexer.h:109` says that a drop inside another checkpoint should not drop tokens, as "we
may still want to replay those!", but `lexer.cpp:271-273` appends them to a *copy* of the
record below. So a record may miss tokens, and a backtrack to it loses them. `drop_checkpoint`
has no guard of its own; two history variables say what came of it: `torn` is the set of
checkpoints whose record misses tokens (`TornByDropping`), `lost` that one of them was
returned to. `nested_drop` is the run that shows `QueueFollowsOn` violated, in six calls.
`NothingLostAhead` and `PreviousIsTheOneBefore` say that this is the only way: until a torn record
is returned to, any order of calls at any depth keeps every token and the look-back. In
`TokenCursor` a mark above which another was forgotten after the cursor moved is fragile,
and returning to one is all it leaves unsaid.

The parser nests checkpoints where a range that is looked ahead for holds another one in
parentheses, as in `range a(3 downto 0)'range`: the inner range is dropped inside the
outer look-ahead, which then backtracks. Names with parentheses are not among the productions of `Parser`, so nothing
is claimed of files that have them (`NoTokenIsLostWithoutParentheses`).

### Parser, MCParser

`Parser` adds to `Lexer` the kinds of the tokens of a file and the calls in
progress: `todo` is what they have still to do, innermost first. A production is
the sequence of what it expects (`Entity`, `Process`, `RangeConstraint` and so
on); steps of one kind are shared: `ConsumeToken` with its diagnostic,
`OptionalToken`, `resync_to_next_semicolon`, and the loop of
`parse_many` (`EnterMany`, `ParseElement`, `SkipInMany`, `LeaveMany`) with the set
`parsing_states` it saves and restores. Of design units the three
with a list of declarations are modelled, of statements the process, the loop, the `if`, the
call, the instantiation and the `if ... generate`, of declarations the variable with its range,
which needs a checkpoint, and the two elements that are recognised and not parsed, a
`group` and a nested `package`. Left out are interface lists and all else in
parentheses, `for`, `elsif` and `else`, and the declarations and statements of other
keywords. The code is stuck at places among these too: in an interface list at `package`,
`type`, `procedure` and `function` (`parser.cpp:2132-2161`), and at a `for` without a label
among concurrent statements. So every claim about the recovery is one about files of the kinds in `Kinds`.
`count` is the guard against endless loops: looks at one token without a scan. The
code gives up at 100 and counts every look; a step of the model is one look and
stands for up to nine, those of `parse_expression` on its way down when there is no
operand. `Patience` is 10. A parse that is stuck repeats itself
without end, so any bound above the longest detour of one that is not gives up
on the same files: `GivesUpOnlyWhenStuck` says that 10 is above it, and is proved for
any patience of seven or more. Seven steps of nine looks are 63, below the 100 of the code.
`asserts` is the build type: `assert(false)` aborts in
one and goes on in the other.

`Explored` is `fast_parser`: the units the explorer finds by skipping from keyword
to keyword. `RecordsUnit` says at which tokens it records one, `Following` where it goes
on, and a recursive function of the position puts them together. The files are any
sequences of the kinds of tokens, shorter than `MaxToken`.

`MCParser` has the files: four without a syntax error, all that one token deleted, put in
or changed makes of them, and all files of at most three tokens.

### AstCache, MCAstCache

The ast of one VHDL document: `update`, and the recursion of `load_primary_unit`
through the library as a stack of frames, one for each file being analysed. A unit
is known by its address, which is new in each parse. The states are those of the
code: "parsed", "analysing", "analysed", "outdated". Around the one thread of the
document files are saved (`Save`), reported (`UpdateTask`), and indexed by the
explorer (`Index`, `PutNext`). `rows` is the SQL table, ordered, since `get`
returns the first row of a name and INSERT OR REPLACE moves a row to the end.

An exception may come out of a parser, the binder or the library at any step of a
task (`Throws`, and `ParserThrows` for the document itself). No call catches it: the units stay
in the state they are in, `invalidated_` stays set, and the thread takes its next task.
`abandoned` is the history of the parses that were being analysed.

A unit is its kind, its name and the names it needs. After the last unit of the
document is analysed, its units are put into the library one call at a time
(`PutUnit`), and the explorer may put its own between two of them.

The recursion has no guard of its own: it ends because a unit being analysed is
found in the cache. That does not help where the unit needed is one that its file
declares further down: the file is parsed a second time within the load of the
first. `Grounded` says of a project that this cannot happen: files have
an order in which they need each other, and those of one rank need each other at
their heads only, since the head of a file is being analysed before anything the
file needs is loaded. The proof asked for this form. An earlier and weaker one
allowed jumps into the middle of any file that was needed back at its head; with it a
file could load itself, although not in the instance of
`MCAstCache`: `g` holds units A and W, A needs
the head H of another file, and H needs W. Neither A nor H is at fault, but `g` is
parsed again for W, and from then on two units of `g` answer each of its names.

### Fault operators

The modules have definitions marked `a fault`, one for each property. They are not used by the specification; each states the code with a
plausible mistake, and putting it in the place of the definition next to it must
make TLC report that property.

## The runs

| Run | Question | Bounds | States |
|---|---|---|---|
| `working_files` | safety of the documents, and that they implement `RequestLines` | a VHDL and a SystemVerilog document, 2 objects, 3 messages, 1 callback, 1 project change, 1 exception | 3.9 million |
| `working_files_live` | requests settled, closing and exit complete | 1 document, 2 objects, 4 messages, 1 callback | 46 000 |
| `frontend` | the table of requests, replies, `initialize` | ids of both kinds, 3 requests, 2 replies each, 1 outgoing request | 138 000 |
| `project` | reloads, workers, progress, errors, termination | 2 loads with 0 to 2 specifications, 1 document, 1 task | 359 000 |
| `ast_cache` | freshness, one unit per name, what exceptions leave half analysed, termination of loading | 3 files that need each other, 2 saves, 2 updates, 2 files indexed, any number of exceptions | 1.2 million |
| `parser` | recovery, termination, release of checkpoints, lexer refinement, what the explorer misses | all one-token edits of 4 files with up to 37 tokens, all files of up to 3 tokens | 1.1 million |
| `lost_save`, `spurious_wakeup`, `unlocked_insert`, `units_lost`, `stale_manager`, `nested_drop` | one documented promise each, which the code breaks | as small as the counterexample allows | found within seconds |

Why these bounds are enough: the objects of a document interact with one another
only in pairs (an old one leaving, a new one taking over), which needs two
objects and three messages (open, close, open). Invalidation relates the document
saved and one other. Two queued tasks and one running are what superseding needs.
For the frontend two requests of one id and one before `initialize` are three
requests. A reload concerns the explorer before and the one after: the one of the
constructor, never started, and two loads, so that a started one is replaced; two
specifications, for the difference between the last and another. For the cache a
document, a package that needs another file's package, and that one needing it
back is the smallest cycle; the second save is what an update that is already
running can miss; the third file need not be indexed again, since the rows of the other
two suffice to mislead a load. A parser meets a file one token at a time and most
recoveries concern one construct, so an edit of one token at every place of files
that hold every modelled construct reaches each recovery in each state, and short
files reach combinations of errors; `MaxToken` is above the longest of them with
the look-ahead at its end, so that it cuts no parse short, and `MaxDepth` is two, one
more than the modelled constructs nest, so that a checkpoint that is not released shows. The mutants confirm that each
property can fail within the bounds.

Deadlock is checked in the runs of `WorkingFiles` and `Frontend`, where a step
`Destroyed` or `Over` names the only states in which the server may stop.
It is not in those of `Project`, where the editor may have nothing more to say:
there `ReloadCompletes` and `ExitCompletes` say that nobody waits for ever. A
parse ends and an ast may have no task: `ParseEnds` and `UpdateCompletes` are in
its place there.

### What the violations show

- **lost_save** — `add_task` marks updates superseded like requests, and a
  superseded update returns before it invalidates the ast. Save while the thread is
  busy, hover, and the saved content is not recompiled until the next save.
- **spurious_wakeup** — `~working_files` waits for the last thread with an `if`
  and no predicate.
- **unlocked_insert** — main inserts into `incoming_requests_in_flight` without
  `incoming_requests_mutex`.
- **units_lost** — the worker starts before the library manager is initialised,
  which throws out what the worker has already put.
- **stale_manager** — manager, version and populated state are read one after the
  other; an ast made from the manager that was just replaced is recorded under the new
  version, and kept.
- **nested_drop** — mark, scan, mark, scan, drop, backtrack: the token scanned inside the
  inner checkpoint is not replayed, and the look-back is wrong after it.

### Fairness

Weak fairness of each thread's steps: the operating system schedules every
runnable thread, and none of the waits in the code is one that another thread can
win for ever: a mutex of a document is contended by its own thread, main
and the worker, each of which stops after finitely many tasks. In `Frontend` a handler
of `initialize` or `shutdown` gets to reply, as the code of `language.cpp` does in
straight-line code; no file thread is assumed to reply. Nothing is assumed of the editor.
In `AstCache` the document's thread goes on with a task it has begun (`FileWork`),
whatever is saved or indexed meanwhile; an exception may end the task and is never owed
(`Throws` is not under fairness); `Parser` is one sequential program that
goes on.

### What the passing runs except

Where a property of a passing run has an exception, the code has a flaw there, and
the exception is as narrow as TLC allows:

- `RequestsAreSettled` says that no request is forgotten in a queue. It does *not* say that
  each is answered, though `docs/lsp.md:67` does: "a request ***must*** send a response".
  The code breaks this. `stop()` makes the thread leave its loop with the tasks of its queue
  not run (`working_files.cpp:67-68`), so a hover before a `didClose` that comes while the
  thread is busy gets no response; nor does a request whose task throws
  (`working_files.cpp:74`), or to a document that is not open. The outcomes `dropped` and
  `failed` are these.
- `NothingHalfAnalysed`, `OneUnitPerName`: an exception leaves units of the parse it ended
  "parsed", which are never returned, and at most one "analysing", which is returned and
  denotes nothing; their file is parsed a second time for the former.
- `NothingLostAhead`, `PreviousIsTheOneBefore`, `LexerIsACursor`: nothing is claimed after a
  backtrack to a record that misses tokens (`lost`), see `nested_drop`.
- `GivesUpOnlyWhenStuck`: a package or a group within a declarative part, and an `if` without
  a label among concurrent statements, are elements that
  consume nothing, so the guard throws and all units of the file are lost; a
  label with no statement after it, or a context clause at the end of a file,
  reaches an assertion. A labelled `entity` instantiation in an entity's statement
  part is one of these.
- `ExplorerMissesNothing`: a direct instantiation `entity work.e` makes the explorer
  record an entity named "work"; the property is about units missed, not
  about this. It excepts a unit after the `end` of a context clause that was
  skipped without a diagnostic: `library x; end entity e is` is an entity for the
  parser and nothing for the explorer.
- `DependenciesAreFresh` is about the units a document depends on itself. Those
  they depend on in turn may be stale: the cache outdates a unit by the file
  it is in, not by what it was analysed with.
- `OneUnitPerName`: the units of a file's previous parse are looked for by the
  address of the new one, so they stay. For a document this makes the names of its
  own units ambiguous from the second save on; for another file it takes a row
  that names a unit the file no longer has. That is so during an update as well as
  after it.
- `InLibrary`: a package put after its body, when they are in different files, is
  hidden by it, since `get` looks at the first row of the name and rejects a body.

## What is proved

Every invariant and action property of the passing runs is a theorem, and so are both
refinements. Assumptions are those of the modules (bounds are natural
numbers, files are finite, and the like) and what is said here.

`WorkingFiles_proofs` proves for any set of documents and all bounds:

- `TypeCorrect`: `Spec => []TypeOK`, in particular that the count of threads
  never goes below zero;
- `NoThreadOutlives`: without spurious wakeups, the server is not destroyed
  under a running thread;
- `ClosedStaysClear`: the editor shows no diagnostics of a document not open;
- `NeverRegress`: the diagnostics of a document never go back to an older
  content.

None of these is inductive. The argument is the invariant `IInv`, which follows
an object through its life: an object not yet created has no thread, an opened one
is created and names its document (`NotYetCreated`, `OpenedIsCreated`); a thread
that holds its mutex is not stopped, because `stop()` takes the mutex
(`LockedIsNotStopped`); a task that will send diagnostics holds the mutex
(`SenderHoldsMutex`); a thread not stopped belongs to an object that is open, or,
in the destruction, still to be stopped (`LiveIsOpen`, `StoppingCoversAll`). So
whoever may still send diagnostics is the document's one open object. The count
of threads equals the number of objects whose thread runs (`ThreadsCounted`), and
`WaitIsLongEnough` says that once the destructor has got past its wait, that
number is zero.

And of what is in the queues:

- `OnlyByYounger`: a superseded task is followed in its queue by a younger one that
  supersedes it, or one is being added. What makes it inductive is
  `NeverAddedSuperseded`: marking and pushing are two steps, so the task between them
  is the younger one, and has not been marked itself;
- `SavesAreNotForgotten`: an open document that has cached units of an older
  version of another file knows it, or has been told, or is about to be. It holds
  across exceptions and changes of the project, since what an update leaves behind
  was behind, and listed, before it (`UpdatedKeepsOutdated`);
- `RequestsInOrder`: `Spec => FirstComeFirstServed`, the refinement of `RequestLines`. `RequestInv`
  says where a request that waits is: in the queue of its object, run by its
  thread, or on its way there with main (`WaitersArePlaced`, and `QueuedWait`,
  `RunningWaits` for the converse); that queues are in the order in which requests
  arrive (`QueueInOrder`, `LaterAreNew`), with the thread ahead of its queue
  (`RunningIsOldest`). It needs `StopInv`: no thread of an open document is stopped before
  the server ends, a thread that ended was stopped, one outside of the mutex runs
  nothing. Each step of the model is then matched with a step of the lines, or none.

`Frontend_proofs` proves for any ids and bounds:

- `AtMostOneResponse`: at most one response to each request, and at most one
  handed to each outgoing one. By `OneInv`: a request marked `has_been_replied` has
  either one write on its way or one done (`MarkedIsUnwritten`,
  `RepliedIsWritten`), one held and not marked has none (`HeldIsUnanswered`), main
  is on the last request received (`HandledIsLast`, `HandledByMain`);
- `NothingBeforeInitialize`: no other request reaches a handler before the response
  to `initialize` is written. By `InitInv`: `started_` is set by a handler that runs
  on main, so when main reads again the response has been written;
- `TableIsRight`: `Spec => (~RacyInsert => []TrackedUntilReplied)`. The code inserts
  a request without the lock, and the run `unlocked_insert` shows the table going
  wrong. The theorem says that this is all that is wrong: with the insert
  under the lock the table is right, whatever ids the editor uses again. By
  `TableInv`: an answered request is gone unless a younger one has its id;
- `TypeCorrect`, which `Inductive` proves together with `OneInv`.

The one assumption on constants beyond the bounds is that there is some number.

`Project_proofs` proves for any documents, loads and configurations:

- `OneWorker`: a worker that runs is that of the current explorer;
- `BarsInTurn`: a progress bar begun is the current explorer's;
- `ErrorsGo`: no error stays shown after a load that succeeded;
- `TypeCorrect`, where the counts are bounded by the configuration: this is not
  inductive, as nothing in it keeps a worker from counting past its last
  specification. `IInv` adds that loads to come have left no trace (`NothingAhead`),
  that a worker inside a specification has not completed all (`SpecsLeft`), and that
  units are put once for each (`PutOnce`).

`Lexer_proofs` proves for files of any length and checkpoints of any depth, dropped and
returned to in any order:

- `TypesHold`, `NoTokenIsLost`, `PreviousSurvives`: the type invariant of `Lexer` and the invariants of the
  run `parser` that are about it, for every order of calls, also those the parser never makes. The second says that a return to
  a torn record is the one way in which tokens are lost;
- `IsACursor`: `LexerSpec => LexerIsACursor`, the refinement of `TokenCursor`.

That no token is lost is not inductive: what a backtrack puts back comes from the
record, of which `NothingLostAhead` says nothing. `RecordsInOrder` adds it: a record
holds the token before its checkpoint, the one at it, and, unless it is torn, this one again
with those that follow, up to where the record above it begins. From this follows why
`backtrack` replays from the fourth entry, why the current token is put back last,
and why a record below one that is dropped is torn unless nothing was recorded above it. The whole is
`IInv`, which after a return to a torn record says no more than the types.

`Parser_proofs` proves for any files of the kinds followed, any patience and any number of
checkpoints:

- `StatesFollowTheCalls`: `parsing_states` is the set of states of the calls of
  `parse_many` in progress;
- `ParsedToTheEnd`: a parse that is over and was not given up is at the end of the
  file;
- `RangesRelease`: the checkpoints on the lexer's stack are as many as the ranges being
  parsed;
- `TypesOfTheParser`, and `ParserDrivesTheLexer`: what a parse does to the lexer is a
  behaviour of `Lexer`, so the theorems of `Lexer_proofs` hold of every parse;
- `NoTokenIsLostWithoutParentheses`: of these files no token is lost at all, as none of their
  ranges holds another.

The last and `RangesRelease` rest on `OneRange`: either there is no checkpoint and
no call that would release one, or one of each, and what is to be done before that call
is the inside of a range. So a drop never meets a second record, no record is torn, and the lexer
keeps `Whole`, the part of its invariant that holds while nothing is lost.

The invariant is `CallsInv`: what is to be done is a sequence of calls, of which the
one for the design units is the last and the only one of its state
(`UnitsAtTheBottom`). Each production is shown to do the call it was called for or to
put calls in its place that do not touch the states (`Produces`), so that only the
steps of `parse_many` are left. `ReadsToTheEnd` follows because the outermost
list has its state alone when it leaves, and that ends at the end of the file only.

`ParserRecovery_proofs` proves for any files of the kinds followed, however deep their
constructs and whatever their errors, from `Patience > 6`:

- `RecoveryGetsOn`: `GivesUpOnlyWhenStuck`. The parser gives a file up, or reaches an
  assertion, only at the places that it names. Since seven looks are enough and
  the code allows a hundred, of which a look of the model is up to nine, no such file
  that is merely long, deep or full of errors is given up. Of files with other tokens it says
  nothing.

The invariant is `RecoveryInv`. While a file is parsed, each call that is to be done
begins with a count of at most `Cap` and leaves one of at most `Left`; both depend on
the call and on nothing else, and what one call leaves the next may begin with
(`Joined`). For each production this is `Serves`: its calls, in their order, take the
count from what it may begin with to no more than it may leave. The exceptions are
those where the loop of `parse_many` goes round without a scan: `Stuck`, which is
exactly the first three kinds of place, and `AtTheEnd`, where a context clause with no unit
after it returns to the list of design units. `Ordered` and `Begun` say which
calls follow which and which tokens an element begins with; they show that an
assertion is reached at these places only. TLC checked `RecoveryInv` with a patience
of seven on the files of `MCParser` before it was proved.

`ParserUnits_proofs` proves for any files of the kinds followed:

- `ExplorerFindsTheUnits`: `ExplorerMissesNothing`. Every unit of a file without
  diagnostics is found by the explorer's `fast_parser`, with the one exception that the
  property states. The argument does not use that the parse is over: it holds of the
  units parsed so far.

The two parsers share no code, so the proof has two halves. The first is about the
parser: a unit it keeps has its keyword and its name next to each other, an architecture
has "of" and a name after these, and the token before the keyword is not "library"
(`IsRecorded`). `fast_parser` goes on past the token after a "library" without looking
at it, so a unit there would be missed. That the parser finds none there is a matter of all that may come
between two units. `UnitsInv` has it as a relation of calls that follow each other
(`Beside`): before a call that is `Clean`, which may begin where a unit begins, comes one
that `Keeps`, which leaves no "library" as the token before unless there is a diagnostic.
Each production is shown to be such a chain, and to have the name of its unit between
the keyword and, for an architecture, the "of" (`EntityLinked` and its like); each step
takes a chain to a chain (`Asks`, `Ends`). TLC checked `UnitsInv` on the files of
`MCParser` before it was proved.

The second half is about `fast_parser`. It always goes on to a later token
(`FollowingGoesOn`), and never past a unit keyword unless "library" or "end" is right
before it (`NotPastAUnit`). Since the provers have no induction over data, a least
counterexample takes its place: once to show that the recursive function exists
(`ExploredIsFound`), as nothing says so and a `CHOOSE` is all it is otherwise, and once
to show that what is recorded at a unit is found from every token before it
(`UnitIsExplored`).

`AstCache_proofs` proves for any files, contents, saves, updates and order of the
tasks, of a project that is grounded:

- `TypesOfTheAst`: `Spec => []TypeOK`;
- `LoadsComeBack`: no file is loaded by a load it has caused; and
  `RecursionIsBounded`: there are never more calls than files;
- `UpdatesFinishTheirUnits`: between two tasks nothing is left half analysed but what an
  exception left so, at most one unit of a parse in analysis;
- `UpdatesAreFresh`: what an updated document depends on is as the files are now, or
  its save has not been reported;
- `NamesAreUnique`: from `UniquelyDeclared`, a name is not resolved to two units of
  one file.

The first five rest on `IInv`, the types and the half-analysed units on `LeftInv` as well: a
parse that was abandoned is none of those in progress, and one of its units at most is in
analysis (`AbandonedOnce`). Of each call in progress it says that the units of
its parse are in the cache, those before the one it is at analysed and those after it
parsed (`Holds`), and that a call below another waits at the unit that caused the load
(`WaitsAt`); that every unit that is neither analysed nor outdated belongs to a call
(`UnfinishedIn`); that the calls stand in the order of the ranks, with younger parses
above older ones. A load begins only if no candidate is in the cache, so the unit
wanted is not the head of a file in progress, and `Grounded` leaves files of a lower
rank. To know what a row stands for, `RowsInv` has that rows name units their files
may hold and that no two have one ID. `FreshIn` says of every unit that is not outdated
what `DependenciesAreFresh` says of some.

The last one rests on `NamesInv`: unless a save has not been reported, units that are
not outdated are all those of their file (`WholeIn`), and there are two parses of a
file only if a row names it for a primary unit that it lacks (`AgainIn`). The
premise `UniquelyDeclared`, that a primary unit is declared in one file and once in
it, is what VHDL asks of a library. Without it the proof fails where a row is put: the
row that misled a load may be replaced by one of the other file that declares the
name, and then nothing shows any more why the first was parsed twice.

Only model-checked is liveness, which the proof system does not reach:
`RequestsAreSettled`, `CloseCompletes`, `ExitCompletes`, `RepliesReachTheEditor`,
`ReloadCompletes`, `ExplorationIsAnnounced`, `UpdateCompletes` and `ParseEnds`.

## What is not modelled, and why

Hover texts, symbols and folding are transformations of data with no step that
another actor can come between. Of the 5800 lines of the parser, the productions
that recover as a modelled one does are left out, as are the tree they build and
the characters of a token; of the binder, everything but the units it asks for, as
declarative regions are data, and in large parts unfinished. Serialisation and the
node generator are likewise data only. The vendored libraries are not part of the
program's logic: SQLite, fmt and loguru are nine tenths of the repository's lines.
The run-time checks of loguru (an assertion that fails aborts) are modelled where a
step of ours can reach one.

Met while modelling and in no run:

- `$/cancelRequest` never reaches the application, contrary to `docs/lsp.md:192-195`: a
  number is looked up as a string, and the source found under a string has no state.
  `Frontend` has it so (`Cancel`, `HasState`);
- `look_for` compares against the unused slots of its pack, which are of the kind
  `invalid`, so a token that cannot be lexed ends a search early;
- `is_uptodate()` never looks at the files it was made from, contrary to
  `vhdl/ast.h:83`; the caller looks at the project's version only;
- `library_manager::get` does not look again under the exclusive lock, and
  `connected_and_tables_exists` opens the database on first use without one: two
  threads may open two, of which the one that is kept may be the empty one;
- `sv/ast.cpp:113` tests for a package imported already with the wrong sign;
- the explorer's file list and the map of documents are read by other threads
  without a lock. `Project` and `WorkingFiles` have the outcomes as steps.

## Plan

What was planned and is done: `WorkingFiles`, `Frontend`, `Project`, `AstCache`, the
lexer's look-ahead and its cursor, the parser's recovery and termination, and the
proofs of all their safety properties. What is left, in this order:

1. `LibraryManager`: two threads in `get`, one database per backend; `SvAst`.
2. Names with parentheses in `Parser`: `parse_discrete_range` inside `parse_range`, with the
   tokens that are lost to the drop of a nested checkpoint and what the diagnostics and the
   ranges of the tree then say; interface lists, with the tokens they are stuck at.
3. `Connection` with its journal and replay; the file list's entries per path.
