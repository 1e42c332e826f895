# cxxd in TLA+

cxxd is a language server for C and C++ frontends (vim, for one): a server
process that routes requests to service processes, which call libclang, clang
tools and a symbol database, and hand their results to callbacks ("plugins") of
the frontend. This directory holds TLA+ specifications of the parts of cxxd
whose behaviour depends on the order of events: processes, queues, pipes, files
that change meanwhile, and processes that die. TLC checks them on small
instances; TLAPS proves the most important invariants for all instances.

File names below are relative to the repository's root.

## Inventory

| Component | State | Operations | What is hard about it | What makes it correct |
| --- | --- | --- | --- | --- |
| Server (`server.py`, `api.py`, `main.py`) | handle (queue of client requests), service table, `ServiceHandler.process`, `started_up` | start, send, set log level, stop, for one or all services; shut down and exit; end of stdin | joins block the one thread; `process` says forked, not running; queues outlive listeners | no listener doubled or orphaned, joins end, services restart, end of input exits |
| Service (`service.py`, `service_plugin.py`) | queue, `started_up` in the listener's memory | startup, shutdown, request, log level | exceptions are swallowed; early messages end the listener; it can die in libclang | answers in order, queue drained when stopped |
| Directory indexer (`clang_indexer.py`, `clang_index.py`) | file list, `active_workers`, `idle_workers`, `worker_state`, a pipe pair and a database per worker | fill, event loop, shutdown, merge; the workers' loop | workers die, are idle, or fail at any point of the loop | the run ends, a file has one worker, a death costs one file, the merge comes last |
| Symbol database (`symbol_database.py`, `clang_indexer.py`) | tables, the open transaction, the connection, the file on disk | index a file, drop, schema check, queries, merge | commits that only some operations make; crashes in between; connections inherited by fork; ids that change in a merge | what is committed is some complete state; a failed run is not taken for a complete one; what is on disk is found; diagnostics are current and have their own details |
| Translation-unit cache (`tunit_cache.py`, `clang_parser.py`) | units with flags and mtime, FIFO | `parse`, `code_complete`, warm-up | files are written while they are read; one unit for saved and edited contents | an answer is about the contents asked for |
| Code completion (`code_completion.py`) | candidates, all candidates | complete, filter, sort | candidates outlive file and scope they were made for | candidates belong to the request |
| Compiler arguments (`compiler_args.py`) | the database read at construction, the arguments extracted last; those kept with a cached unit | flags of a file; form for edited files | libclang may make up entries; files without one take the flags of another; units are parsed again with the flags they were cached with | a file is parsed with the flags of its entry, or with those of some entry, whatever was asked for before |
| Disassembly (`disassembly_service.py`) | output file, last target and mtime, candidates | list targets, list symbols, disassemble | mtime read after the run; candidates of another target | the output is of the target as it is |
| Configuration (`cxxd_config_parser.py`, `Server.__init__`, constructors of the services) | the path found by the server, and by each service; the databases loaded | discover a compilation database, configure the project once and retry, construct the services, start code completion | the path is not handed on: each service looks again, on a disk that changes | all services use the database the server found; the server gives up, or raises, only with a cause |
| Other services (`clang_format`, `clang_tidy`, `project_builder`, the queries of `source_code_model`) | none between requests, but what the parser and the index keep | one run of a tool or a query | failure of the tool; queries read the index without opening it | one answer per request; definitions on disk are found |

Interactions: `api.py` and the stdin reader put requests on the handle; the
server forks a listener per service, puts messages on its queue and joins it;
listeners call the plugins. The source-code-model service runs the indexer,
which spawns workers with pipes, and shares its parser (and so its cache of
units) with single-file indexing and all queries. Completion and disassembly
each have a parser of their own, and each service finds its compilation database
for itself.

## Modules

| Module | Models | How it relates to the code |
| --- | --- | --- |
| `Service` | a listener process and its handlers | `Get` is `queue.get()`; `HandleStartup`, `HandleShutdown`, `HandleRequest`, `HandleLogLevel` are the four handlers with their return values (go on listening or not); `Raise` is `process_request`'s bare `except`; `Crash` is the process dying inside a handler |
| `Server` | server, handlers, clients; extends `Service` | one action per entry of `Server.action`; shutting down is `ShutdownServices` (all messages put), then one `Join` per listener in the table's order, then `StopReturns` or `ExitReturns`; `process` is `ServiceHandler.process is not None` |
| `ServiceContract` | what the asynchronous API promises | accept, answer in order, stop only when all is answered; `accepted` is a set of numbers, for the order is that of the numbers |
| `ServerRefinement` | `Server` implements `ServiceContract` | accepted requests are the answered ones and those still on the queue or in the listener's hands; a service is on while its handler has a process |
| `ServerProofs` | theorems about `Server`, and that it keeps the safety part of the contract | |
| `IndexerScheduler` | `__run_on_directory` and `index_interactive` | `pc` follows the method: fill, loop, ready (serving what `select` returned), shutdown, merge, done; `SendNext` is `pending_files.pop(0)` with `send_work`; workers read, index, report, quit or die |
| `DirectoryIndexing` | what a directory run amounts to | files indexed one by one, then published together, at most one missing per failed worker; `IndexerScheduler` implements it |
| `IndexerProofs` | theorems about `IndexerScheduler` | |
| `TUnitCache` | `parse`, `code_complete`, warm-up on a FIFO cache, and an editor | a request is cut wherever it looks at the file system: look-up, parse, `getmtime` and insertion, or `getmtime`, parse again and update |
| `TUnitCacheProofs` | theorems about `TUnitCache` | |
| `SymbolIndex` | the operations of `ClangIndexer` on the symbol database, its listener and the server | `disk` is what is committed, `view` what the listener's connection sees with its open transaction; `__run_on_directory` is cut where a crash makes a difference (`AlreadyThere`, `SchemaChanged` or `NotThere`, then `Create`, `CreateDataModel`, `Merge` or `RunRaises`), the other operations are one step each; `GoToDefinition` reads it without opening it; `End` is a stop or a crash, `Fork` and `RestartServer` set up the connection |
| `SymbolIndexProofs` | theorems about `SymbolIndex` | |
| `Diagnostics` | the tables of diagnostics and of their details, through directory runs, merges, single files and drops | `id` and `owner` are the columns that relate the two tables; `Store` is `store_tunit_diagnostics`, `Copy` the part of `copy_all_entries_from` about the two tables, which `Merge` does for one worker after the other and `Remove` ends; `RunOnSingleFile`, `DropSingleFile` and `DropAll` the operations of `ClangIndexer` |
| `MCDiagnostics` | constants of `Diagnostics` for TLC | |
| `DiagnosticsProofs` | theorems about `Diagnostics` | |
| `CodeCompletion` | `__code_complete` and a user who types, deletes and moves the cursor | a request is one step, chosen by the branch the code takes: `Drop`, `CompleteMember`, `CompleteIdentifier`, `Refine`, or `Missed` if the line does not reach the cursor any more; `candidates` and `cache` are `completion_candidates` and `all_candidates_cache` |
| `MCCodeCompletion` | constants of `CodeCompletion` for TLC | |
| `CodeCompletionProofs` | theorems about `CodeCompletion` | |
| `Disassembly` | `_list_symbol_candidates`, `_disassemble`, and a build that writes and removes targets | a request is cut where the build can come between: looking at the target, `Objdump`, `Stamp` (lines 198 and 199) |
| `DisassemblyProofs` | theorems about `Disassembly` | |
| `Configuration` | `Server.__init__` and what each service's constructor finds and loads, on a disk that is changed meanwhile | `Discovered` is `get_configuration_for_target`; `Discover`, `AutoConfigure`, `Configure`, `Retry` cut the constructor where it looks at the disk; `Find` and `Load` construct one service; `StartCodeCompletion` is its startup |
| `CompilerArgs` | the arguments a parser gives to libclang | `extract_compiler_args` with its passes under their names; `get` is `JSONCompilationDatabase.get`, as a relation because libclang may make up commands; `Miss`, `Reparse` and `Evict` are the ways of `parse` and of the cache |
| `Project` | `Configuration` composed with `CompilerArgs`, the parser of `source_code_model` | the parser opens what its service's constructor loaded, and is asked when the server serves |
| `MCProject` | constants of `Project` for TLC | |
| `ProjectProofs` | theorems about `Configuration`, that `Project` implements it, and about the arguments of `CompilerArgs` | |

Definitions called mutants, just before the definition they vary, are plausible
bugs of it. They are used in no specification: replacing the definition by one
of them has to break a stated property.

### Abstractions

* Payloads, ids of operations within a service, and the wording of messages are
  left out; a request is its number. An invalid log level changes nothing and is
  the same to the model as an unknown header.
* A handler of a service runs in one step after its message was taken, because
  listeners share nothing but the files their handlers use. The server's handlers
  are atomic but for joins, the only places where they wait.
* A listener dies only inside a handler: between handlers only Python code runs.
* A forked listener starts from the server's copy of the service object, which
  the server never starts: `started_up` is false.
* Indexer: files are numbered in the order of the sorted list, so what is pending
  is an interval; `select` is a snapshot of the pipes; a worker's commit is one
  step. A write to a dead worker's pipe fails at once.
* Cache: contents are identified by the number of the write that made them, which
  is their mtime too. Two writes never have the same mtime: the file system's
  clock is assumed to be fine enough. libclang reads a file at one moment.
  Compiler flags are a function of the file's name here.

* Symbol index: entries are told apart by their file only. The tables are created
  in one step. What the workers of a directory run have found is any set of files
  (`IndexerScheduler` says which). A connection to a removed file is readable, and
  every write through it fails: SQLite compares the inode of an open database with
  that of its path before it opens a journal. One server uses the project at a
  time, and nobody else removes the file. `excused` and the field `run` of a
  database are history: no action depends on them.
* Go-to-definition is about a symbol that is defined in one file; whether libclang
  knows the definition without the index is open.
* Diagnostics: a diagnostic is told apart by place and description, as by the unique
  key of its table; so are notes. A translation unit's own diagnostics are reported by
  no other file, a header's also by those that include it. There is one connection and
  no open transaction here (`SymbolIndex` has them), and severities are left out. Rows
  that are inserted in a loop are inserted at once: the order of the loop is a place for
  each of them, and its id is the last one there was plus its place.
  `indexed`, `freed` (ids of deleted diagnostics) and `mixed` are history.
* Completion: a line is a sequence of characters, of which letters differ and all
  others are of three classes; an operator of two characters is one; a comment
  reaches to the end of its line. What libclang offers depends on the file and on
  the line before the word, not on the word: the completion point is moved to the
  word's beginning by the lexer, and filtering is the service's. The order of the
  answer is left out; that comparing candidates may raise is not. `left` is
  history.
* Cache: `GiveUp` is any request that raises (the contents are gone, or libclang fails),
  while it parses or while it completes.
* Configuration: one look at a directory (two calls of `isfile`) is one step with the
  choice of the file; a build directory that is missing is one without either file;
  a file's version is the number of the change that wrote it. clang-tidy is taken to be
  installed; the services that look for no database are left out. Bazel builds differ
  in the directory the command runs in only.
* Compiler arguments: an argument is a string that is compared as a whole, so a set of
  constants says which begin with `-I` or are relative: the vocabulary has a word for
  every form the passes tell apart, and any other word is one they leave alone. A command
  is the compiler, options in any number and order (`IsOption`: a language, a directory,
  or one word) and its files, with the source last (CMake) or the object last (`Bazel`).
  Files are called like no word of the vocabulary (`NamesAssumption`). Every entry has a
  directory, the same for all. A source is called by one name: the base name, or a path, by
  which the code finds it too, are that name here. Which entry is the first of the database
  is open, and a parser asks for it once at most, for it remembers what it was given. The
  system's include paths are one path, any number of times (`SystemIncludes`). One parser, that of `source_code_model`.
* Disassembly: a build is its mtime, no two are the same. objdump and nm read a
  target at one moment, or fail. Symbols are only there or not; an index is one of
  the list. `raced` is history.

## Runs

| Run | Instance | Shows |
| --- | --- | --- |
| `server_faulty` | 2 services, 4 requests of every kind but exit (the end of input), startup ok/fail/raise, requests ok/raise, 1 death, with and without a configuration | `OneListener`, `NoOrphans`, `JoinCanFinish`, `AnsweredInOrder`: stopping a service never leaves a listener behind, and never waits for one that nothing will end, although listeners end early for four different reasons and leave messages unread; `EndOfInputExits`, `StopReturned`: under all of these faults |
| `server_orderly` | 2 services, 4 requests, nothing fails | `KeepsContract` (refinement of `ServiceContract`), `RestartServes`, `ReadyOrDrained`: whatever has a process can serve, and what was stopped has read all its messages. A log level broadcast is in the instance: it is harmless because the server never puts it before the startup message |
| `server_restart_after_crash` | 1 service, 1 death | violates `RestartServes`, see below |
| `indexer` | 3 workers, 2 or 5 files, parses that fail, up to 3 deaths | `HandedOutOnce`, `DeathCostsOneFile`, `RunEnds`, `IndexesDirectory` (refinement of `DirectoryIndexing`), `LeftWhenQuiet`, `MergedAfterExit`: with workers that never get a file, the middle condition of the event loop matters |
| `tunit_cache` | 3 files, capacity 2, 4 writes, both kinds of service | `EditedContentsFresh`, `ReparsedFresh`; a type invariant with the bound of the cache, and `EvictsOldestForNew`: parsing again evicts nothing |
| `tunit_cache_stale` | 2 files, capacity 1, 4 writes | violates `AnswersFresh` |
| `symbol_index` | 3 files, one blacklisted; no bound on requests, ends and restarts | `CurrentIsFilled`, `IndexedIsOnDisk`, `LeavesOnlyIfExcused`, `DefinitionFound`: nothing is half done but what the properties name, and go-to-definition finds what is on disk; the type invariant says that no listener has a connection to a removed file but one that it inherited |
| `code_completion` | 2 files, 2 letters, 4 names, lines of 4 characters | `WordAnsweredFresh`: while a word is typed and corrected, the kept list answers what libclang would |
| `code_completion_backspace` | the same | violates `BackspaceAnsweredFresh` |
| `disassembly` | 2 targets, 4 builds; no bound on requests, removals and restarts | `OutputOfTarget`, `OutputFresh`, and a type invariant by which the recorded target is that of the output |
| `project` | all types of configuration, 2 directories, 1 change of a file, 2 translation units and a header, no system include paths; no bound on requests and starts | `AgreeUnlessChanged`, `FailsWithCause`: the server and its services end up with one database, or the server ends with a reason; `FlagsMeant`, `IncludesParent`: every parse has the flags meant for its file, whatever was parsed, evicted and parsed again before |
| `diagnostics` | 2 workers, 2 translation units and a header, 4 diagnostics that share notes, 1 edit, 3 requests that change the index | `OwnDiagnosticsCurrent`, `DetailsRefer`, `DetailsAttributed`: what is listed is what was last reported, and details refer to diagnostics, or to an id that a deletion has freed, and if one worker found all belong to them |

Bounds. `MaxRequests`, `MaxCrashes`, `MaxDeaths`, `MaxWrites`, `MaxChanges`, `MaxEdits`
and `MaxCalls` bound counters that the code does not bound; they appear only in guards
of clients, users and faults, as `MaxBuilds` and `MaxLength` do in those of the build and
the user. Two services are the fewest among which a join of one can delay another; four
requests allow start, send, stop and start again with a disturbance in between. Five
files for three workers let a worker be given a second file after another died with its
own; two files leave a worker without one. Four writes let both contents of a file
change twice around a request. Four characters are enough for a word, an operator, and a
second word that is typed and deleted. Four builds let both targets be built again after
each was disassembled. Two directories with two files each are the fewest in which both
orders, of directories and of files, decide; one change is enough to part the services,
and the proofs hold for any number. Without system
include paths there are commands that contain no `-I` at all, and the others have one or more.
Three requests delete diagnostics, use their ids
again, and look at the result. No symmetry is used: services, workers and directories
are served in the order of their numbers.

Deadlock is checked in every run but those of `MCProject` and `MCDiagnostics`. Finished systems
stutter (`Exited`, `Finished`); a server that gave up or raised, and an index after the
last request of the bound, have nothing left to do.

### What the violations show

* A listener that dies leaves its shutdown message on the queue; the next
  listener of that service takes it first and ends, while the server believes it
  runs (`server.py:45`).
* A unit parsed on a cache miss gets the mtime of the saved file, read after the
  parse; it may be stale from the beginning and is handed out as up to date.
* A member access operator that is deleted again leaves its list: the cursor is at
  the end of the word before it, the list is not empty, and its members are
  filtered by that word (`code_completion.py:107`), although the comment there
  claims that deletions are handled.

### What the passing properties leave out

The conditions in the properties are places where the code does less than a caller may
expect; so are the constants chosen for some runs. What they leave out
does happen:

* `conn # "removed"` in `IndexedIsOnDisk`, and `conn = "disk"` in `DefinitionFound`: start a
  server on a project with an index, drop the index from disk, stop and start the service, and
  index the directory. The second listener inherits the server's connection to the removed file
  (`symbol_database.py:33`); the run succeeds and there is no index. `TypeOK` says that this
  is the only way to a connection to a removed file.
* `excused`: a file that could not be indexed again loses its entries, as the TODO at
  `clang_indexer.py:96` has it; and a file that was dropped (answer: success) is
  back if the listener ends before something else is committed.
* A run that was interrupted leaves a database without a version, on which
  `fetch_schema_version` raises: no later run is answered until the index is
  dropped (`AlreadyThere`).
* `view.run # "raised"`, and the same in `CurrentIsFilled`: a directory run that
  raises leaves the version row in a transaction that stays open. The next file
  indexed on its own commits it, and the index, with that one file in it, passes for
  complete from then on: the next run finds the directory 'already indexed'
  (`clang_indexer.py:266`).
* `conn = "disk"` in `DefinitionFound` leaves out a listener without a connection, too:
  go-to-definition does not open the index (`go_to_definition.py:26`). Until a listener has run
  an operation that does, definitions of other files are not found although they are on disk.
* `DeathCostsOneFile` bounds the loss; the status of the run does not tell of it
  (`clang_indexer.py:267`).
* `PluginHooks`: the hooks of the base plugin are name-mangled (`service_plugin.py:5`,
  `:8`). With a plugin that relies on them shutting down raises, the listener goes
  on, and the server waits in `join` for ever; every run, and `JoinsCanFinish`,
  assume that plugins define them.
* `left`: completion without a separator typed first, on a line the cursor was just
  put on, is filtered from the list of another line or file.
* `raced`: a target built between objdump and `getmtime` (`disassembly_service.py:199`) is
  recorded as disassembled, and the old output is reused until the build after that. So is the
  output of an objdump that failed, until the next build.
* `~BuildDirKnown`: the constructor of the disassembly service joins the build directory
  (`disassembly_service.py:85`), which is `None` unless the configuration names one
  (`cxxd_config_parser.py:146`). With `auto-discovery`, or with no `type`, for which
  `README.md:74` promises a fallback, it raises, and the server ends although it has found a
  database.
* `paths` of `auto-discovery`: without `search-paths` nothing is searched
  (`cxxd_config_parser.py:208`); `README.md:77` speaks of predefined paths.
* `changes = 0`: services look for the database again, and code completion reads it again
  at every start, while the others keep what they read: after a change they differ.
* `InUse(s) # NoDatabase`: a code completion service that has not been started, or could
  not make its parser, has none.
* `Command` has `-c` directly before the source: `-c` and the argument after it are taken
  out wherever they are (`compiler_args.py:17`). With `-c` before another option, that
  option is lost and the file stays until it is taken out by name. Options named like a
  source file are left out too (`IsOption`), for they would be taken out with it.
* `IncludesParent` allows the parent directory right behind a last `-I` in a word by itself
  (`compiler_args.py:280`): there it takes the place of the directory that was meant.
* Only units that are parsed again get the parent directory: the first parse of edited
  contents goes without (`clang_parser.py:243`).
* An unsupported flag becomes an empty argument, not none (`FlagsMeant` leaves it out).
* `mixed`: details keep the ids their diagnostics had with the worker (`symbol_database.py:297`),
  so after a merge of several workers they may be listed under diagnostics of another.
* `freed`: the details of a deleted diagnostic stay, for the foreign key with
  `ON DELETE CASCADE` (`symbol_database.py:374`) is not enforced, as SQLite does so only when
  told to. They refer to nothing, or to a diagnostic that was given the same id later. Both
  properties hold of all ids that no deletion has freed, also after deletions.
* `Orderly` in the instance of `server_orderly`: `ReadyOrDrained` fails with the first
  listener that dies or ends early. Starting the service then only warns, because `process`
  is set (`server.py:38`), and puts a startup message that nobody reads; stopping it first
  leads to the violation above.
* `FlagsMeant` does not say which entry a file without one takes its arguments from: by the
  comment at `compiler_args.py:127` any will do.
* `OwnDiagnosticsCurrent` is about translation units. What a unit reported about a header
  goes when the header is indexed again, on its own or not.

A server without a configuration logs that it bails out, and waits for a request
before it ends (`server.py:156`, `main.py:86`).

## Fairness

The server process, each listener, the indexer's master and each worker are
processes of the operating system, hence weakly fair, each as a whole. Clients,
the editor and faults are not: nothing obliges them to act. Fairness of a
listener or worker includes that handlers, parses and tools return; the code has
no timeout for those that do not (the indexer logs `STUCK?` and waits on), so
every liveness property here is relative to it. The other modules state safety only,
and assume no fairness.

## Proofs

All theorems hold for every value of the constants allowed by the named
assumptions in the modules (positive numbers of services, workers and capacity;
outcomes among those listed).

* `ServerProofs`: `TypeCorrect`, `OneListenerPerService`, `NoOrphanedListeners`,
  `JoinsCanFinish`, `AnswersInOrder`, `ServicesReadyOrDrained`,
  `ImplementsContract`. `OneListener` is not inductive: a
  join must not clear `process` while the listener lives, and between putting the shutdown
  messages and the last join the server must not fork. `ProcessInv` says so: what is being
  joined has a process, nothing is joined outside the phases stop and exit, an exited
  server has no process set. `JoinsCanFinish` needs `ShutdownAhead`: for every listener
  being joined that is alive, the last message of its queue is the shutdown message or
  that is in its hands. It assumes that plugins define the shutdown hook. `AnswersInOrder`
  follows requests through their stations, handle, queue, listener, answered: `OrderInv`
  orders each of them, and all of one before all of the next. It needs no assumption:
  deaths and restarts lose requests, and never reorder them. `ServicesReadyOrDrained` assumes
  `Orderly` (startups succeed, plugins have their hooks, nobody dies); then the shutdown
  message is the last of every queue it is on, and a listener that has not started has
  the startup message in its hands or first on its queue (`OrderlyInv`). A listener
  ends only once the shutdown message was put, and then its service is being stopped.
  `ImplementsContract`: under the same assumption, and with callbacks that do not fail,
  every step of the server is a step of `ServiceContract` or none of it. Putting a request
  on a queue accepts it, the callback answers it, forking starts and the end of a join
  stops; taking a message from a queue is no step, because what is accepted is the union of
  the stations. `NumbersInv` bounds the numbers of requests, `OrderInv` makes a new one
  greater than all that were accepted and the one that is answered the least of those
  waiting, and `OrderlyInv` says that none waits when a join ends.
* `IndexerProofs`: `TypeCorrect`, `LoopLeftWhenQuiet`, `MergeAfterExit`,
  `FilesHandedOutOnce`, `DeathsCostFiles`, `ImplementsDirectoryIndexing`. The type
  invariant is inductive with `FileInHand`: a worker that parses has a file in its hands.
  Leaving the loop quiet needs `QuietInv`: a worker with work in hand, or a DONE unread, is
  active and has an entry in `worker_state`. `HandedOutOnce` is inductive once its first
  part (everything handed out is below `next_file`) is part of it. For `DeathsCostFiles`
  the deaths are an account (`LossBounded`): files that are nowhere any more, together with
  dead workers that the master has yet to try, are no more than the deaths. The refinement
  needs in addition that a file a worker was given has not been settled (`Unsettled`) and
  that nobody dies twice (`DeathsEnd`); it covers all of `IndexesDirectory`, which has no
  fairness.
* `TUnitCacheProofs`: `TypeCorrect`, `EditedContentsAreFresh`, `ReparsedUnitsAreFresh`,
  `EvictsOldest`.
  The types include the bound of the cache and that its order lists every unit in it once:
  a file that is put again is taken out of the order first,
  which is also why `Put` evicts for a new file only (`PutEvicts`). The invariant of the other two
  relates every cached mtime to the writes: it is that of edited contents only if the unit
  was parsed again from them, and for a unit parsed again it is no later than its
  contents. While a request is under way, the same has to be known of the unit in hand and
  of the mtime read before the second parse.
* `SymbolIndexProofs`: `TypeCorrect`, `CurrentIndexIsFilled`, `SuccessIsOnDisk`
  and the action properties `FilesLeaveExcused` and `DefinitionsFound`. All follow
  from `IndexInv`, which relates the view to the disk: between requests both have the same
  version, unless a run has raised, and no file is missing from the view that is not
  excused; while a run creates the index, nothing is in it. `ExecuteKeeps` is the common
  part of all operations that leave their transaction open.
* `CodeCompletionProofs`: `WordAnsweredFreshAlways`, `TypeCorrect`. `KeptForWord` is the
  reason for the first: a list that is not empty was asked for the word under the cursor.
  It fails between the typing of a separator and the request about it, and nowhere else,
  because that request drops the list or replaces it before anything can raise. Of what
  libclang offers it assumes nothing; the types assume that it is among the names, and
  need `LengthInv`, by which libclang is asked about lines within the bound only.
* `DisassemblyProofs`: `TypeCorrect`, `OutputIsOfTarget`, `OutputIsFresh`. The output
  is of the recorded target between requests, also if reading the mtime raised,
  because the target is recorded first; `OutputInv` says that the recorded build,
  if it is still there, is the one in the output or one that raced, `CallInv` that it is no
  older than the request.
* `DiagnosticsProofs`: `TypeCorrect`, `OwnDiagnosticsAreCurrent`, `DetailsAlwaysRefer`,
  `DetailsAreAttributed`. The types include the primary keys: ids are given again after
  deletions, but never one that is in use. `OwnInv` follows what is known of a translation
  unit from the worker that indexed it to the index: during a run it is in the worker's
  tables, and what is merged so far is the union of the first of them. A merge copies the
  details with the ids the worker gave, and the diagnostics with new ones. That the details
  refer to something all the same is because ids without gaps are 1 to the number of
  diagnostics (`Dense`): workers delete nothing, and an index only grows until something is
  deleted (what is deleted is `freed`). That they refer to the right one needs that one worker
  found all, and then the index is a copy of its tables (`MergeInv`).
* `ProjectProofs`: first, `TypeCorrect`, `ServicesAgree`, `FailsOnlyWithCause`,
  `ProjectImplementsConfiguration`, `ProjectServicesAgree`.
  `SameInv` is the induction over the services: those constructed so far have found what
  the server found and loaded it as it is on the disk. That a step of the constructor
  stays or advances in the table of services (`ProgressInv`) keeps it. Parsing changes
  nothing of it, so the composition implements `Configuration`, and the properties hold
  of it too.
  Then `ProjectTypeCorrect`, `FlagsAlwaysMeant` and `ParentIsIncluded`, for any units,
  headers, options and number of system include paths, none included. `Passes` says what the passes make of the words of any number of
  options, by induction over the list of options: two lists in a row are rewritten each for
  itself if no `-x` or `-I` ends the first (`Closed`), and no option ends in one.
  `ExtractCommand` and `ExtractInferred` follow a command through the passes: that of an
  entry, or one that libclang made up for another file, gives the arguments `Extracted(u)`,
  which do not depend on the file that was asked for. This is why an argument list may be
  remembered and given to other files, and `ArgsInv` says that nothing else ever is:
  what is cached, what is kept with a unit and what was answered all come from an entry, or
  from the default when there is none. It needs that the database is opened once, with
  nothing remembered yet, which `ProgressInv` gives. `EditedForm` is about the include path
  that is added. Induction is over sets, of numbers or of lists, from the well-foundedness of
  numbers (`Induction`, `SequenceInduction`), because the library's theorems take a
  predicate.

Every invariant that a passing run checks is proved, and so are the action properties and both
refinements but for the fairness of `KeepsContract`. Only model-checked: liveness
(`EndOfInputExits`, `StopReturned`, `RestartServes`, `RunEnds`, and that the contract's
answers come), which is out of the prover's reach.

## Plan

1. The worker's protocol with file names that contain its separators (`clang_indexer.py`,
   line 394), as a variant of `IndexerScheduler` in which pipes carry characters.
2. `Diagnostics` with the transactions of `SymbolIndex`, and the tables of symbols.
3. The parsers of the other services, each with a `CompilerArgs` of its own.

## Not modelled

* AST queries of `clang_parser.py`, `ast_node_identifier.py`, `ctags_parser.py`:
  stateless translations of what libclang returns.
* `clang_format_service.py`, `clang_tidy_service.py`, `project_builder_service.py`
  and the queries of the source-code model other than go-to-definition: a request is one
  run without state, which is what `HandleRequest` says of it. Of clang-tidy only the
  database it uses is modelled (`Configuration`).
* The reading of `.cxxd_config.json` and the options that are passed on to tools.
* `ctags_cscope_indexer.py` and `asm/amd64.py`: unreachable from the server.
