--------------------------- MODULE IndexerScheduler ---------------------------
(***************************************************************************)
(* ClangIndexer.__run_on_directory (clang_indexer.py): the master hands    *)
(* the source files of a project one by one to worker processes, over      *)
(* pipes, merges the databases they leave behind, and reports success.     *)
(*                                                                         *)
(* A file is named by its position in the list sorted by size, a worker by *)
(* its position in `workers`: pop(0) of a list of either takes the least.  *)
(***************************************************************************)
EXTENDS Naturals, Sequences, FiniteSets

CONSTANTS
  NumWorkers,   \* multiprocessing.cpu_count()
  NumFiles,     \* bound on the files found under the root directory
  FileCounts,   \* how many of them are found in a run
  ParseOutcome, \* what index_single_file can do with a file: ok, fail
  MaxDeaths     \* bound on the number of workers that die

ASSUME WorkersAssumption == NumWorkers \in Nat \ {0}
ASSUME FilesAssumption == NumFiles \in Nat
ASSUME CountsAssumption == FileCounts \subseteq 0..NumFiles
ASSUME ParseAssumption == ParseOutcome \subseteq {"ok", "fail"}
ASSUME DeathsAssumption == MaxDeaths \in Nat

Worker == 1..NumWorkers
File == 1..NumFiles

VARIABLES
  (* the master *)
  pc,           \* fill, loop: at its head; ready: serving what select returned;
                \* shutdown: closing and waiting; merge; done: True is returned
  found,        \* the run is about the files 1..found
  next_file,    \* pending_files is next_file..found
  active,       \* active_workers
  idle,         \* idle_workers
  worker_state, \* the workers with an entry in the dictionary worker_state
  ready,        \* workers in `ready` whose line is still to be read
  reaped,       \* workers[0:reaped] have been waited for
  merged,       \* files whose symbols are in the project's database
  (* the workers and the pipes *)
  stdin,        \* stdin[w]: file names written and not yet read
  stdin_open,   \* stdin_open[w]: the master has not closed its end
  stdout,       \* stdout[w]: number of DONE lines not yet read
  state,        \* state[w]: idle, parsing, reporting, ended
  file,         \* file[w]: the file being worked on, 0 if none
  db,           \* db[w]: files committed to the worker's own database
  unparsed,     \* files a worker found no translation unit in, or raised for
  deaths        \* number of workers that died

masterVars ==
  <<pc, found, next_file, active, idle, worker_state, ready, reaped, merged>>
workerVars == <<state, file, db, unparsed, deaths>>
pipeVars == <<stdin, stdin_open, stdout>>
vars == <<masterVars, workerVars, pipeVars>>

TypeOK ==
  /\ pc \in {"fill", "loop", "ready", "shutdown", "merge", "done"}
  /\ found \in 0..NumFiles
  /\ next_file \in 1..(found + 1)
  /\ active \subseteq Worker /\ idle \subseteq Worker
  /\ worker_state \subseteq Worker /\ ready \subseteq Worker
  /\ reaped \in 0..NumWorkers
  /\ merged \subseteq File
  /\ stdin \in [Worker -> Seq(File)]
  /\ stdin_open \in [Worker -> BOOLEAN]
  /\ stdout \in [Worker -> Nat]
  /\ state \in [Worker -> {"idle", "parsing", "reporting", "ended"}]
  /\ file \in [Worker -> File \cup {0}]
  /\ db \in [Worker -> SUBSET File]
  /\ unparsed \subseteq File
  /\ deaths \in Nat

\* The workers run, each on a database of its own; the files are sorted.
Init ==
  /\ pc = "fill" /\ found \in FileCounts /\ next_file = 1
  /\ active = Worker /\ idle = Worker
  /\ worker_state = {} /\ ready = {}
  /\ reaped = 0 /\ merged = {}
  /\ stdin = [w \in Worker |-> <<>>]
  /\ stdin_open = [w \in Worker |-> TRUE]
  /\ stdout = [w \in Worker |-> 0]
  /\ state = [w \in Worker |-> "idle"]
  /\ file = [w \in Worker |-> 0]
  /\ db = [w \in Worker |-> {}] /\ unparsed = {}
  /\ deaths = 0

IsLeast(w, S) == w \in S /\ \A v \in S : w <= v

Pending == next_file <= found

-----------------------------------------------------------------------------
(* The workers: index_interactive *)

\* A file name is read from standard input.
Read(w) ==
  /\ state[w] = "idle" /\ stdin[w] # <<>>
  /\ state' = [state EXCEPT ![w] = "parsing"]
  /\ file' = [file EXCEPT ![w] = Head(stdin[w])]
  /\ stdin' = [stdin EXCEPT ![w] = Tail(@)]
  /\ UNCHANGED <<masterVars, stdin_open, stdout, db, unparsed, deaths>>

\* index_single_file commits the symbols of the file, or finds no translation
\* unit in it, or raises: DONE is printed in each case.
Index(w) ==
  /\ state[w] = "parsing"
  /\ state' = [state EXCEPT ![w] = "reporting"]
  /\ \/ /\ "ok" \in ParseOutcome
        /\ db' = [db EXCEPT ![w] = @ \cup {file[w]}] /\ UNCHANGED unparsed
     \/ /\ "fail" \in ParseOutcome
        /\ unparsed' = unparsed \cup {file[w]} /\ UNCHANGED db
  /\ UNCHANGED <<masterVars, pipeVars, file, deaths>>

Report(w) ==
  /\ state[w] = "reporting"
  /\ state' = [state EXCEPT ![w] = "idle"]
  /\ file' = [file EXCEPT ![w] = 0]
  /\ stdout' = [stdout EXCEPT ![w] = @ + 1]
  /\ UNCHANGED <<masterVars, stdin, stdin_open, db, unparsed, deaths>>

\* End of file on standard input: the worker closes its database and exits.
Quit(w) ==
  /\ state[w] = "idle" /\ stdin[w] = <<>> /\ ~stdin_open[w]
  /\ state' = [state EXCEPT ![w] = "ended"]
  /\ UNCHANGED <<masterVars, pipeVars, file, db, unparsed, deaths>>

\* The worker process dies at any point (libclang brings it down).
Die(w) ==
  /\ state[w] # "ended" /\ deaths < MaxDeaths
  /\ state' = [state EXCEPT ![w] = "ended"]
  /\ file' = [file EXCEPT ![w] = 0]
  /\ stdin' = [stdin EXCEPT ![w] = <<>>]
  /\ deaths' = deaths + 1
  /\ UNCHANGED <<masterVars, stdin_open, stdout, db, unparsed>>

-----------------------------------------------------------------------------
(* The master *)

\* pending_files.pop(0) and send_work(w, ...), `tracked` being the entries of
\* worker_state then. A write to a worker that has ended raises BrokenPipeError:
\* the worker is dropped, and the file is not put back.
SendNext(w, tracked) ==
  /\ next_file' = next_file + 1
  /\ IF state[w] = "ended"
       THEN /\ active' = active \ {w}
            /\ worker_state' = tracked \ {w}
            /\ UNCHANGED stdin
       ELSE /\ stdin' = [stdin EXCEPT ![w] = Append(@, next_file)]
            /\ worker_state' = tracked \cup {w}
            /\ UNCHANGED active

\* Mutant of Fill: the list of files is not looked at.
FillBlindly(w) ==
  /\ pc = "fill" /\ IsLeast(w, idle)
  /\ idle' = idle \ {w}
  /\ SendNext(w, worker_state)
  /\ UNCHANGED <<found, pc, ready, reaped, merged, stdin_open, stdout, workerVars>>

\* The initial fill gives every worker one file, while files last.
Fill(w) ==
  /\ pc = "fill" /\ Pending /\ IsLeast(w, idle)
  /\ idle' = idle \ {w}
  /\ SendNext(w, worker_state)
  /\ UNCHANGED <<found, pc, ready, reaped, merged, stdin_open, stdout, workerVars>>

Filled ==
  /\ pc = "fill" /\ (idle = {} \/ ~Pending)
  /\ pc' = "loop"
  /\ UNCHANGED <<found, next_file, active, idle, worker_state, ready, reaped, merged>>
  /\ UNCHANGED <<workerVars, pipeVars>>

\* Mutant of Continue: the loop runs only until all files are handed out.
ContinuePending == active # {} /\ Pending

\* The condition of the event loop. Workers that leave active_workers do not
\* leave idle_workers.
Continue ==
  /\ active # {}
  /\ Pending \/ Cardinality(idle) < Cardinality(active) \/ worker_state # {}

\* A worker's pipe is readable when it holds a line or the worker has ended.
Readable(w) == stdout[w] > 0 \/ state[w] = "ended"

\* select returns the active workers that are readable. While none is, it times
\* out every ten seconds, which is only logged.
Select ==
  /\ pc = "loop" /\ Continue
  /\ ready' = {w \in active : Readable(w)}
  /\ ready' # {}
  /\ pc' = "ready"
  /\ UNCHANGED <<found, next_file, active, idle, worker_state, reaped, merged>>
  /\ UNCHANGED <<workerVars, pipeVars>>

\* The master is through with `ready` after the worker it serves now.
Served(w) ==
  /\ ready' = ready \ {w}
  /\ pc' = IF ready' = {} THEN "loop" ELSE "ready"

\* Mutants of Disconnected: the file handed out last is put back; the end of the
\* output is taken for a DONE; the worker stays active.
DisconnectedPutsBack(w) ==
  /\ pc = "ready" /\ IsLeast(w, ready) /\ stdout[w] = 0
  /\ active' = active \ {w}
  /\ worker_state' = worker_state \ {w}
  /\ next_file' = next_file - 1
  /\ Served(w)
  /\ UNCHANGED <<found, idle, reaped, merged, workerVars, pipeVars>>

DisconnectedDone(w) ==
  /\ pc = "ready" /\ IsLeast(w, ready) /\ stdout[w] = 0
  /\ IF Pending
       THEN SendNext(w, worker_state \ {w})
       ELSE /\ active' = active \ {w}
            /\ worker_state' = worker_state \ {w}
            /\ UNCHANGED <<next_file, stdin>>
  /\ Served(w)
  /\ UNCHANGED <<found, idle, reaped, merged, workerVars, stdin_open, stdout>>

DisconnectedStays(w) ==
  /\ pc = "ready" /\ IsLeast(w, ready) /\ stdout[w] = 0
  /\ Served(w)
  /\ UNCHANGED <<found, next_file, active, idle, worker_state, reaped, merged>>
  /\ UNCHANGED <<workerVars, pipeVars>>

\* An empty line: the worker has died. Its file goes with it.
Disconnected(w) ==
  /\ pc = "ready" /\ IsLeast(w, ready) /\ stdout[w] = 0
  /\ active' = active \ {w}
  /\ worker_state' = worker_state \ {w}
  /\ Served(w)
  /\ UNCHANGED <<found, next_file, idle, reaped, merged, workerVars, pipeVars>>

\* DONE: the worker gets the next file, or is closed and no longer watched.
Done(w) ==
  /\ pc = "ready" /\ IsLeast(w, ready) /\ stdout[w] > 0
  /\ stdout' = [stdout EXCEPT ![w] = @ - 1]
  /\ \/ /\ Pending
        /\ SendNext(w, worker_state \ {w})
        /\ UNCHANGED stdin_open
     \/ /\ ~Pending
        /\ active' = active \ {w}
        /\ worker_state' = worker_state \ {w}
        /\ stdin_open' = [stdin_open EXCEPT ![w] = FALSE]
        /\ UNCHANGED <<next_file, stdin>>
  /\ Served(w)
  /\ UNCHANGED <<found, idle, reaped, merged, workerVars>>

LeaveLoop ==
  /\ pc = "loop" /\ ~Continue
  /\ pc' = "shutdown"
  /\ UNCHANGED <<found, next_file, active, idle, worker_state, ready, reaped, merged>>
  /\ UNCHANGED <<workerVars, pipeVars>>

\* Worker by worker: close its standard input, then wait for it.
CloseStdin(w) ==
  /\ pc = "shutdown" /\ w = reaped + 1 /\ stdin_open[w]
  /\ stdin_open' = [stdin_open EXCEPT ![w] = FALSE]
  /\ UNCHANGED <<masterVars, stdin, stdout, workerVars>>

\* Mutant of Wait: the process is not waited for.
WaitNot(w) ==
  /\ pc = "shutdown" /\ w = reaped + 1 /\ ~stdin_open[w]
  /\ reaped' = w
  /\ pc' = IF w = NumWorkers THEN "merge" ELSE "shutdown"
  /\ UNCHANGED <<found, next_file, active, idle, worker_state, ready, merged>>
  /\ UNCHANGED <<workerVars, pipeVars>>

Wait(w) ==
  /\ pc = "shutdown" /\ w = reaped + 1 /\ ~stdin_open[w]
  /\ state[w] = "ended"
  /\ reaped' = w
  /\ pc' = IF w = NumWorkers THEN "merge" ELSE "shutdown"
  /\ UNCHANGED <<found, next_file, active, idle, worker_state, ready, merged>>
  /\ UNCHANGED <<workerVars, pipeVars>>

\* Mutant of Merge: the workers are looked up in the list the loop empties.
MergeActive ==
  /\ pc = "merge"
  /\ merged' = UNION {db[w] : w \in active}
  /\ pc' = "done"
  /\ UNCHANGED <<found, next_file, active, idle, worker_state, ready, reaped>>
  /\ UNCHANGED <<workerVars, pipeVars>>

\* copy_all_entries_from the databases of all workers, then `return True`.
Merge ==
  /\ pc = "merge"
  /\ merged' = UNION {db[w] : w \in Worker}
  /\ pc' = "done"
  /\ UNCHANGED <<found, next_file, active, idle, worker_state, ready, reaped>>
  /\ UNCHANGED <<workerVars, pipeVars>>

MasterStep ==
  \/ Filled \/ Select \/ LeaveLoop \/ Merge
  \/ \E w \in Worker :
       Fill(w) \/ Disconnected(w) \/ Done(w) \/ CloseStdin(w) \/ Wait(w)

WorkerStep(w) == Read(w) \/ Index(w) \/ Report(w) \/ Quit(w)

\* The run is over.
Finished == pc = "done" /\ UNCHANGED vars

Next ==
  \/ MasterStep \/ Finished
  \/ \E w \in Worker : WorkerStep(w) \/ Die(w)

\* Master and workers are processes the operating system schedules. A worker is
\* fair as long as libclang's parse returns, which is assumed here: the master
\* has no timeout for one that does not.
Fairness ==
  WF_vars(MasterStep) /\ \A w \in Worker : WF_vars(WorkerStep(w))

Spec == Init /\ [][Next]_vars /\ Fairness

-----------------------------------------------------------------------------
\* What worker w has been given and not lost by dying: names on its input, the
\* file in its hands, the files it committed.
Claimed(w) ==
  {stdin[w][i] : i \in DOMAIN stdin[w]} \cup ({file[w]} \ {0}) \cup db[w]

\* No file is handed out twice, whoever dies and whatever order the answers come
\* in: the merge never finds a file's symbols in two databases.
HandedOutOnce ==
  \A w \in Worker :
    /\ \A f \in Claimed(w) : f < next_file
    /\ \A v \in Worker \ {w} : Claimed(v) \cap Claimed(w) = {}

\* The loop is not left, and no worker closed, while a worker has work in hand:
\* the merge sees everything a live worker was given.
LeftWhenQuiet ==
  pc \in {"shutdown", "merge", "done"} =>
    \A w \in Worker :
      stdin[w] = <<>> /\ state[w] \in {"idle", "ended"}

\* The databases are read only after every process that writes them has ended.
MergedAfterExit ==
  pc \in {"merge", "done"} => \A w \in Worker : state[w] = "ended"

\* As long as one worker is left, a worker that dies costs one file at most: the
\* one it had, or the one the master tried to give it. All others are merged,
\* but those that no translation unit could be made of.
DeathCostsOneFile ==
  pc = "done" /\ deaths < NumWorkers =>
    Cardinality((1..found) \ (merged \cup unparsed)) <= deaths

\* The indexing run comes to its end, whoever dies.
RunEnds == <>(pc = "done")

-----------------------------------------------------------------------------
\* The pool of workers amounts to what DirectoryIndexing.tla says: files are
\* published together and once, after the last of them was indexed; what a worker
\* committed before it died is published; a death costs one file at most.
Indexing ==
  INSTANCE DirectoryIndexing WITH
    AllFiles  <- File,
    Workers   <- NumWorkers,
    files     <- 1..found,
    indexed   <- UNION {db[w] : w \in Worker},
    skipped   <- unparsed,
    failed    <- deaths,
    published <- merged,
    finished  <- pc = "done"

IndexesDirectory == Indexing!Spec
=============================================================================
