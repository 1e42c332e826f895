------------------------------ MODULE SymbolIndex ------------------------------
(***************************************************************************)
(* The symbol index of a project (clang_indexer.py, symbol_database.py):   *)
(* a SQLite file at a fixed path, which the listener of the source code    *)
(* model service creates, updates and removes while requests arrive, and   *)
(* which outlives it.                                                      *)
(*                                                                         *)
(* The server builds the service when it starts, and with it a connection  *)
(* if there is an index; each listener forked later inherits that.  A      *)
(* connection stays with the file it was made to when the file is removed: *)
(* it can be read then, but SQLite refuses every write, which              *)
(* SymbolDatabase only logs.                                               *)
(***************************************************************************)
CONSTANTS
  Files,      \* source files of the project
  Blacklisted \* those in a blacklisted directory

ASSUME BlacklistedAssumption == Blacklisted \subseteq Files

\* A database: whether the tables were created, the row of the table `version`,
\* the files it has entries of; and how the run that was to fill it has ended.
Index ==
  [tables : BOOLEAN, version : {"none", "old", "current"}, files : SUBSET Files,
   run : {"none", "complete", "raised"}]
EmptyFile == [tables |-> FALSE, version |-> "none", files |-> {}, run |-> "none"]

VARIABLES
  exists,       \* symbol_db_exists()
  disk,         \* what is committed to the file at symbol_db_path
  conn,         \* db_connection of the listener: none, to the file on disk, or to
                \* one that has been removed
  view,         \* what that connection sees, the open transaction included
  named,        \* filename of the listener's SymbolDatabase is not None
  server_conn,  \* db_connection of the server process
  server_named, \* filename there
  removed,      \* the removed file server_conn is to
  pc,           \* down: no listener; idle; create, tables, indexing: in
                \* __run_on_directory
  answer,       \* the last answer of the listener
  excused       \* files a request has taken out of the listener's view, or tried
                \* in vain to index, since the listener was forked

vars == <<exists, disk, conn, view, named, server_conn, server_named, removed,
          pc, answer, excused>>
serverVars == <<server_conn, server_named, removed>>

Connection == {"none", "disk", "removed"}
NoAnswer == [op |-> "none", success |-> FALSE]
Answered == [op : {"none", "directory", "single", "drop", "dropall", "query", "definition"},
             success : BOOLEAN]

\* The types of the variables, and what a connection can be to.
Types ==
  /\ exists \in BOOLEAN /\ disk \in Index /\ (~exists => disk = EmptyFile)
  /\ conn \in Connection /\ (conn = "disk" => exists)
  /\ view \in Index /\ named \in BOOLEAN /\ (conn # "none" => named)
  /\ server_conn \in Connection /\ (server_conn = "disk" => exists)
  /\ server_named = (server_conn # "none")
  /\ removed \in Index
  /\ pc \in {"down", "idle", "create", "tables", "indexing"}
  /\ answer \in Answered
  /\ excused \subseteq Files

\* A removed index stays in use, with success that leaves none and definitions of old, only
\* by way of the connection that the server made when it was constructed: no listener is
\* connected to a file that it removed itself, and none if the server has no connection.
StaleOnlyIfInherited == conn = "removed" => server_conn = "removed"

\* The type invariant, and where a connection to a removed file comes from.
TypeOK == Types /\ StaleOnlyIfInherited

\* A server is started on a project that has no index, or one of an earlier server.
Init ==
  /\ exists \in BOOLEAN
  /\ \/ ~exists /\ disk = EmptyFile
     \/ /\ exists
        /\ \E v \in {"old", "current"}, S \in SUBSET (Files \ Blacklisted) :
             disk = [tables |-> TRUE, version |-> v, files |-> S, run |-> "complete"]
  /\ conn = "none" /\ view = EmptyFile /\ named = FALSE
  /\ server_conn = IF exists THEN "disk" ELSE "none"
  /\ server_named = exists
  /\ removed = EmptyFile
  /\ pc = "down" /\ answer = NoAnswer /\ excused = {}

-----------------------------------------------------------------------------
(* SymbolDatabase *)

\* What is seen after open(): a connection there is, is kept.
Seen == IF conn = "none" THEN disk ELSE view

\* open() the index and execute statements that make it `index`, in a transaction
\* that stays open; on a removed file each of them fails.
Execute(index) ==
  /\ conn' = IF conn = "none" THEN "disk" ELSE conn
  /\ view' = IF conn = "removed" THEN view ELSE index
  /\ named' = TRUE

\* flush() after it.
Flush == disk' = IF conn' = "disk" THEN view' ELSE disk

\* Rows can be deleted and inserted when there are tables.
WithFiles(index, S) ==
  [tables |-> index.tables, version |-> index.version,
   files |-> IF index.tables THEN S ELSE {}, run |-> index.run]
Current(index, S, how) ==
  [tables |-> TRUE, version |-> "current", files |-> S, run |-> how]

Answer(op, success) == answer' = [op |-> op, success |-> success]

\* An exception ends the request in process_request, unanswered.
Raise == answer' = NoAnswer

\* Mutant of RemoveFile: the file is removed without close().
RemoveFileKeepsConnection ==
  /\ exists' = FALSE /\ disk' = EmptyFile
  /\ conn' = (IF conn = "none" THEN "none" ELSE "removed") /\ UNCHANGED view
  /\ IF server_conn = "disk"
       THEN server_conn' = "removed" /\ removed' = disk
       ELSE UNCHANGED <<server_conn, removed>>
  /\ named' = TRUE
  /\ excused' = Files
  /\ UNCHANGED server_named

\* close(), which rolls back, and os.remove() of the file by the name it was opened
\* with. The connection of the server stays open.
RemoveFile ==
  /\ exists' = FALSE /\ disk' = EmptyFile
  /\ conn' = "none" /\ view' = EmptyFile
  /\ IF server_conn = "disk"
       THEN server_conn' = "removed" /\ removed' = disk
       ELSE UNCHANGED <<server_conn, removed>>
  /\ named' = TRUE
  /\ excused' = Files
  /\ UNCHANGED server_named

-----------------------------------------------------------------------------
(* The operations of ClangIndexer *)

\* Mutant of RunOnSingleFile: the transaction is committed before the new entries
\* are inserted.
RunOnSingleFileFlushesEarly(f) ==
  /\ pc = "idle" /\ exists /\ f \notin Blacklisted
  /\ LET deleted == WithFiles(Seen, Seen.files \ {f})
     IN  /\ Execute(WithFiles(deleted, deleted.files \cup {f}))
         /\ disk' = IF conn' = "disk" THEN deleted ELSE disk
         /\ excused' = excused \ {f}
         /\ Answer("single", TRUE)
  /\ UNCHANGED <<exists, serverVars, pc>>

\* The entries of the file are deleted, then it is parsed, and inserted and
\* committed if there is a translation unit. When there is none, or the parser
\* raises, the deletion stays in the open transaction.
RunOnSingleFile(f) ==
  /\ pc = "idle"
  /\ IF ~exists \/ f \in Blacklisted
       THEN /\ Answer("single", FALSE)
            /\ UNCHANGED <<disk, conn, view, named, excused>>
       ELSE LET deleted == WithFiles(Seen, Seen.files \ {f})
            IN  \/ /\ Execute(WithFiles(deleted, deleted.files \cup {f}))
                   /\ Flush
                   /\ excused' = excused \ {f}
                   /\ Answer("single", TRUE)
                \/ /\ Execute(deleted)
                   /\ excused' = excused \cup {f}
                   /\ Answer("single", FALSE) \/ Raise
                   /\ UNCHANGED disk
  /\ UNCHANGED <<exists, serverVars, pc>>

\* symbol_db_schema_changed: there is an index, and it is opened. One without a
\* version row raises IndexError; one with the current version is taken to be
\* what was asked for.
AlreadyThere ==
  /\ pc = "idle" /\ exists /\ Seen.version # "old"
  /\ Execute(Seen)
  /\ IF Seen.version = "current" THEN Answer("directory", TRUE) ELSE Raise
  /\ UNCHANGED <<exists, disk, serverVars, pc, excused>>

\* An index with another version is dropped.
SchemaChanged ==
  /\ pc = "idle" /\ exists /\ Seen.version = "old"
  /\ RemoveFile
  /\ pc' = "create" /\ answer' = NoAnswer

NotThere ==
  /\ pc = "idle" /\ ~exists
  /\ pc' = "create" /\ answer' = NoAnswer
  /\ UNCHANGED <<exists, disk, conn, view, named, serverVars, excused>>

\* sqlite3.connect creates the file. A listener that has a connection does not
\* connect.
Create ==
  /\ pc = "create"
  /\ IF conn = "none"
       THEN exists' = TRUE /\ conn' = "disk" /\ view' = EmptyFile /\ named' = TRUE
       ELSE UNCHANGED <<exists, conn, view, named>>
  /\ pc' = "tables"
  /\ UNCHANGED <<disk, serverVars, answer, excused>>

\* Mutant of CreateDataModel: the version is committed with the tables.
CreateDataModelCommits ==
  /\ pc = "tables"
  /\ Execute(Current(view, {}, "none"))
  /\ Flush
  /\ pc' = "indexing"
  /\ UNCHANGED <<exists, serverVars, answer, excused>>

\* The tables are committed as they are created; the row of `version` opens a
\* transaction.
CreateDataModel ==
  /\ pc = "tables"
  /\ Execute(Current(view, {}, "none"))
  /\ disk' = IF conn' = "disk" THEN [tables |-> TRUE, version |-> "none",
                                     files |-> {}, run |-> "none"]
             ELSE disk
  /\ pc' = "indexing"
  /\ UNCHANGED <<exists, serverVars, answer, excused>>

\* Mutant of Merge: what is copied is not committed.
MergeWithoutFlush(S) ==
  /\ pc = "indexing"
  /\ Execute(Current(view, S, "complete"))
  /\ excused' = {}
  /\ Answer("directory", TRUE)
  /\ pc' = "idle"
  /\ UNCHANGED <<exists, disk, serverVars>>

\* The workers have ended (IndexerScheduler.tla) and have entries of the files S:
\* copy_all_entries_from inserts them, and commits.
Merge(S) ==
  /\ pc = "indexing"
  /\ Execute(Current(view, S, "complete"))
  /\ Flush
  /\ excused' = {}
  /\ Answer("directory", TRUE)
  /\ pc' = "idle"
  /\ UNCHANGED <<exists, serverVars>>

\* A worker cannot be started, its database not be created, a file goes away
\* between exists() and getsize(): the run raises, and the listener goes on with
\* the transaction as it is.
RunRaises ==
  /\ pc = "indexing"
  /\ Execute(Current(view, view.files, "raised"))
  /\ Raise
  /\ pc' = "idle"
  /\ UNCHANGED <<exists, disk, serverVars, excused>>

\* Mutant of DropSingleFile: the WHERE clause of the DELETE statement is missing.
DropSingleFileDeletesAll(f) ==
  /\ pc = "idle"
  /\ Answer("drop", exists)
  /\ IF exists /\ f \notin Blacklisted
       THEN /\ Execute(WithFiles(Seen, {}))
            /\ excused' = excused \cup {f}
       ELSE UNCHANGED <<conn, view, named, excused>>
  /\ UNCHANGED <<exists, disk, serverVars, pc>>

DropSingleFile(f) ==
  /\ pc = "idle"
  /\ Answer("drop", exists)
  /\ IF exists /\ f \notin Blacklisted
       THEN /\ Execute(WithFiles(Seen, Seen.files \ {f}))
            /\ excused' = excused \cup {f}
       ELSE UNCHANGED <<conn, view, named, excused>>
  /\ UNCHANGED <<exists, disk, serverVars, pc>>

\* __drop_all without delete_file_from_disk: the rows are deleted.
DropRows ==
  /\ pc = "idle"
  /\ Answer("dropall", exists)
  /\ IF exists
       THEN Execute(WithFiles(Seen, {})) /\ excused' = Files
       ELSE UNCHANGED <<conn, view, named, excused>>
  /\ UNCHANGED <<exists, disk, serverVars, pc>>

\* With it: the file is removed. In a listener that has not opened it there is no
\* name to remove it by, and os.remove(None) raises.
DropFromDisk ==
  /\ pc = "idle"
  /\ IF exists /\ named
       THEN RemoveFile /\ Answer("dropall", TRUE)
       ELSE /\ IF exists THEN Raise ELSE Answer("dropall", FALSE)
            /\ UNCHANGED <<exists, disk, conn, view, named, serverVars, excused>>
  /\ UNCHANGED pc

\* References, diagnostics and definitions are read; the search for references
\* does not open the index unless it finds a cursor to search for.
Query ==
  /\ pc = "idle"
  /\ \/ exists /\ Execute(Seen) /\ Answer("query", TRUE)
     \/ Answer("query", FALSE) /\ UNCHANGED <<conn, view, named>>
  /\ UNCHANGED <<exists, disk, serverVars, pc, excused>>

\* A symbol that is defined in f. libclang knows the definition if it is in the
\* translation unit; otherwise it is looked up in the index, which is not opened for
\* it: a listener without a connection finds nothing. Without a cursor, it raises.
GoToDefinition(f) ==
  /\ pc = "idle"
  /\ \/ Answer("definition", TRUE)
     \/ Answer("definition", conn # "none" /\ f \in view.files)
     \/ Raise
  /\ UNCHANGED <<exists, disk, conn, view, named, serverVars, pc, excused>>

-----------------------------------------------------------------------------
(* The processes *)

\* The listener is stopped, or dies at any point: either way its transaction is
\* rolled back.
End ==
  /\ pc # "down"
  /\ pc' = "down"
  /\ conn' = "none" /\ view' = EmptyFile /\ named' = FALSE
  /\ answer' = NoAnswer /\ excused' = {}
  /\ UNCHANGED <<exists, disk, serverVars>>

\* The service is started: its listener has the connection of the server.
Fork ==
  /\ pc = "down"
  /\ pc' = "idle"
  /\ conn' = server_conn /\ named' = server_named
  /\ view' = IF server_conn = "disk" THEN disk
             ELSE IF server_conn = "removed" THEN removed ELSE EmptyFile
  /\ UNCHANGED <<exists, disk, serverVars, answer, excused>>

\* A new server: ClangIndexer.__init__ connects if there is an index.
RestartServer ==
  /\ pc = "down"
  /\ server_conn' = IF exists THEN "disk" ELSE "none"
  /\ server_named' = exists
  /\ removed' = EmptyFile
  /\ UNCHANGED <<exists, disk, conn, view, named, pc, answer, excused>>

RunOnDirectory ==
  \/ AlreadyThere \/ SchemaChanged \/ NotThere \/ Create \/ CreateDataModel
  \/ \E S \in SUBSET (Files \ Blacklisted) : Merge(S)
  \/ RunRaises

Next ==
  \/ RunOnDirectory
  \/ \E f \in Files : RunOnSingleFile(f) \/ DropSingleFile(f) \/ GoToDefinition(f)
  \/ DropRows \/ DropFromDisk \/ Query
  \/ End \/ Fork \/ RestartServer

Spec == Init /\ [][Next]_vars

-----------------------------------------------------------------------------
\* A database that says it has the current version, so that no run will fill it
\* any more, is the work of a run that came to its end, whatever died meanwhile; or
\* of one that raised, whose transaction the next single file commits.
CurrentIsFilled ==
  exists /\ disk.version = "current" => disk.run \in {"complete", "raised"}

\* What the index on disk says is found by a listener that is connected to it, through
\* whatever was committed late, rolled back or removed before, by it or by earlier ones:
\* unless a request was to drop the file or failed to index it.
DefinitionFound ==
  [][\A f \in Files :
       /\ GoToDefinition(f)
       /\ exists /\ f \in disk.files \ excused
       /\ conn = "disk"
       => answer' # [op |-> "definition", success |-> FALSE]]_vars

\* After an indexing run has been answered with success the index is on disk and
\* complete, in a listener that is not connected to a removed file, and has had
\* no run that raised.
IndexedIsOnDisk ==
  /\ answer = [op |-> "directory", success |-> TRUE]
  /\ conn # "removed" /\ view.run # "raised"
  => exists /\ disk.version = "current" /\ disk.run = "complete"

\* The entries of a file leave the index on disk only if a request of this listener
\* dropped them, or failed to index the file again.
OnDisk(f) == exists /\ f \in disk.files

LeavesOnlyIfExcused ==
  [][\A f \in Files : OnDisk(f) /\ ~OnDisk(f)' => f \in excused']_vars
=============================================================================
