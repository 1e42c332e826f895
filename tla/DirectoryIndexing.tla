--------------------------- MODULE DirectoryIndexing ---------------------------
(***************************************************************************)
(* What indexing a directory amounts to, pipes, queues and databases out   *)
(* of sight: files are indexed one after the other, in no given order, and *)
(* then published together in the project's database.  A file that is no   *)
(* translation unit is skipped.  A worker that fails may cost one file;    *)
(* all others are published, and all that was indexed is, also by the      *)
(* workers that failed.                                                    *)
(***************************************************************************)
EXTENDS Naturals, FiniteSets

CONSTANTS
  AllFiles,  \* the files a directory can have
  Workers    \* number of workers that share them

VARIABLES
  files,     \* the files of the directory
  skipped,   \* files without a translation unit
  indexed,   \* files whose symbols have been collected
  failed,    \* number of workers that have failed
  published, \* files whose symbols the database holds
  finished   \* the run has reported success

indexingVars == <<files, skipped, indexed, failed, published, finished>>

Init ==
  /\ files \in SUBSET AllFiles
  /\ skipped = {} /\ indexed = {} /\ failed = 0
  /\ published = {} /\ finished = FALSE

Index(f) ==
  /\ f \notin indexed \cup skipped /\ ~finished
  /\ indexed' = indexed \cup {f}
  /\ UNCHANGED <<files, skipped, failed, published, finished>>

Skip(f) ==
  /\ f \notin indexed \cup skipped /\ ~finished
  /\ skipped' = skipped \cup {f}
  /\ UNCHANGED <<files, indexed, failed, published, finished>>

Fail ==
  /\ failed < Workers /\ ~finished
  /\ failed' = failed + 1
  /\ UNCHANGED <<files, skipped, indexed, published, finished>>

\* As long as one worker is left, no more files are missing than workers.
Publish ==
  /\ ~finished
  /\ failed < Workers => Cardinality(files \ (indexed \cup skipped)) <= failed
  /\ published' = indexed
  /\ finished' = TRUE
  /\ UNCHANGED <<files, skipped, indexed, failed>>

Next == Fail \/ Publish \/ \E f \in files : Index(f) \/ Skip(f)

Spec == Init /\ [][Next]_indexingVars
=============================================================================
