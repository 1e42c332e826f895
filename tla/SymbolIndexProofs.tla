--------------------------- MODULE SymbolIndexProofs ---------------------------
(***************************************************************************)
(* Proofs about SymbolIndex.tla, for every set of files and whatever is    *)
(* blacklisted: no crash, and no order of requests, leaves an index that   *)
(* says it is current and is not filled, a connection to a removed file    *)
(* that was not inherited, or success without an index.                    *)
(***************************************************************************)
EXTENDS SymbolIndex, TLAPS

\* What a listener that is connected to the index sees, compared with the disk: the
\* same version, until a run creates it or raises; no file is missing but those
\* that were dropped or failed to be indexed.
ViewInv ==
  conn = "disk" =>
    /\ pc = "idle" =>
         \/ view.run = "raised"
         \/ view.version = disk.version /\ view.run = disk.run
    /\ \A f \in disk.files : f \in view.files \/ f \in excused
    /\ view.tables \/ disk.files = {}

\* While a run creates the index there is nothing in it, and nothing is answered.
RunInv ==
  /\ disk.tables \/ disk.files = {}
  /\ pc = "create" => ~exists
  /\ pc \in {"tables", "indexing"} =>
       conn # "none" /\ (conn = "disk" => disk.files = {})
  /\ pc # "idle" => answer = NoAnswer
  /\ pc = "down" => conn = "none"

IndexInv ==
  /\ Types /\ CurrentIsFilled /\ StaleOnlyIfInherited /\ IndexedIsOnDisk
  /\ ViewInv /\ RunInv

-----------------------------------------------------------------------------
\* Databases are made of databases.
LEMMA WithFilesIndex ==
  ASSUME NEW index \in Index, NEW S \in SUBSET Files
  PROVE  /\ WithFiles(index, S) \in Index
         /\ WithFiles(index, S).tables = index.tables
         /\ WithFiles(index, S).version = index.version
         /\ WithFiles(index, S).run = index.run
         /\ WithFiles(index, S).files = IF index.tables THEN S ELSE {}
  BY DEF WithFiles, Index

LEMMA CurrentIndex ==
  ASSUME NEW index, NEW S \in SUBSET Files, NEW how \in {"none", "complete", "raised"}
  PROVE  /\ Current(index, S, how) \in Index
         /\ Current(index, S, how).tables
         /\ Current(index, S, how).version = "current"
         /\ Current(index, S, how).run = how
         /\ Current(index, S, how).files = S
  BY DEF Current, Index

LEMMA EmptyIndex ==
  /\ EmptyFile \in Index
  /\ EmptyFile.version = "none" /\ EmptyFile.files = {} /\ ~EmptyFile.tables
  BY DEF EmptyFile, Index

\* What a listener sees before an operation: the index on disk, with what is
\* pending, unless it is connected to a removed file.
LEMMA SeenIndex ==
  ASSUME IndexInv, pc = "idle", exists
  PROVE  /\ Seen \in Index
         /\ conn # "removed" =>
              /\ \/ Seen.run = "raised"
                 \/ Seen.version = disk.version /\ Seen.run = disk.run
              /\ \A f \in disk.files : f \in Seen.files \/ f \in excused
              /\ Seen.tables \/ disk.files = {}
              /\ Seen.version = "current" => Seen.run \in {"complete", "raised"}
  BY DEF IndexInv, Types, ViewInv, RunInv, CurrentIsFilled, Seen, Connection

\* An answer to something else is not one to an indexing run.
LEMMA OtherAnswer ==
  ASSUME NEW op \in {"single", "drop", "dropall", "query", "definition"}, NEW success \in BOOLEAN,
         Answer(op, success) \/ Raise
  PROVE  answer' \in Answered /\ answer' # [op |-> "directory", success |-> TRUE]
<1>1. CASE Answer(op, success)
  <2>1. answer' = [op |-> op, success |-> success]
    BY <1>1 DEF Answer
  <2>2. answer'.op # "directory"
    BY <2>1
  <2> QED BY <2>1, <2>2 DEF Answered
<1>2. CASE Raise
  <2>1. answer' = [op |-> "none", success |-> FALSE]
    BY <1>2 DEF Raise, NoAnswer
  <2>2. answer'.op # "directory"
    BY <2>1
  <2> QED BY <2>1, <2>2 DEF Answered
<1> QED BY <1>1, <1>2

\* A file leaves the disk with an excuse only.
FilesKept == \A f \in Files : OnDisk(f) /\ ~OnDisk(f)' => f \in excused'

\* Statements in a transaction that stays open: the view may lose files that are
\* excused, and keeps the version.
LEMMA ExecuteKeeps ==
  ASSUME IndexInv, pc = "idle", exists, NEW index \in Index, Execute(index),
         index.version = Seen.version, index.run = Seen.run,
         index.tables = Seen.tables, excused' \subseteq Files,
         \A f \in Seen.files \cup excused :
           Seen.tables => f \in index.files \/ f \in excused',
         UNCHANGED <<exists, disk, serverVars, pc>>,
         answer' \in Answered,
         answer' # [op |-> "directory", success |-> TRUE]
  PROVE  IndexInv' /\ FilesKept
<1>1. Types' /\ StaleOnlyIfInherited' /\ CurrentIsFilled'
  BY DEF IndexInv, Types, Execute, serverVars, Connection, StaleOnlyIfInherited,
         CurrentIsFilled
<1>2. ViewInv'
  BY SeenIndex DEF IndexInv, Types, ViewInv, Execute, serverVars
<1>3. RunInv' /\ IndexedIsOnDisk'
  BY DEF IndexInv, RunInv, IndexedIsOnDisk, Execute
<1>4. FilesKept
  BY DEF FilesKept, OnDisk
<1> QED BY <1>1, <1>2, <1>3, <1>4 DEF IndexInv

LEMMA InitInv == Init => IndexInv
<1> SUFFICES ASSUME Init PROVE IndexInv
  OBVIOUS
<1>1. Types /\ CurrentIsFilled /\ (disk.tables \/ disk.files = {})
  <2>1. CASE exists
    <3>1. PICK v \in {"old", "current"}, S \in SUBSET (Files \ Blacklisted) :
            disk = [tables |-> TRUE, version |-> v, files |-> S, run |-> "complete"]
      BY <2>1 DEF Init
    <3> QED BY <2>1, <3>1, EmptyIndex
            DEF Init, Types, Index, Connection, NoAnswer, Answered, CurrentIsFilled
  <2>2. CASE ~exists
    BY <2>2, EmptyIndex
    DEF Init, Types, Connection, NoAnswer, Answered, CurrentIsFilled
  <2> QED BY <2>1, <2>2
<1>2. StaleOnlyIfInherited /\ ViewInv /\ RunInv
  BY <1>1 DEF Init, StaleOnlyIfInherited, ViewInv, RunInv
<1>3. IndexedIsOnDisk
  BY DEF Init, IndexedIsOnDisk, NoAnswer
<1> QED BY <1>1, <1>2, <1>3 DEF IndexInv

-----------------------------------------------------------------------------
\* One lemma for each operation that changes the index.
LEMMA RunOnSingleFileKeeps ==
  ASSUME IndexInv, NEW f \in Files, RunOnSingleFile(f)
  PROVE  IndexInv' /\ FilesKept
<1> DEFINE deleted == WithFiles(Seen, Seen.files \ {f})
           inserted == WithFiles(deleted, deleted.files \cup {f})
<1>0. pc = "idle" /\ UNCHANGED <<exists, serverVars, pc>>
  BY DEF RunOnSingleFile
<1>1. CASE ~exists \/ f \in Blacklisted
  <2>1. answer' = [op |-> "single", success |-> FALSE]
        /\ UNCHANGED <<disk, conn, view, named, excused>>
    BY <1>1 DEF RunOnSingleFile, Answer
  <2> QED
    BY <1>0, <2>1 DEF IndexInv, Types, CurrentIsFilled, StaleOnlyIfInherited,
       IndexedIsOnDisk, ViewInv, RunInv, Answered, serverVars, FilesKept, OnDisk
<1>2. CASE exists /\ f \notin Blacklisted
  <2>1. /\ Seen \in Index
        /\ deleted \in Index /\ deleted.version = Seen.version
        /\ deleted.run = Seen.run /\ deleted.tables = Seen.tables
        /\ deleted.files = IF Seen.tables THEN Seen.files \ {f} ELSE {}
    <3>1. Seen \in Index
      BY <1>0, <1>2, SeenIndex
    <3>2. Seen.files \ {f} \in SUBSET Files
      BY <3>1 DEF Index
    <3> QED BY <3>1, <3>2, WithFilesIndex
  <2>2. /\ inserted \in Index /\ inserted.version = Seen.version
        /\ inserted.run = Seen.run /\ inserted.tables = Seen.tables
        /\ inserted.files = IF Seen.tables THEN Seen.files \cup {f} ELSE {}
    <3>1. deleted.files \cup {f} \in SUBSET Files
      BY <2>1 DEF Index
    <3>2. /\ inserted \in Index /\ inserted.version = deleted.version
          /\ inserted.run = deleted.run /\ inserted.tables = deleted.tables
          /\ inserted.files = IF deleted.tables THEN deleted.files \cup {f} ELSE {}
      BY <2>1, <3>1, WithFilesIndex
    <3> QED BY <2>1, <3>2
  <2>3. \/ /\ Execute(inserted) /\ Flush
           /\ excused' = excused \ {f} /\ Answer("single", TRUE)
        \/ /\ Execute(deleted) /\ excused' = excused \cup {f}
           /\ Answer("single", FALSE) \/ Raise
           /\ UNCHANGED disk
    BY <1>2 DEF RunOnSingleFile
  <2> HIDE DEF deleted, inserted
  <2>4. CASE /\ Execute(inserted) /\ Flush
             /\ excused' = excused \ {f} /\ Answer("single", TRUE)
    <3>1. answer' = [op |-> "single", success |-> TRUE]
      BY <2>4 DEF Answer
    <3>2. CASE conn = "removed"
      BY <1>0, <1>2, <2>4, <3>1, <3>2
      DEF IndexInv, Types, CurrentIsFilled, StaleOnlyIfInherited, IndexedIsOnDisk,
          ViewInv, RunInv, Answered, serverVars, FilesKept, OnDisk, Execute, Flush
    <3>3. CASE conn # "removed"
      <4>1. conn' = "disk" /\ view' = inserted /\ disk' = inserted /\ named'
        BY <2>4, <3>3 DEF Execute, Flush, IndexInv, Types, Connection
      <4>2. Types'
        BY <1>0, <1>2, <2>2, <2>4, <3>1, <4>1
        DEF IndexInv, Types, serverVars, Connection, Answered
      <4>3. CurrentIsFilled'
        BY <1>0, <1>2, <2>2, <3>3, <4>1, SeenIndex DEF CurrentIsFilled
      <4>4. ViewInv' /\ StaleOnlyIfInherited' /\ IndexedIsOnDisk'
        BY <1>0, <2>2, <3>1, <4>1
        DEF ViewInv, StaleOnlyIfInherited, IndexedIsOnDisk
      <4>5. RunInv'
        BY <1>0, <2>2, <4>1 DEF RunInv
      <4>6. FilesKept
        BY <1>0, <1>2, <2>2, <2>4, <3>3, <4>1, SeenIndex DEF FilesKept, OnDisk, IndexInv, Types
      <4> QED BY <4>2, <4>3, <4>4, <4>5, <4>6 DEF IndexInv
    <3> QED BY <3>2, <3>3
  <2>5. CASE /\ Execute(deleted) /\ excused' = excused \cup {f}
             /\ Answer("single", FALSE) \/ Raise
             /\ UNCHANGED disk
    <3>1. answer' \in Answered /\ answer' # [op |-> "directory", success |-> TRUE]
      BY <2>5, OtherAnswer
    <3>2. excused' \subseteq Files
      BY <2>5 DEF IndexInv, Types
    <3> QED BY <1>0, <1>2, <2>1, <2>5, <3>1, <3>2, ExecuteKeeps
  <2> QED BY <2>3, <2>4, <2>5
<1> QED BY <1>1, <1>2

\* A request that is refused changes the answer only.
LEMMA RefusalKeeps ==
  ASSUME IndexInv, pc = "idle",
         UNCHANGED <<exists, disk, conn, view, named, serverVars, pc, excused>>,
         answer' \in Answered, answer' # [op |-> "directory", success |-> TRUE]
  PROVE  IndexInv' /\ FilesKept
  BY DEF IndexInv, Types, CurrentIsFilled, StaleOnlyIfInherited, IndexedIsOnDisk,
         ViewInv, RunInv, serverVars, FilesKept, OnDisk

LEMMA DropSingleFileKeeps ==
  ASSUME IndexInv, NEW f \in Files, DropSingleFile(f)
  PROVE  IndexInv' /\ FilesKept
<1>0. pc = "idle" /\ UNCHANGED <<exists, disk, serverVars, pc>>
      /\ Answer("drop", exists)
  BY DEF DropSingleFile
<1>1. answer' \in Answered /\ answer' # [op |-> "directory", success |-> TRUE]
  BY <1>0, OtherAnswer DEF IndexInv, Types
<1>2. CASE exists /\ f \notin Blacklisted
  <2>1. Execute(WithFiles(Seen, Seen.files \ {f})) /\ excused' = excused \cup {f}
    BY <1>2 DEF DropSingleFile
  <2>2. Seen \in Index /\ Seen.files \ {f} \in SUBSET Files
    BY <1>0, <1>2, SeenIndex DEF Index
  <2>3. excused' \subseteq Files
    BY <2>1 DEF IndexInv, Types
  <2> HIDE DEF Index
  <2> QED BY <1>0, <1>1, <1>2, <2>1, <2>2, <2>3, WithFilesIndex, ExecuteKeeps
<1>3. CASE ~(exists /\ f \notin Blacklisted)
  <2>1. UNCHANGED <<conn, view, named, excused>>
    BY <1>3 DEF DropSingleFile
  <2> QED BY <1>0, <1>1, <2>1, RefusalKeeps
<1> QED BY <1>2, <1>3

LEMMA DropRowsKeeps ==
  ASSUME IndexInv, DropRows PROVE IndexInv' /\ FilesKept
<1>0. pc = "idle" /\ UNCHANGED <<exists, disk, serverVars, pc>>
      /\ Answer("dropall", exists)
  BY DEF DropRows
<1>1. answer' \in Answered /\ answer' # [op |-> "directory", success |-> TRUE]
  BY <1>0, OtherAnswer DEF IndexInv, Types
<1>2. CASE exists
  <2>1. Execute(WithFiles(Seen, {})) /\ excused' = Files
    BY <1>2 DEF DropRows
  <2>2. Seen \in Index /\ Seen.files \subseteq Files /\ excused \subseteq Files
    BY <1>0, <1>2, SeenIndex DEF Index, IndexInv, Types
  <2> QED BY <1>0, <1>1, <1>2, <2>1, <2>2, WithFilesIndex, ExecuteKeeps
<1>3. CASE ~exists
  <2>1. UNCHANGED <<conn, view, named, excused>>
    BY <1>3 DEF DropRows
  <2> QED BY <1>0, <1>1, <2>1, RefusalKeeps
<1> QED BY <1>2, <1>3

LEMMA QueryKeeps ==
  ASSUME IndexInv, Query PROVE IndexInv' /\ FilesKept
<1>0. pc = "idle" /\ UNCHANGED <<exists, disk, serverVars, pc, excused>>
  BY DEF Query
<1>1. CASE exists /\ Execute(Seen) /\ Answer("query", TRUE)
  <2>1. answer' \in Answered /\ answer' # [op |-> "directory", success |-> TRUE]
    BY <1>1, OtherAnswer
  <2>2. Seen \in Index /\ excused' \subseteq Files
    BY <1>0, <1>1, SeenIndex DEF IndexInv, Types
  <2> QED BY <1>0, <1>1, <2>1, <2>2, ExecuteKeeps
<1>2. CASE Answer("query", FALSE) /\ UNCHANGED <<conn, view, named>>
  BY <1>0, <1>2, OtherAnswer, RefusalKeeps
<1> QED BY <1>1, <1>2 DEF Query

LEMMA GoToDefinitionKeeps ==
  ASSUME IndexInv, NEW f \in Files, GoToDefinition(f)
  PROVE  IndexInv' /\ FilesKept
<1>1. (conn # "none" /\ f \in view.files) \in BOOLEAN
  OBVIOUS
<1>2. answer' \in Answered /\ answer' # [op |-> "directory", success |-> TRUE]
  BY <1>1, OtherAnswer DEF GoToDefinition
<1> QED
  BY <1>2, RefusalKeeps DEF GoToDefinition

\* The index is removed, by a request or because its schema is an old one.
LEMMA RemoveFileKeeps ==
  ASSUME IndexInv, RemoveFile, pc = "idle", pc' \in {"idle", "create"},
         answer' \in Answered, answer' # [op |-> "directory", success |-> TRUE],
         pc' # "idle" => answer' = NoAnswer
  PROVE  IndexInv' /\ FilesKept
<1>1. Types'
  BY EmptyIndex DEF IndexInv, Types, RemoveFile, Connection
<1>2. CurrentIsFilled' /\ StaleOnlyIfInherited' /\ IndexedIsOnDisk' /\ ViewInv'
      /\ RunInv' /\ FilesKept
  BY EmptyIndex DEF RemoveFile, CurrentIsFilled, StaleOnlyIfInherited,
     IndexedIsOnDisk, ViewInv, RunInv, FilesKept, OnDisk
<1> QED BY <1>1, <1>2 DEF IndexInv

LEMMA DropFromDiskKeeps ==
  ASSUME IndexInv, DropFromDisk PROVE IndexInv' /\ FilesKept
<1>0. pc = "idle" /\ pc' = pc
  BY DEF DropFromDisk
<1>1. CASE exists /\ named
  <2>1. RemoveFile /\ Answer("dropall", TRUE)
    BY <1>1 DEF DropFromDisk
  <2> QED BY <1>0, <2>1, OtherAnswer, RemoveFileKeeps
<1>2. CASE ~(exists /\ named)
  <2>1. UNCHANGED <<exists, disk, conn, view, named, serverVars, excused>>
        /\ (Raise \/ Answer("dropall", FALSE))
    BY <1>2 DEF DropFromDisk
  <2> QED BY <1>0, <2>1, OtherAnswer, RefusalKeeps
<1> QED BY <1>1, <1>2

-----------------------------------------------------------------------------
\* The steps of an indexing run.
LEMMA AlreadyThereKeeps ==
  ASSUME IndexInv, AlreadyThere PROVE IndexInv' /\ FilesKept
<1>0. pc = "idle" /\ exists /\ Execute(Seen)
      /\ UNCHANGED <<exists, disk, serverVars, pc, excused>>
  BY DEF AlreadyThere
<1>1. Seen \in Index /\ excused' \subseteq Files
  BY <1>0, SeenIndex DEF IndexInv, Types
<1>2. CASE Seen.version # "current"
  <2>1. Raise
    BY <1>2 DEF AlreadyThere
  <2> QED BY <1>0, <1>1, <2>1, OtherAnswer, ExecuteKeeps
<1>3. CASE Seen.version = "current"
  <2>1. answer' = [op |-> "directory", success |-> TRUE]
    BY <1>3 DEF AlreadyThere, Answer
  <2>2. Types' /\ StaleOnlyIfInherited' /\ CurrentIsFilled'
    BY <1>0, <1>1, <2>1
    DEF IndexInv, Types, Execute, serverVars, Connection, StaleOnlyIfInherited,
        CurrentIsFilled, Answered
  <2>3. ViewInv' /\ RunInv'
    BY <1>0, SeenIndex DEF IndexInv, Types, ViewInv, RunInv, Execute, serverVars
  <2>4. IndexedIsOnDisk'
    <3>1. SUFFICES ASSUME conn' # "removed", view'.run # "raised"
                   PROVE  disk.version = "current" /\ disk.run = "complete"
      BY <1>0 DEF IndexedIsOnDisk
    <3>2. conn # "removed" /\ view' = Seen
      BY <1>0, <3>1 DEF Execute
    <3> QED BY <1>0, <1>3, <3>1, <3>2, SeenIndex
  <2>5. FilesKept
    BY <1>0 DEF FilesKept, OnDisk
  <2> QED BY <2>2, <2>3, <2>4, <2>5 DEF IndexInv
<1> QED BY <1>2, <1>3

LEMMA SchemaChangedKeeps ==
  ASSUME IndexInv, SchemaChanged PROVE IndexInv' /\ FilesKept
<1>1. answer' \in Answered /\ answer' # [op |-> "directory", success |-> TRUE]
  BY OtherAnswer DEF SchemaChanged, Raise
<1> QED BY <1>1, RemoveFileKeeps DEF SchemaChanged

LEMMA NotThereKeeps ==
  ASSUME IndexInv, NotThere PROVE IndexInv' /\ FilesKept
<1>1. answer' \in Answered /\ answer' # [op |-> "directory", success |-> TRUE]
  BY OtherAnswer DEF NotThere, Raise
<1> QED
  BY <1>1 DEF NotThere, IndexInv, Types, CurrentIsFilled, StaleOnlyIfInherited,
     IndexedIsOnDisk, ViewInv, RunInv, serverVars, FilesKept, OnDisk

\* During a run nothing has been answered.
LEMMA NothingAnswered ==
  ASSUME IndexInv, pc # "idle"
  PROVE  answer = NoAnswer /\ answer # [op |-> "directory", success |-> TRUE]
<1>1. answer = NoAnswer
  BY DEF IndexInv, RunInv
<1>2. answer.op = "none"
  BY <1>1 DEF NoAnswer
<1> QED BY <1>1, <1>2

LEMMA CreateKeeps ==
  ASSUME IndexInv, Create PROVE IndexInv' /\ FilesKept
<1>0. pc = "create" /\ pc' = "tables" /\ ~exists /\ disk = EmptyFile
      /\ UNCHANGED <<disk, serverVars, answer, excused>>
  BY DEF Create, IndexInv, RunInv, Types
<1>1. IndexedIsOnDisk' /\ FilesKept /\ CurrentIsFilled'
  BY <1>0, NothingAnswered, EmptyIndex
  DEF IndexedIsOnDisk, FilesKept, OnDisk, CurrentIsFilled
<1>2. Types' /\ StaleOnlyIfInherited' /\ ViewInv' /\ RunInv'
  BY <1>0, EmptyIndex, NothingAnswered
  DEF Create, IndexInv, Types, StaleOnlyIfInherited, ViewInv, RunInv, serverVars,
      Connection
<1> QED BY <1>1, <1>2 DEF IndexInv

LEMMA CreateDataModelKeeps ==
  ASSUME IndexInv, CreateDataModel PROVE IndexInv' /\ FilesKept
<1> DEFINE created == Current(view, {}, "none")
           tables == [tables |-> TRUE, version |-> "none", files |-> {}, run |-> "none"]
<1>0. /\ pc = "tables" /\ pc' = "indexing"
      /\ conn' = conn /\ conn # "none" /\ named'
      /\ view' = IF conn = "removed" THEN view ELSE created
      /\ disk' = IF conn = "disk" THEN tables ELSE disk
      /\ UNCHANGED <<exists, serverVars, answer, excused>>
  BY DEF CreateDataModel, Execute, IndexInv, RunInv
<1>1. created \in Index /\ created.tables /\ created.files = {}
  BY CurrentIndex
<1>2. tables \in Index /\ tables.files = {} /\ tables.version = "none"
      /\ tables.tables
  BY DEF Index
<1> HIDE DEF created, tables
<1>3. Types'
  BY <1>0, <1>1, <1>2, EmptyIndex DEF IndexInv, Types, serverVars
<1>4. CurrentIsFilled' /\ StaleOnlyIfInherited' /\ IndexedIsOnDisk'
  BY <1>0, <1>2, NothingAnswered
  DEF IndexInv, CurrentIsFilled, StaleOnlyIfInherited, IndexedIsOnDisk, serverVars
<1>5. ViewInv' /\ RunInv'
  BY <1>0, <1>1, <1>2, NothingAnswered DEF IndexInv, ViewInv, RunInv
<1>6. FilesKept
  BY <1>0 DEF IndexInv, RunInv, FilesKept, OnDisk
<1> QED BY <1>3, <1>4, <1>5, <1>6 DEF IndexInv

LEMMA MergeKeeps ==
  ASSUME IndexInv, NEW S \in SUBSET (Files \ Blacklisted), Merge(S)
  PROVE  IndexInv' /\ FilesKept
<1> DEFINE merged == Current(view, S, "complete")
<1>0. /\ pc = "indexing" /\ pc' = "idle"
      /\ conn' = conn /\ conn # "none" /\ named'
      /\ view' = IF conn = "removed" THEN view ELSE merged
      /\ disk' = IF conn = "disk" THEN view' ELSE disk
      /\ excused' = {} /\ answer' = [op |-> "directory", success |-> TRUE]
      /\ UNCHANGED <<exists, serverVars>>
  BY DEF Merge, Execute, Flush, Answer, IndexInv, RunInv
<1>1. merged \in Index /\ merged.tables /\ merged.version = "current"
      /\ merged.run = "complete"
  BY CurrentIndex
<1> HIDE DEF merged
<1>2. Types'
  BY <1>0, <1>1 DEF IndexInv, Types, serverVars, Answered
<1>3. CurrentIsFilled' /\ StaleOnlyIfInherited' /\ ViewInv' /\ RunInv'
  BY <1>0, <1>1
  DEF IndexInv, Types, CurrentIsFilled, StaleOnlyIfInherited, ViewInv, RunInv,
      serverVars
<1>4. IndexedIsOnDisk'
  BY <1>0, <1>1 DEF IndexInv, Types, IndexedIsOnDisk, Connection
<1>5. FilesKept
  BY <1>0 DEF IndexInv, RunInv, FilesKept, OnDisk
<1> QED BY <1>2, <1>3, <1>4, <1>5 DEF IndexInv

LEMMA RunRaisesKeeps ==
  ASSUME IndexInv, RunRaises PROVE IndexInv' /\ FilesKept
<1> DEFINE raised == Current(view, view.files, "raised")
<1>0. /\ pc = "indexing" /\ pc' = "idle"
      /\ conn' = conn /\ conn # "none" /\ named'
      /\ view' = IF conn = "removed" THEN view ELSE raised
      /\ answer' = NoAnswer
      /\ UNCHANGED <<exists, disk, serverVars, excused>>
  BY DEF RunRaises, Execute, Raise, IndexInv, RunInv
<1>1. raised \in Index /\ raised.tables /\ raised.run = "raised"
  <2>1. view.files \in SUBSET Files
    BY DEF IndexInv, Types, Index
  <2> QED BY <2>1, CurrentIndex
<1> HIDE DEF raised
<1>2. answer' \in Answered /\ answer' # [op |-> "directory", success |-> TRUE]
  BY <1>0, OtherAnswer DEF Raise
<1>3. Types' /\ CurrentIsFilled' /\ StaleOnlyIfInherited' /\ IndexedIsOnDisk'
  BY <1>0, <1>1, <1>2
  DEF IndexInv, Types, CurrentIsFilled, StaleOnlyIfInherited, IndexedIsOnDisk,
      serverVars
<1>4. ViewInv' /\ RunInv' /\ FilesKept
  BY <1>0, <1>1 DEF IndexInv, ViewInv, RunInv, FilesKept, OnDisk
<1> QED BY <1>3, <1>4 DEF IndexInv

-----------------------------------------------------------------------------
\* The listener and the server come and go.
LEMMA ProcessesKeep ==
  ASSUME IndexInv, End \/ Fork \/ RestartServer PROVE IndexInv' /\ FilesKept
<1>1. CASE End
  <2>1. answer' \in Answered /\ answer' # [op |-> "directory", success |-> TRUE]
    BY <1>1, OtherAnswer DEF End, Raise
  <2> QED
    BY <1>1, <2>1, EmptyIndex
    DEF End, IndexInv, Types, CurrentIsFilled, StaleOnlyIfInherited, IndexedIsOnDisk,
        ViewInv, RunInv, serverVars, FilesKept, OnDisk, Connection
<1>2. CASE Fork
  <2>1. answer' = answer /\ answer # [op |-> "directory", success |-> TRUE]
    BY <1>2, NothingAnswered DEF Fork
  <2> QED
    BY <1>2, <2>1, EmptyIndex
    DEF Fork, IndexInv, Types, CurrentIsFilled, StaleOnlyIfInherited,
        IndexedIsOnDisk, ViewInv, RunInv, serverVars, FilesKept, OnDisk, Connection
<1>3. CASE RestartServer
  <2>1. conn' = "none" /\ conn = "none"
    BY <1>3 DEF RestartServer, IndexInv, RunInv
  <2>2. answer' = answer /\ answer # [op |-> "directory", success |-> TRUE]
    BY <1>3, NothingAnswered DEF RestartServer
  <2> QED
    BY <1>3, <2>1, <2>2, EmptyIndex
    DEF RestartServer, IndexInv, Types, CurrentIsFilled, StaleOnlyIfInherited,
        IndexedIsOnDisk, ViewInv, RunInv, FilesKept, OnDisk, Connection
<1> QED BY <1>1, <1>2, <1>3

LEMMA StepKeeps == IndexInv /\ [Next]_vars => IndexInv' /\ (FilesKept \/ UNCHANGED vars)
<1> SUFFICES ASSUME IndexInv, [Next]_vars
             PROVE  IndexInv' /\ (FilesKept \/ UNCHANGED vars)
  OBVIOUS
<1>1. CASE RunOnDirectory
  BY <1>1, AlreadyThereKeeps, SchemaChangedKeeps, NotThereKeeps, CreateKeeps,
     CreateDataModelKeeps, MergeKeeps, RunRaisesKeeps DEF RunOnDirectory
<1>2. ASSUME NEW f \in Files, RunOnSingleFile(f) \/ DropSingleFile(f) \/ GoToDefinition(f)
      PROVE  IndexInv' /\ FilesKept
  BY <1>2, RunOnSingleFileKeeps, DropSingleFileKeeps, GoToDefinitionKeeps
<1>3. CASE DropRows \/ DropFromDisk \/ Query
  BY <1>3, DropRowsKeeps, DropFromDiskKeeps, QueryKeeps
<1>4. CASE End \/ Fork \/ RestartServer
  BY <1>4, ProcessesKeep
<1>5. CASE UNCHANGED vars
  BY <1>5
  DEF vars, IndexInv, Types, CurrentIsFilled, StaleOnlyIfInherited, IndexedIsOnDisk,
      ViewInv, RunInv
<1> QED BY <1>1, <1>2, <1>3, <1>4, <1>5 DEF Next

\* The inductive invariant, of which the properties are parts.
THEOREM IndexInvariant == Spec => []IndexInv
<1>1. IndexInv /\ [Next]_vars => IndexInv'
  BY StepKeeps
<1> QED BY InitInv, <1>1, PTL DEF Spec

\* Types, and that a connection is to a file there is, in __run_on_directory and
\* everywhere else, unless it was inherited: __drop_all leaves no connection of its own to
\* the file it removes.
THEOREM TypeCorrect == Spec => []TypeOK
<1>1. IndexInv => TypeOK
  BY DEF IndexInv, TypeOK
<1> QED BY <1>1, IndexInvariant, PTL

\* A crash at any point of an indexing run leaves no database that the next run
\* takes for an index.
THEOREM CurrentIndexIsFilled == Spec => []CurrentIsFilled
<1>1. IndexInv => CurrentIsFilled
  BY DEF IndexInv
<1> QED BY <1>1, IndexInvariant, PTL

\* The success of __run_on_directory means an index on disk.
THEOREM SuccessIsOnDisk == Spec => []IndexedIsOnDisk
<1>1. IndexInv => IndexedIsOnDisk
  BY DEF IndexInv
<1> QED BY <1>1, IndexInvariant, PTL

\* Transactions that are committed late, or rolled back, lose no file that nobody
\* dropped or failed to index.
THEOREM FilesLeaveExcused == Spec => LeavesOnlyIfExcused
<1>1. IndexInv /\ [Next]_vars =>
        [\A f \in Files : OnDisk(f) /\ ~OnDisk(f)' => f \in excused']_vars
  BY StepKeeps DEF FilesKept
<1> QED BY <1>1, IndexInvariant, PTL DEF Spec, LeavesOnlyIfExcused

\* A definition in a file that the index on disk has is found, unless a request dropped
\* the file or failed to index it.
THEOREM DefinitionsFound == Spec => DefinitionFound
<1> DEFINE Found(f) ==
      /\ GoToDefinition(f)
      /\ exists /\ f \in disk.files \ excused
      /\ conn = "disk"
      => answer' # [op |-> "definition", success |-> FALSE]
<1>1. ASSUME IndexInv, NEW f \in Files PROVE Found(f)
  <2> SUFFICES ASSUME GoToDefinition(f), f \in disk.files \ excused,
                      conn = "disk"
               PROVE  answer' # [op |-> "definition", success |-> FALSE]
    OBVIOUS
  <2>1. f \in view.files
    BY <1>1 DEF IndexInv, ViewInv
  <2>2. CASE Raise
    <3>1. answer'.op = "none"
      BY <2>2 DEF Raise, NoAnswer
    <3> QED
      BY <3>1
  <2>3. CASE Answer("definition", TRUE)
    <3>1. answer'.success = TRUE
      BY <2>3 DEF Answer
    <3> QED
      BY <3>1
  <2> QED
    BY <2>1, <2>2, <2>3 DEF GoToDefinition
<1>2. IndexInv => [\A f \in Files : Found(f)]_vars
  BY <1>1
<1> QED
  BY <1>2, IndexInvariant, PTL DEF DefinitionFound
=============================================================================
