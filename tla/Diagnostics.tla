------------------------------ MODULE Diagnostics ------------------------------
(***************************************************************************)
(* The diagnostics in the symbol database (symbol_database.py, and         *)
(* store_tunit_diagnostics and the merge of clang_indexer.py).             *)
(*                                                                         *)
(* A diagnostic has a row with an id; the notes that explain it are rows   *)
(* of another table, which refer to it by that id.  sqlite gives a new row *)
(* the id after the greatest there is, does not enforce the reference, and *)
(* the details of a deleted diagnostic stay.  When a directory is indexed, *)
(* each worker has tables of its own, which are copied into the index.     *)
(***************************************************************************)
EXTENDS Naturals, FiniteSets, Functions

CONSTANTS
  TUnit,    \* translation units, whose own diagnostics no other file reports
  Header,   \* headers: units that include them report about them too
  Diag,     \* diagnostics, told apart by place and description
  Note,     \* the notes of diagnostics, told apart in the same way
  FileOf,   \* FileOf[d]: the file d is about
  Notes,    \* Notes[d]: its notes
  Workers,  \* number of workers of a directory run
  MaxEdits, \* bound on the number of edits to files
  MaxCalls  \* bound on the number of requests that change an index, for ids grow

ASSUME FilesAssumption == TUnit \cap Header = {}
ASSUME DiagAssumption ==
  IsFiniteSet(Diag) /\ FileOf \in [Diag -> TUnit \cup Header] /\ Notes \in [Diag -> SUBSET Note]
ASSUME WorkersAssumption == Workers \in Nat \ {0}
ASSUME BoundsAssumption == MaxEdits \in Nat /\ MaxCalls \in Nat

File == TUnit \cup Header
Worker == 1..Workers

\* The two tables. A row that is not there has the id 0.
Tables == [id : [Diag -> Nat], owner : [Note -> Nat]]
Empty == [id |-> [d \in Diag |-> 0], owner |-> [n \in Note |-> 0]]

\* What libclang may report when it parses f.
About(f) ==
  {d \in Diag : FileOf[d] = f \/ (f \in TUnit /\ FileOf[d] \in Header)}

VARIABLES
  reported, \* reported[f]: what libclang reports for f as it is now
  edits,    \* number of edits so far
  calls,    \* number of requests that changed an index
  exists,   \* whether there is an index
  index,    \* its tables
  running,  \* whether a directory run is under way
  pending,  \* files no worker has been given
  part,     \* part[w]: the tables of worker w
  merged,   \* the number of workers whose tables have been copied into the index
  indexed,  \* history. indexed[f]: what was reported when f was last indexed, {} if
            \* it is not, and a set with that one report if it is
  freed,    \* history. the ids of diagnostics that have been deleted from this index
  mixed     \* history. whether several workers found the diagnostics in it

vars == <<reported, edits, calls, exists, index, running, pending, part,
          merged, indexed, freed, mixed>>

Rows(tables) == {d \in Diag : tables.id[d] # 0}

\* An id is that of one diagnostic.
Distinct(tables) ==
  \A c, d \in Rows(tables) : tables.id[c] = tables.id[d] => c = d

\* The type invariant, with the primary keys of the tables.
TypeOK ==
  /\ reported \in [File -> SUBSET Diag]
  /\ \A f \in File : reported[f] \subseteq About(f)
  /\ edits \in 0..MaxEdits /\ calls \in 0..MaxCalls
  /\ exists \in BOOLEAN /\ running \in BOOLEAN
  /\ freed \subseteq Nat /\ mixed \in BOOLEAN
  /\ pending \subseteq File /\ merged \in 0..Workers
  /\ index \in Tables /\ part \in [Worker -> Tables]
  /\ indexed \in [File -> SUBSET SUBSET Diag]
  /\ \A f \in File : \A diags \in indexed[f] :
       diags \subseteq About(f) /\ indexed[f] = {diags}
  /\ Distinct(index) /\ \A w \in Worker : Distinct(part[w])

Init ==
  /\ reported \in [File -> SUBSET Diag]
  /\ \A f \in File : reported[f] \subseteq About(f)
  /\ edits = 0 /\ calls = 0
  /\ exists = FALSE /\ index = Empty
  /\ running = FALSE /\ pending = {}
  /\ part = [w \in Worker |-> Empty] /\ merged = 0
  /\ indexed = [f \in File |-> {}]
  /\ freed = {} /\ mixed = FALSE

-----------------------------------------------------------------------------
(* SymbolDatabase *)

\* The greatest id. A new row gets the next: ids of deleted rows at the end are used
\* again.
LastId(tables) ==
  CHOOSE m \in {0} \cup {tables.id[d] : d \in Diag} : \A d \in Diag : tables.id[d] <= m

\* Mutant of InsertDiagnostics: the ids follow the number of rows, as for a table from
\* which nothing is ever deleted.
InsertDiagnosticsCounts(tables, place) ==
  [tables EXCEPT !.id =
     [d \in Diag |-> IF d \in DOMAIN place THEN Cardinality(Rows(tables)) + place[d]
                     ELSE tables.id[d]]]

\* insert_diagnostics_entry, of all d in the domain of place, none of which is there, in
\* the order of place[d]. One that is there already is passed over and uses up no id.
InsertDiagnostics(tables, place) ==
  [tables EXCEPT !.id =
     [d \in Diag |-> IF d \in DOMAIN place THEN LastId(tables) + place[d]
                     ELSE tables.id[d]]]

\* insert_diagnostics_details_entry, of all n whose owner is not 0. A note that is there
\* already is passed over as well, also if it is another diagnostic's.
InsertNotes(tables, owner) ==
  [tables EXCEPT !.owner =
     [n \in Note |-> IF tables.owner[n] = 0 THEN owner[n] ELSE tables.owner[n]]]

\* delete_entry: the details stay.
Delete(tables, f) ==
  [tables EXCEPT !.id = [d \in Diag |-> IF FileOf[d] = f THEN 0 ELSE tables.id[d]]]

DeleteAll(tables) == [tables EXCEPT !.id = [d \in Diag |-> 0]]

\* The orders in which new diagnostics may come.
Orders(diags) == Bijection(diags, 1..Cardinality(diags))

\* store_tunit_diagnostics, of new diagnostics in the order of their places: a note goes
\* with the id of the first of them that has it.
Store(tables, place) ==
  LET inserted == InsertDiagnostics(tables, place)
      Having(n) == {d \in DOMAIN place : n \in Notes[d]}
      First(n) == CHOOSE d \in Having(n) : \A c \in Having(n) : place[d] <= place[c]
  IN  InsertNotes(inserted,
        [n \in Note |-> IF Having(n) = {} THEN 0 ELSE inserted.id[First(n)]])

\* What may come of storing diags: libclang reports in any order. The notes of one that
\* is there already are not looked at, for it gets no id.
Stored(tables, diags) ==
  {Store(tables, place) : place \in Orders(diags \ Rows(tables))}

\* Mutant of RowOrder: the rows are sorted, the last first.
RowOrderDescending(tables, diags) ==
  [d \in diags |-> Cardinality({c \in diags : tables.id[c] >= tables.id[d]})]

\* fetch_all_diagnostics, BY_NONE: the places of diags in the order of their rows.
RowOrder(tables, diags) ==
  [d \in diags |-> Cardinality({c \in diags : tables.id[c] <= tables.id[d]})]

\* Mutant of Copy: the diagnostics of headers are left to the indexing of headers.
CopyOwn(into, from) ==
  LET own == {d \in Rows(from) : FileOf[d] \in TUnit}
  IN  InsertNotes(InsertDiagnostics(into, RowOrder(from, own \ Rows(into))), from.owner)

\* copy_all_entries_from, for one database: diagnostics get new ids, in the order of
\* their rows; their details keep the old ones.
Copy(into, from) ==
  InsertNotes(InsertDiagnostics(into, RowOrder(from, Rows(from) \ Rows(into))), from.owner)

-----------------------------------------------------------------------------
(* ClangIndexer *)

\* The user changes a file, and with it what is reported for any.
Edit(f) ==
  /\ edits < MaxEdits
  /\ edits' = edits + 1
  /\ \E diags \in SUBSET About(f) : reported' = [reported EXCEPT ![f] = diags]
  /\ UNCHANGED <<calls, exists, index, running, pending, part, merged, indexed,
                 freed, mixed>>

\* run_on_directory, where there is no index.
Start ==
  /\ ~running /\ ~exists
  /\ running' = TRUE /\ exists' = TRUE
  /\ pending' = File
  /\ part' = [w \in Worker |-> Empty] /\ merged' = 0
  /\ index' = Empty /\ freed' = {} /\ mixed' = FALSE
  /\ indexed' = [f \in File |-> {}]
  /\ UNCHANGED <<reported, edits, calls>>

\* A worker takes a file and stores what is reported; or it cannot parse it, or dies.
WorkOn(w, f) ==
  /\ running /\ f \in pending
  /\ pending' = pending \ {f}
  /\ \/ UNCHANGED <<part, indexed>>
     \/ \E stored \in Stored(part[w], reported[f]) :
          /\ part' = [part EXCEPT ![w] = stored]
          /\ indexed' = [indexed EXCEPT ![f] = {reported[f]}]
  /\ UNCHANGED <<reported, edits, calls, exists, index, running, merged, freed, mixed>>

\* copy_all_entries_from: the tables of one worker after the other's.
Merge(w) ==
  /\ running /\ pending = {}
  /\ w = merged + 1
  /\ merged' = w
  /\ index' = Copy(index, part[w])
  /\ UNCHANGED <<reported, edits, calls, exists, running, pending, part, indexed,
                 freed, mixed>>

\* When all are merged they are removed, and the run is over.
Remove ==
  /\ running /\ pending = {} /\ merged = Workers
  /\ running' = FALSE
  /\ mixed' = (\E v, w \in Worker : v # w /\ part[v] # Empty /\ part[w] # Empty)
  /\ part' = [w \in Worker |-> Empty] /\ merged' = 0
  /\ UNCHANGED <<reported, edits, calls, exists, index, pending, indexed, freed>>

Serving == ~running /\ exists

\* The service takes a request that changes the index.
Call == Serving /\ calls < MaxCalls /\ calls' = calls + 1

\* It deletes diags from the index.
Free(diags) == freed' = freed \cup {index.id[d] : d \in diags}

\* Mutant of RunOnSingleFile: what is in the index is added to.
RunOnSingleFileAdds(f) ==
  /\ Call
  /\ index' \in Stored(index, reported[f])
  /\ indexed' = [indexed EXCEPT ![f] = {reported[f]}]
  /\ UNCHANGED <<reported, edits, exists, running, pending, part, merged, freed, mixed>>

\* The entries of a file are deleted, and replaced if it can be parsed.
RunOnSingleFile(f) ==
  /\ Call
  /\ Free({d \in Rows(index) : FileOf[d] = f})
  /\ \/ /\ index' = Delete(index, f)
        /\ indexed' = [indexed EXCEPT ![f] = {}]
     \/ /\ index' \in Stored(Delete(index, f), reported[f])
        /\ indexed' = [indexed EXCEPT ![f] = {reported[f]}]
  /\ UNCHANGED <<reported, edits, exists, running, pending, part, merged, mixed>>

DropSingleFile(f) ==
  /\ Call
  /\ index' = Delete(index, f)
  /\ Free({d \in Rows(index) : FileOf[d] = f})
  /\ indexed' = [indexed EXCEPT ![f] = {}]
  /\ UNCHANGED <<reported, edits, exists, running, pending, part, merged, mixed>>

\* drop_all: the rows of one of the tables, or the file.
DropAll(delete_file_from_disk) ==
  /\ Call
  /\ exists' = ~delete_file_from_disk
  /\ index' = IF delete_file_from_disk THEN Empty ELSE DeleteAll(index)
  /\ Free(Rows(index))
  /\ indexed' = [f \in File |-> {}]
  /\ UNCHANGED <<reported, edits, running, pending, part, merged, mixed>>

Next ==
  \/ Start \/ Remove
  \/ \E f \in File : Edit(f) \/ RunOnSingleFile(f) \/ DropSingleFile(f)
  \/ \E w \in Worker : Merge(w) \/ \E f \in File : WorkOn(w, f)
  \/ \E delete_file_from_disk \in BOOLEAN : DropAll(delete_file_from_disk)

Spec == Init /\ [][Next]_vars

-----------------------------------------------------------------------------
\* fetch_all_diagnostics: the details that are listed under d.
Listed(d) == {n \in Note : index.owner[n] = index.id[d]}

\* Whatever has been merged, indexed again and dropped, also of other files: what the
\* index lists about a translation unit that is indexed is what was reported of it
\* then.
OwnDiagnosticsCurrent ==
  Serving =>
    \A f \in TUnit : \A diags \in indexed[f] :
      {d \in Rows(index) : FileOf[d] = f} = {d \in diags : FileOf[d] = f}

\* Every detail refers to a diagnostic, although the copies have other ids, or it has
\* been left by one that was deleted: FOREIGN KEY(diagnostics_id) REFERENCES
\* diagnostics(id) ON DELETE CASCADE, which sqlite does not enforce.
DetailsRefer ==
  Serving =>
    \A n \in Note : index.owner[n] \notin {0} \cup freed =>
      \E d \in Rows(index) : index.id[d] = index.owner[n]

\* The details that are listed under a diagnostic are its own, if only one worker has
\* found any: also after deletions, if its id has not been given a second time.
DetailsAttributed ==
  Serving /\ ~mixed =>
    \A d \in Rows(index) : index.id[d] \notin freed => Listed(d) \subseteq Notes[d]
=============================================================================
