------------------------------ MODULE TUnitCache ------------------------------
(***************************************************************************)
(* The translation units a service keeps (tunit_cache.py, and parse,       *)
(* code_complete and code_complete_cache_warmup of clang_parser.py), while *)
(* an editor writes the files they are made from.                          *)
(*                                                                         *)
(* A request names a file and where its contents are: in the file itself,  *)
(* or, when it has been edited and not saved, in a temporary file.  The    *)
(* cache has one unit per file, whatever contents it was parsed from, with *)
(* the mtime that is to tell whether it is still up to date.               *)
(***************************************************************************)
EXTENDS Naturals, Sequences
LOCAL INSTANCE SequencesExt

CONSTANTS
  Files,     \* names of source files
  Capacity,  \* FifoCache.max_capacity
  Services,  \* the services considered: source_code_model, code_completion
  MaxWrites  \* bound on the number of times the editor writes a file

ASSUME CapacityAssumption == Capacity \in Nat \ {0}
ASSUME ServicesAssumption ==
  Services \subseteq {"source_code_model", "code_completion"}
ASSUME WritesAssumption == MaxWrites \in Nat

Contents == {"saved", "edited"}
Ops == {"parse", "complete", "warmup"}

\* Every service process has a parser, and a cache, of its own.
OpsOf(service) ==
  IF service = "source_code_model" THEN {"parse"} ELSE {"complete", "warmup"}

\* What a unit was parsed from: the contents, as of their nth write.
Source == [contents : Contents, version : Nat]
Entry == [source : Source, mtime : Nat, reparsed : BOOLEAN]
NoEntry == [source |-> [contents |-> "saved", version |-> 0],
            mtime |-> 0, reparsed |-> FALSE]
NoCall == [op |-> "none"]

VARIABLES
  version, \* version[f][c]: number of the last write to c of f; 0: no such file
  writes,  \* number of writes so far
  service, \* the service whose cache this is
  store,   \* store[f]: the cached unit of f, or NoEntry
  order,   \* the files in the cache, the oldest entry first
  pc,      \* where the request stands
  call,    \* the request: op, file, contents; seen: their version when it came
  tunit    \* the unit in hand, before it is cached or returned

vars == <<version, writes, service, store, order, pc, call, tunit>>
files == <<version, writes>>
cache == <<store, order>>

Call == [op : Ops, file : Files, contents : Contents, seen : Nat]

\* The type invariant, with what keeps the cache one: no file is in it twice, and
\* never more than Capacity are.
TypeOK ==
  /\ version \in [Files -> [Contents -> Nat]]
  /\ writes \in Nat
  /\ service \in Services
  /\ store \in [Files -> Entry]
  /\ order \in Seq(Files) /\ Len(order) <= Capacity
  /\ \A i, j \in DOMAIN order : order[i] = order[j] => i = j
  /\ {order[i] : i \in DOMAIN order} = {f \in Files : store[f] # NoEntry}
  /\ pc \in {"idle", "parse", "insert", "stat", "reparse", "complete", "answered"}
  /\ call \in Call \cup {NoCall}
  /\ tunit \in Entry

\* Files exist on disk, or are new in the editor; nothing is being edited yet.
Init ==
  /\ \E new \in SUBSET Files :
       version = [f \in Files |-> [c \in Contents |->
                   IF c = "saved" /\ f \notin new THEN 1 ELSE 0]]
  /\ writes = 1
  /\ service \in Services
  /\ store = [f \in Files |-> NoEntry] /\ order = <<>>
  /\ pc = "idle" /\ call = NoCall /\ tunit = NoEntry

-----------------------------------------------------------------------------
\* The editor saves a file, or puts what has been typed into the temporary one.
\* Every write has an mtime of its own.
Write(f, c) ==
  /\ writes < MaxWrites
  /\ writes' = writes + 1
  /\ version' = [version EXCEPT ![f][c] = writes']
  /\ UNCHANGED <<service, cache, pc, call, tunit>>

-----------------------------------------------------------------------------
(* FifoCache *)

Without(f) ==
  IF \E i \in DOMAIN order : order[i] = f
    THEN RemoveAt(order, CHOOSE i \in DOMAIN order : order[i] = f) ELSE order

\* Mutant of Put: the capacity is checked off by one.
PutOffByOne(f, entry) ==
  LET evicted == {g \in Files : /\ Len(Without(f)) > Capacity
                                /\ g = Head(Without(f))}
  IN  /\ store' = [g \in Files |-> IF g = f THEN entry
                                   ELSE IF g \in evicted THEN NoEntry ELSE store[g]]
      /\ order' = Append(IF evicted = {} THEN Without(f) ELSE Tail(Without(f)), f)

\* Mutant of Put: the capacity is looked at before the old entry is taken out.
PutEvictsFirst(f, entry) ==
  LET evicted == {g \in Files : Len(order) = Capacity /\ g = Head(order)}
      left == [g \in Files |-> IF g \in evicted THEN NoEntry ELSE store[g]]
      rest == IF evicted = {} THEN order ELSE Tail(order)
  IN  /\ store' = [left EXCEPT ![f] = entry]
      /\ order' = Append(SelectSeq(rest, LAMBDA g : g # f), f)

\* __setitem__: the file's entry becomes the youngest; a file that is new to a
\* full cache takes the place of the oldest.
Put(f, entry) ==
  LET evicted == {g \in Files : /\ Len(Without(f)) = Capacity
                                /\ g = Head(Without(f))}
  IN  /\ store' = [g \in Files |-> IF g = f THEN entry
                                   ELSE IF g \in evicted THEN NoEntry ELSE store[g]]
      /\ order' = Append(IF evicted = {} THEN Without(f) ELSE Tail(Without(f)), f)

-----------------------------------------------------------------------------
(* ClangParser *)

mtime(f, c) == version[f][c]

Stamped(unit, stamp) ==
  [source |-> unit.source, mtime |-> stamp, reparsed |-> unit.reparsed]

\* The unit libclang makes of the contents as they are now.
Parsed(f, c, stamp, again) ==
  [source |-> [contents |-> c, version |-> version[f][c]],
   mtime |-> stamp, reparsed |-> again]

Answer(unit) ==
  /\ pc' = "answered"
  /\ tunit' = unit
  /\ UNCHANGED <<files, service, call>>

\* There is no unit to answer with: None is returned, or an exception reaches the
\* service's process_request.
GiveUp ==
  /\ pc' = "idle" /\ call' = NoCall /\ tunit' = NoEntry
  /\ UNCHANGED <<files, service, cache>>

\* A request arrives and the cache is looked up. Contents that a frontend names
\* exist. The warm-up has nothing to do when it finds a unit, and reads the file.
Request(op, f, c) ==
  /\ pc = "idle" /\ op \in OpsOf(service)
  /\ version[f][c] # 0
  /\ op = "warmup" => c = "saved" /\ store[f] = NoEntry
  /\ call' = [op |-> op, file |-> f, contents |-> c, seen |-> version[f][c]]
  /\ pc' = IF store[f] = NoEntry THEN "parse"
           ELSE IF op = "parse" THEN "stat" ELSE "complete"
  /\ tunit' = store[f]
  /\ UNCHANGED <<files, service, cache>>

\* A miss: libclang parses the contents, or fails; without a unit parse and the
\* warm-up return None, and code_complete raises.
ParseMissing ==
  /\ pc = "parse"
  /\ \/ /\ tunit' = Parsed(call.file, call.contents, 0, FALSE)
        /\ pc' = "insert"
        /\ UNCHANGED <<files, service, cache, call>>
     \/ GiveUp

\* The new unit is cached with the mtime the original file has by now, and there
\* may be none.
Insert ==
  /\ pc = "insert"
  /\ LET stamp == mtime(call.file, "saved")
         entry == Stamped(tunit, stamp)
     IN  \/ stamp = 0 /\ GiveUp
         \/ /\ stamp # 0
            /\ Put(call.file, entry)
            /\ tunit' = entry
            /\ pc' = IF call.op = "parse" THEN "answered" ELSE "complete"
            /\ UNCHANGED <<files, service, call>>

\* Mutant of Stat: it is the original file's mtime that is compared.
StatOriginal ==
  /\ pc = "stat"
  /\ IF mtime(call.file, "saved") = tunit.mtime
       THEN Answer(tunit)
       ELSE /\ tunit' = Stamped(tunit, mtime(call.file, "saved"))
            /\ pc' = "reparse"
            /\ UNCHANGED <<files, service, call>>
  /\ UNCHANGED cache

\* A hit: the cached unit is the answer if the contents have its mtime.
Stat ==
  /\ pc = "stat"
  /\ LET curr_timestamp == mtime(call.file, call.contents)
     IN  IF curr_timestamp = tunit.mtime
           THEN Answer(tunit)
           ELSE /\ tunit' = Stamped(tunit, curr_timestamp)
                /\ pc' = "reparse"
                /\ UNCHANGED <<files, service, call>>
  /\ UNCHANGED cache

\* Mutant of Reparse: the mtime is asked for when the unit is there, and by then
\* may be that of a later write than the one that was parsed.
ReparseStampsLate ==
  /\ pc = "reparse"
  /\ LET now == mtime(call.file, call.contents)
         unit == [Parsed(call.file, call.contents, now, TRUE)
                   EXCEPT !.source.version = call.seen]
     IN  Put(call.file, unit) /\ Answer(unit)

\* The contents are parsed again, and the unit takes the place of the old one.
\* When that fails None is returned, and the old unit stays.
Reparse ==
  /\ pc = "reparse"
  /\ \/ LET unit == Parsed(call.file, call.contents, tunit.mtime, TRUE)
        IN  Put(call.file, unit) /\ Answer(unit)
     \/ GiveUp

\* codeComplete: the contents are handed over as those of the original file, and
\* the completion is asked for in the file the unit was parsed from.  The contents may
\* not be readable, and libclang may fail; the unit stays in the cache.
Complete ==
  /\ pc = "complete"
  /\ \/ LET file == IF tunit.source.contents = "saved" THEN call.contents ELSE "edited"
        IN  /\ Answer(Parsed(call.file, file, tunit.mtime, tunit.reparsed))
            /\ UNCHANGED cache
     \/ GiveUp

\* The service hands the answer to its plugin.
Reply ==
  /\ pc = "answered"
  /\ pc' = "idle" /\ call' = NoCall /\ tunit' = NoEntry
  /\ UNCHANGED <<files, service, cache>>

ServiceStep ==
  \/ \E op \in Ops, f \in Files, c \in Contents : Request(op, f, c)
  \/ ParseMissing \/ Insert \/ Stat \/ Reparse \/ Complete \/ Reply

Next == ServiceStep \/ \E f \in Files, c \in Contents : Write(f, c)

Spec == Init /\ [][Next]_vars

-----------------------------------------------------------------------------
\* The answer is about the contents the request names, as they were when it was
\* made or later.
Fresh ==
  /\ tunit.source.contents = call.contents
  /\ tunit.source.version >= call.seen

\* Contents that are being edited are never answered for from an older unit, nor
\* from one of the saved file, whenever the editor writes them.
EditedContentsFresh ==
  pc = "answered" /\ call.contents = "edited" => Fresh

\* A unit that was parsed again is up to date whenever the cache takes it to be,
\* also if its file was written while it was parsed.
ReparsedFresh ==
  \A f \in Files :
    LET unit == store[f]
    IN  unit.reparsed /\ unit.mtime = mtime(f, unit.source.contents) =>
          unit.source.version = unit.mtime

\* A unit is given up only for a file that is new to a full cache, and only the one that
\* has been there longest: not when a unit is parsed again and takes the place of its
\* old self, and not when a request fails.
EvictsOldestForNew ==
  [][\A f \in Files : store[f] # NoEntry /\ store'[f] = NoEntry =>
       /\ Len(order) = Capacity /\ f = order[1]
       /\ store[call.file] = NoEntry /\ store'[call.file] # NoEntry]_vars

\* "We still have to make sure that cached tunit is not out-of-date": so it is for
\* every answer.
AnswersFresh == pc = "answered" => Fresh
=============================================================================
