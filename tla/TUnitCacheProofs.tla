--------------------------- MODULE TUnitCacheProofs ---------------------------
(***************************************************************************)
(* Proofs about TUnitCache.tla: which answers are up to date, for every    *)
(* set of files, capacity of the cache and number of writes.               *)
(***************************************************************************)
EXTENDS TUnitCache, SequenceTheorems, TLAPS
LOCAL INSTANCE SequencesExt

\* Every write has a number of its own, so no two contents have the same mtime.
FilesInv ==
  /\ writes \in Nat
  /\ version \in [Files -> [Contents -> Nat]]
  /\ \A f \in Files, c \in Contents : version[f][c] <= writes
  /\ \A f \in Files : version[f]["saved"] = version[f]["edited"] =>
       version[f]["saved"] = 0

\* The mtime of a unit is no later than its contents when it was parsed again;
\* in other units it is not one of edited contents.
StampInv(f, unit) ==
  /\ unit.mtime \in 1..writes
  /\ unit.reparsed => /\ unit.mtime <= unit.source.version
                      /\ unit.source.version <= version[f][unit.source.contents]
  /\ unit.mtime = version[f]["edited"] =>
       unit.reparsed /\ unit.source.contents = "edited"

StoreInv ==
  /\ store \in [Files -> Entry]
  /\ \A f \in Files : store[f] # NoEntry => StampInv(f, store[f])

\* The request that is being served, and the unit in hand: what a miss parsed is
\* what was asked for; a hit is the cached unit; before it is parsed again it has
\* the mtime its contents had a while ago.
CallInv ==
  /\ tunit \in Entry
  /\ pc # "idle" => call \in Call
  /\ pc # "idle" => call.seen \in 1..version[call.file][call.contents]
  /\ pc = "insert" => Fresh /\ ~tunit.reparsed
  /\ pc = "insert" =>
       tunit.source.version <= version[call.file][call.contents]
  /\ pc = "stat" => tunit = store[call.file] /\ tunit # NoEntry
  /\ pc = "reparse" => /\ tunit.mtime \in 1..version[call.file][call.contents]
                       /\ tunit.mtime = version[call.file]["edited"] =>
                            call.contents = "edited"
  /\ pc = "answered" /\ call.contents = "edited" => Fresh

CacheInv == FilesInv /\ StoreInv /\ CallInv

-----------------------------------------------------------------------------
\* Put leaves the other files' units alone, or drops them.
LEMMA PutStores ==
  ASSUME NEW f \in Files, NEW unit, Put(f, unit)
  PROVE  /\ store' = [g \in Files |-> store'[g]]
         /\ store'[f] = unit
         /\ \A g \in Files \ {f} : store'[g] = store[g] \/ store'[g] = NoEntry
  BY Zenon DEF Put

LEMMA NoEntryIsEntry == NoEntry \in Entry
  BY DEF NoEntry, Entry, Source, Contents

\* A unit put into the cache keeps the store as StoreInv wants it, if it is itself.
LEMMA PutKeepsStore ==
  ASSUME CacheInv, NEW f \in Files, NEW unit \in Entry,
         Put(f, unit), StampInv(f, unit), UNCHANGED files
  PROVE  StoreInv'
<1>1. \A g \in Files : store'[g] \in Entry
  BY PutStores, NoEntryIsEntry DEF CacheInv, StoreInv
<1>2. store' \in [Files -> Entry]
  BY <1>1, PutStores
<1>3. ASSUME NEW g \in Files, store'[g] # NoEntry PROVE StampInv(g, store[g])'
  <2>1. CASE g = f
    BY <2>1, PutStores DEF StampInv, files
  <2>2. CASE g # f
    <3>1. store'[g] = store[g]
      BY <1>3, <2>2, PutStores
    <3>2. StampInv(g, store[g])
      BY <1>3, <3>1 DEF CacheInv, StoreInv
    <3> QED BY <3>1, <3>2 DEF StampInv, files
  <2> QED BY <2>1, <2>2
<1> QED BY <1>2, <1>3 DEF StoreInv

LEMMA FilesKept ==
  ASSUME FilesInv, UNCHANGED files PROVE FilesInv'
  BY DEF FilesInv, files

LEMMA StoreKept ==
  ASSUME StoreInv, UNCHANGED files, UNCHANGED store PROVE StoreInv'
  BY DEF StoreInv, StampInv, files

LEMMA GiveUpKeeps ==
  ASSUME CacheInv, GiveUp PROVE CacheInv'
<1>1. FilesInv' /\ StoreInv'
  BY FilesKept, StoreKept DEF CacheInv, GiveUp, cache
<1>2. CallInv'
  BY NoEntryIsEntry DEF CallInv, GiveUp, NoEntry
<1> QED BY <1>1, <1>2 DEF CacheInv

LEMMA CacheInvInit == Init => CacheInv
<1> SUFFICES ASSUME Init PROVE CacheInv
  OBVIOUS
<1>1. FilesInv
  BY DEF Init, FilesInv, Contents
<1>2. StoreInv
  BY NoEntryIsEntry DEF Init, StoreInv
<1>3. CallInv
  BY NoEntryIsEntry DEF Init, CallInv
<1> QED BY <1>1, <1>2, <1>3 DEF CacheInv

LEMMA CacheInvStep == CacheInv /\ [Next]_vars => CacheInv'
<1> SUFFICES ASSUME CacheInv, [Next]_vars PROVE CacheInv'
  OBVIOUS
<1>1. ASSUME NEW op \in Ops, NEW f \in Files, NEW c \in Contents, Request(op, f, c)
      PROVE  CacheInv'
  <2>1. FilesInv' /\ StoreInv'
    BY <1>1, FilesKept, StoreKept DEF CacheInv, Request, cache
  <2>2. version[f][c] \in Nat
    BY DEF CacheInv, FilesInv
  <2>3. call' \in Call /\ call'.file = f /\ call'.contents = c
        /\ call'.seen \in 1..version[f][c]
    BY <1>1, <2>2 DEF Request, Call
  <2>4. tunit' \in Entry /\ tunit' = store[f]
    BY <1>1 DEF Request, CacheInv, StoreInv
  <2>5. pc' \in {"parse", "stat", "complete"}
        /\ (pc' = "stat" => store[f] # NoEntry)
    BY <1>1 DEF Request
  <2>6. UNCHANGED <<version, store>>
    BY <1>1 DEF Request, files, cache
  <2>7. CallInv'
    BY <2>3, <2>4, <2>5, <2>6 DEF CallInv
  <2> QED BY <2>1, <2>7 DEF CacheInv
<1>2. CASE ParseMissing
  <2>1. CASE GiveUp
    BY <2>1, GiveUpKeeps
  <2>2. CASE /\ tunit' = Parsed(call.file, call.contents, 0, FALSE)
             /\ pc' = "insert"
             /\ UNCHANGED <<files, service, cache, call>>
    <3>1. FilesInv' /\ StoreInv'
      BY <2>2, FilesKept, StoreKept DEF CacheInv, cache
    <3>2. call \in Call /\ call.seen \in 1..version[call.file][call.contents]
      BY <1>2 DEF ParseMissing, CacheInv, CallInv
    <3>3. version[call.file][call.contents] \in Nat
      BY <3>2 DEF CacheInv, FilesInv, Call
    <3>4. tunit' \in Entry
      BY <2>2, <3>2, <3>3 DEF Parsed, Entry, Source, Call
    <3>5. CallInv'
      BY <2>2, <3>2, <3>3, <3>4 DEF CallInv, Fresh, Parsed, files, Call
    <3> QED BY <3>1, <3>5 DEF CacheInv
  <2> QED BY <1>2, <2>1, <2>2 DEF ParseMissing
<1>3. CASE Insert
  <2> DEFINE stamp == mtime(call.file, "saved")
             entry == Stamped(tunit, stamp)
  <2>1. CASE stamp = 0 /\ GiveUp
    BY <2>1, GiveUpKeeps
  <2>2. CASE /\ stamp # 0
             /\ Put(call.file, entry)
             /\ tunit' = entry
             /\ pc' = IF call.op = "parse" THEN "answered" ELSE "complete"
             /\ UNCHANGED <<files, service, call>>
    <3>1. /\ call \in Call /\ call.file \in Files /\ tunit \in Entry
          /\ Fresh /\ ~tunit.reparsed
          /\ call.seen \in 1..version[call.file][call.contents]
      BY <1>3 DEF Insert, CacheInv, CallInv, Call
    <3>2. /\ stamp \in 1..writes
          /\ stamp # version[call.file]["edited"]
      BY <2>2, <3>1 DEF CacheInv, FilesInv, mtime, Contents
    <3>3. entry \in Entry /\ entry.mtime = stamp /\ ~entry.reparsed
          /\ entry.source = tunit.source
      BY <3>1, <3>2 DEF Stamped, Entry, CacheInv, FilesInv
    <3>4. StampInv(call.file, entry)
      BY <3>2, <3>3 DEF StampInv
    <3>5. FilesInv' /\ StoreInv'
      BY <2>2, <3>1, <3>3, <3>4, FilesKept, PutKeepsStore DEF CacheInv
    <3>6. CallInv'
      BY <2>2, <3>1, <3>3 DEF CallInv, Fresh, files
    <3> QED BY <3>5, <3>6 DEF CacheInv
  <2> QED BY <1>3, <2>1, <2>2 DEF Insert
<1>4. CASE Stat
  <2> DEFINE curr_timestamp == mtime(call.file, call.contents)
  <2>1. /\ call \in Call /\ call.file \in Files /\ call.contents \in Contents
        /\ call.seen \in 1..version[call.file][call.contents]
        /\ tunit \in Entry /\ tunit = store[call.file] /\ tunit # NoEntry
    BY <1>4 DEF Stat, CacheInv, CallInv, Call
  <2>2. StampInv(call.file, tunit)
    BY <2>1 DEF CacheInv, StoreInv
  <2>3. FilesInv' /\ StoreInv'
    BY <1>4, FilesKept, StoreKept DEF Stat, Answer, CacheInv, cache
  <2>4. CASE curr_timestamp = tunit.mtime /\ Answer(tunit)
    <3>1. call.contents = "edited" => Fresh
      BY <2>1, <2>2, <2>4 DEF StampInv, Fresh, mtime, CacheInv, FilesInv,
                              Entry, Source
    <3> QED BY <2>1, <2>3, <2>4, <3>1 DEF CacheInv, CallInv, Answer, Fresh, files
  <2>5. CASE /\ tunit' = Stamped(tunit, curr_timestamp)
             /\ pc' = "reparse"
             /\ UNCHANGED <<files, service, call>>
    <3>1. curr_timestamp \in 1..version[call.file][call.contents]
      BY <2>1 DEF mtime, CacheInv, FilesInv
    <3>2. curr_timestamp = version[call.file]["edited"] =>
            call.contents = "edited"
      BY <2>1, <3>1 DEF mtime, CacheInv, FilesInv, Contents
    <3>3. tunit' \in Entry /\ tunit'.mtime = curr_timestamp
      BY <2>1, <2>5, <3>1 DEF Stamped, Entry, CacheInv, FilesInv
    <3> QED BY <2>1, <2>3, <2>5, <3>1, <3>2, <3>3 DEF CacheInv, CallInv, files
  <2> QED BY <1>4, <2>4, <2>5 DEF Stat
<1>5. CASE Reparse
  <2> DEFINE unit == Parsed(call.file, call.contents, tunit.mtime, TRUE)
  <2>1. CASE GiveUp
    BY <2>1, GiveUpKeeps
  <2>2. CASE Put(call.file, unit) /\ Answer(unit)
    <3>1. /\ call \in Call /\ call.file \in Files /\ call.contents \in Contents
          /\ call.seen \in 1..version[call.file][call.contents]
          /\ tunit.mtime \in 1..version[call.file][call.contents]
          /\ tunit.mtime = version[call.file]["edited"] =>
               call.contents = "edited"
      BY <1>5 DEF Reparse, CacheInv, CallInv, Call
    <3>2. /\ writes \in Nat
          /\ version[call.file][call.contents] \in 0..writes
      BY <3>1 DEF CacheInv, FilesInv
    <3>3. unit \in Entry
      BY <3>1, <3>2 DEF Parsed, Entry, Source
    <3>4. StampInv(call.file, unit)
      BY <3>1, <3>2 DEF Parsed, StampInv
    <3>5. FilesInv' /\ StoreInv'
      BY <2>2, <3>1, <3>3, <3>4, FilesKept, PutKeepsStore DEF CacheInv, Answer
    <3>6. CallInv'
      BY <2>2, <3>1, <3>2, <3>3 DEF CallInv, Fresh, Answer, Parsed, files
    <3> QED BY <3>5, <3>6 DEF CacheInv
  <2> QED BY <1>5, <2>1, <2>2 DEF Reparse
<1>6. CASE Complete
  <2> DEFINE file == IF tunit.source.contents = "saved"
                       THEN call.contents ELSE "edited"
             unit == Parsed(call.file, file, tunit.mtime, tunit.reparsed)
  <2>1. CASE GiveUp
    BY <2>1, GiveUpKeeps
  <2>2. CASE Answer(unit) /\ UNCHANGED cache
    <3>1. /\ call \in Call /\ call.file \in Files /\ call.contents \in Contents
          /\ call.seen \in 1..version[call.file][call.contents]
          /\ tunit \in Entry
      BY <1>6 DEF Complete, CacheInv, CallInv, Call
    <3>2. file \in Contents /\ version[call.file][file] \in Nat
          /\ (call.contents = "edited" => file = "edited")
      BY <3>1 DEF CacheInv, FilesInv, Contents
    <3>3. unit \in Entry
          /\ unit.source = [contents |-> file, version |-> version[call.file][file]]
      BY <3>1, <3>2 DEF Parsed, Entry, Source
    <3>4. FilesInv' /\ StoreInv'
      BY <2>2, FilesKept, StoreKept DEF Answer, CacheInv, cache
    <3>5. /\ pc' = "answered" /\ tunit' = unit
          /\ UNCHANGED <<version, call>>
      BY <2>2 DEF Answer, files
    <3> HIDE DEF unit, file
    <3>6. CallInv'
      BY <3>1, <3>2, <3>3, <3>5 DEF CallInv, Fresh
    <3> QED BY <3>4, <3>6 DEF CacheInv
  <2> QED BY <1>6, <2>1, <2>2 DEF Complete
<1>7. CASE Reply
  <2>1. FilesInv' /\ StoreInv'
    BY <1>7, FilesKept, StoreKept DEF Reply, CacheInv, cache
  <2>2. CallInv'
    BY <1>7, NoEntryIsEntry DEF Reply, CallInv
  <2> QED BY <2>1, <2>2 DEF CacheInv
<1>8. ASSUME NEW f \in Files, NEW c \in Contents, Write(f, c) PROVE CacheInv'
  <2>1. /\ writes \in Nat /\ writes' = writes + 1
        /\ version' = [version EXCEPT ![f][c] = writes']
        /\ version \in [Files -> [Contents -> Nat]]
        /\ UNCHANGED <<store, pc, call, tunit>>
    BY <1>8 DEF Write, cache, CacheInv, FilesInv
  <2>2. \A g \in Files, d \in Contents :
          /\ version[g][d] \in 0..writes
          /\ version'[g][d] = IF g = f /\ d = c THEN writes + 1 ELSE version[g][d]
    BY <2>1 DEF CacheInv, FilesInv
  <2>3. FilesInv'
    BY <2>1, <2>2 DEF CacheInv, FilesInv, Contents
  <2>4. ASSUME NEW g \in Files, NEW unit \in Entry, StampInv(g, unit)
        PROVE  StampInv(g, unit)'
    BY <2>1, <2>2, <2>4 DEF StampInv, Entry, Source, Contents
  <2>5. StoreInv'
    BY <2>1, <2>4 DEF CacheInv, StoreInv
  <2>6. CallInv'
    BY <2>1, <2>2 DEF CacheInv, CallInv, Fresh, Entry, Source, Call, Contents
  <2> QED BY <2>3, <2>5, <2>6 DEF CacheInv
<1>9. CASE UNCHANGED vars
  BY <1>9 DEF vars, files, cache, CacheInv, FilesInv, StoreInv, StampInv,
              CallInv, Fresh
<1> QED BY <1>1, <1>2, <1>3, <1>4, <1>5, <1>6, <1>7, <1>8, <1>9
        DEF Next, ServiceStep

LEMMA CacheInvariant == Spec => []CacheInv
  BY CacheInvInit, CacheInvStep, PTL DEF Spec

-----------------------------------------------------------------------------
\* A request about contents that are being edited is answered from these contents,
\* no older than the request: the mtimes that parse compares can tell any two of
\* the units it may find in the cache for such a request apart.
THEOREM EditedContentsAreFresh == Spec => []EditedContentsFresh
<1>1. CacheInv => EditedContentsFresh
  BY DEF CacheInv, CallInv, EditedContentsFresh
<1> QED BY <1>1, CacheInvariant, PTL

\* The mtime a unit gets when it is parsed again was read before the contents were,
\* so a write that comes between makes the unit look older than it is, not newer.
THEOREM ReparsedUnitsAreFresh == Spec => []ReparsedFresh
<1>1. CacheInv => ReparsedFresh
  <2> SUFFICES ASSUME CacheInv, NEW f \in Files, store[f].reparsed,
                      store[f].mtime = mtime(f, store[f].source.contents)
               PROVE  store[f].source.version = store[f].mtime
    BY DEF ReparsedFresh
  <2>1. store[f] \in Entry /\ StampInv(f, store[f])
    BY DEF CacheInv, StoreInv, NoEntry
  <2> QED BY <2>1 DEF StampInv, mtime, CacheInv, FilesInv, Entry, Source
<1> QED BY <1>1, CacheInvariant, PTL

-----------------------------------------------------------------------------
(***************************************************************************)
(* The cache is one: no file is in it twice, it has the files that have a  *)
(* unit, and never more of them than its capacity.                         *)
(***************************************************************************)
Distinct(q) == \A i, j \in DOMAIN q : q[i] = q[j] => i = j
Elements(q) == {q[i] : i \in DOMAIN q}

LEMMA WithoutType ==
  ASSUME order \in Seq(Files), Distinct(order), NEW f \in Files
  PROVE  /\ Without(f) \in Seq(Files) /\ Distinct(Without(f))
         /\ Elements(Without(f)) = Elements(order) \ {f}
         /\ IF f \in Elements(order) THEN Len(Without(f)) = Len(order) - 1
                                     ELSE Without(f) = order
<1>1. CASE f \notin Elements(order)
  <2>1. Without(f) = order
    BY <1>1 DEF Without, Elements
  <2> QED
    BY <1>1, <2>1
<1>2. CASE f \in Elements(order)
  <2> DEFINE n == Len(order)
             place == CHOOSE i \in DOMAIN order : order[i] = f
             before == SubSeq(order, 1, place - 1)
             after == SubSeq(order, place + 1, n)
  <2>1. n \in Nat /\ DOMAIN order = 1..n /\ \A i \in 1..n : order[i] \in Files
    OBVIOUS
  <2>2. place \in 1..n /\ order[place] = f
    BY <1>2, <2>1 DEF Elements
  <2>3. Without(f) = before \o after
    BY <1>2 DEF Without, RemoveAt, Elements
  <2> HIDE DEF place, n
  <2>4. /\ before \in Seq(Files) /\ Len(before) = place - 1
        /\ \A i \in 1..(place - 1) : before[i] = order[i]
    <3>1. \A i \in 1..(place - 1) : order[i] \in Files
      BY <2>1, <2>2
    <3>2. place - 1 \in Int /\ 1 - 1 <= place - 1
      BY <2>1, <2>2
    <3> QED
      BY <2>1, <2>2, <3>1, <3>2, SubSeqProperties
  <2>5. /\ after \in Seq(Files) /\ Len(after) = n - place
        /\ \A i \in 1..(n - place) : after[i] = order[place + i]
    <3>1. \A i \in (place + 1)..n : order[i] \in Files
      BY <2>1, <2>2
    <3> QED
      BY <2>1, <2>2, <3>1, SubSeqProperties
  <2> DEFINE rest == Without(f)
  <2> HIDE DEF before, after
  <2>6. /\ rest \in Seq(Files) /\ Len(rest) = n - 1
        /\ DOMAIN rest = 1..(n - 1)
        /\ \A i \in 1..(n - 1) :
             rest[i] = IF i < place THEN order[i] ELSE order[i + 1]
    <3>1. rest \in Seq(Files) /\ Len(rest) = Len(before) + Len(after)
      BY <2>3, <2>4, <2>5, ConcatProperties
    <3>2. Len(rest) = n - 1
      BY <2>1, <2>2, <2>4, <2>5, <3>1
    <3>3. DOMAIN rest = 1..(n - 1)
      BY <3>1, <3>2
    <3>4. ASSUME NEW i \in 1..(n - 1)
          PROVE  rest[i] = IF i < place THEN order[i] ELSE order[i + 1]
      <4>1. rest[i] = IF i <= Len(before) THEN before[i] ELSE after[i - Len(before)]
        <5>1. i \in 1..(Len(before) + Len(after))
          BY <3>1, <3>2
        <5> QED
          BY <2>3, <2>4, <2>5, <5>1, ConcatProperties
      <4>2. CASE i < place
        BY <2>1, <2>2, <2>4, <4>1, <4>2
      <4>3. CASE ~(i < place)
        <5>1. i - Len(before) = i - place + 1 /\ i - place + 1 \in 1..(n - place)
          BY <2>1, <2>2, <2>4, <4>3
        <5>2. rest[i] = order[place + (i - place + 1)]
          BY <2>1, <2>2, <2>4, <2>5, <4>1, <4>3, <5>1
        <5>3. place + (i - place + 1) = i + 1
          BY <2>1, <2>2
        <5> QED
          BY <4>3, <5>2, <5>3
      <4> QED
        BY <4>2, <4>3
    <3> QED
      BY <3>1, <3>2, <3>3, <3>4
  <2> HIDE DEF rest
  <2>7. Distinct(rest)
    <3> SUFFICES ASSUME NEW i \in 1..(n - 1), NEW j \in 1..(n - 1), rest[i] = rest[j]
                 PROVE  i = j
      BY <2>6 DEF Distinct
    <3> DEFINE at(k) == IF k < place THEN k ELSE k + 1
    <3>1. at(i) \in 1..n /\ at(j) \in 1..n
      BY <2>1, <2>2
    <3>2. order[at(i)] = order[at(j)]
      BY <2>6
    <3>3. at(i) = at(j)
      BY <2>1, <3>1, <3>2 DEF Distinct
    <3> QED
      BY <2>1, <2>2, <3>3
  <2>8. Elements(rest) \subseteq Elements(order) \ {f}
    <3> SUFFICES ASSUME NEW i \in 1..(n - 1)
                 PROVE  rest[i] \in Elements(order) \ {f}
      BY <2>6 DEF Elements
    <3> DEFINE at == IF i < place THEN i ELSE i + 1
    <3>1. at \in 1..n /\ at # place
      BY <2>1, <2>2
    <3>2. rest[i] = order[at]
      BY <2>6
    <3> HIDE DEF at
    <3>3. order[at] # f
      BY <2>1, <2>2, <3>1 DEF Distinct
    <3> QED
      BY <2>1, <3>1, <3>2, <3>3 DEF Elements
  <2>9. ASSUME NEW i \in 1..n, i # place
        PROVE  order[i] \in Elements(rest)
    <3>1. CASE i < place
      <4>1. i \in 1..(n - 1) /\ rest[i] = order[i]
        BY <2>1, <2>2, <2>6, <3>1
      <4> QED
        BY <2>6, <4>1 DEF Elements
    <3>2. CASE i > place
      <4>1. i - 1 \in 1..(n - 1) /\ ~(i - 1 < place) /\ (i - 1) + 1 = i
        BY <2>1, <2>2, <2>9, <3>2
      <4> QED
        BY <2>6, <4>1 DEF Elements
    <3> QED
      BY <2>1, <2>2, <2>9, <3>1, <3>2
  <2>10. Elements(order) \ {f} \subseteq Elements(rest)
    BY <2>1, <2>2, <2>9 DEF Elements
  <2>11. n = Len(order) /\ rest = Without(f)
    BY DEF n, rest
  <2> QED
    BY <1>2, <2>6, <2>7, <2>8, <2>10, <2>11
<1> QED
  BY <1>1, <1>2

LEMMA TailType ==
  ASSUME NEW q \in Seq(Files), Distinct(q), q # <<>>
  PROVE  /\ Tail(q) \in Seq(Files) /\ Len(Tail(q)) = Len(q) - 1
         /\ Distinct(Tail(q)) /\ Head(q) \in Files
         /\ Elements(Tail(q)) = Elements(q) \ {Head(q)}
<1>1. /\ Head(q) \in Files /\ Head(q) = q[1] /\ Tail(q) \in Seq(Files)
      /\ Len(Tail(q)) = Len(q) - 1 /\ Len(q) \in Nat \ {0}
      /\ \A i \in 1..Len(Tail(q)) : Tail(q)[i] = q[i + 1]
  BY HeadTailProperties
<1>2. DOMAIN q = 1..Len(q) /\ DOMAIN Tail(q) = 1..(Len(q) - 1)
  BY <1>1
<1> DEFINE rest == Tail(q)
           n == Len(q)
<1>3. \A i \in 1..(n - 1) : i + 1 \in 1..n /\ rest[i] = q[i + 1]
  BY <1>1
<1> HIDE DEF rest, n
<1>4. Distinct(rest)
  <2> SUFFICES ASSUME NEW i \in 1..(n - 1), NEW j \in 1..(n - 1), rest[i] = rest[j]
               PROVE  i = j
    BY <1>2 DEF Distinct, rest, n
  <2>1. i + 1 = j + 1
    BY <1>2, <1>3 DEF Distinct, n
  <2> QED
    BY <2>1
<1>5. Elements(rest) \subseteq Elements(q) \ {Head(q)}
  <2> SUFFICES ASSUME NEW i \in 1..(n - 1)
               PROVE  rest[i] \in Elements(q) \ {Head(q)}
    BY <1>2 DEF Elements, rest, n
  <2>1. i + 1 \in 1..n /\ 1 \in 1..n /\ i + 1 # 1 /\ rest[i] = q[i + 1]
    BY <1>1, <1>3 DEF n
  <2>2. q[i + 1] # q[1]
    BY <1>2, <2>1 DEF Distinct, n
  <2> QED
    BY <1>1, <1>2, <2>1, <2>2 DEF Elements, n
<1>6. Elements(q) \ {Head(q)} \subseteq Elements(rest)
  <2> SUFFICES ASSUME NEW i \in 1..n, q[i] # Head(q)
               PROVE  q[i] \in Elements(rest)
    BY <1>2 DEF Elements, n
  <2>1. i - 1 \in 1..(n - 1) /\ (i - 1) + 1 = i
    BY <1>1 DEF n
  <2>2. q[i] = rest[i - 1]
    BY <1>3, <2>1
  <2> QED
    BY <1>2, <2>1, <2>2 DEF Elements, rest, n
<1> QED
  BY <1>1, <1>4, <1>5, <1>6 DEF rest

LEMMA AppendType ==
  ASSUME NEW q \in Seq(Files), Distinct(q), NEW f \in Files \ Elements(q)
  PROVE  /\ Append(q, f) \in Seq(Files) /\ Len(Append(q, f)) = Len(q) + 1
         /\ Distinct(Append(q, f))
         /\ Elements(Append(q, f)) = Elements(q) \cup {f}
<1> DEFINE n == Len(q)
           all == Append(q, f)
<1>1. /\ all \in Seq(Files) /\ Len(all) = n + 1 /\ n \in Nat
      /\ DOMAIN all = 1..(n + 1) /\ DOMAIN q = 1..n
      /\ \A i \in 1..n : all[i] = q[i]
      /\ all[n + 1] = f
  BY AppendProperties
<1> HIDE DEF all, n
<1>2. \A i \in 1..n : q[i] # f
  BY <1>1 DEF Elements
<1>3. Distinct(all)
  <2> SUFFICES ASSUME NEW i \in 1..(n + 1), NEW j \in 1..(n + 1), all[i] = all[j]
               PROVE  i = j
    BY <1>1 DEF Distinct
  <2>1. CASE i \in 1..n /\ j \in 1..n
    BY <1>1, <2>1 DEF Distinct
  <2>2. CASE i = n + 1 \/ j = n + 1
    BY <1>1, <1>2, <2>2
  <2> QED
    BY <1>1, <2>1, <2>2
<1>4. 1..(n + 1) = 1..n \cup {n + 1}
  BY <1>1
<1>5. Elements(all) = Elements(q) \cup {f}
  BY <1>1, <1>4 DEF Elements
<1> QED
  BY <1>1, <1>3, <1>5 DEF all, n

\* The files in the cache, as TypeOK has them.
OrderInv ==
  /\ order \in Seq(Files) /\ Len(order) <= Capacity /\ Distinct(order)
  /\ Elements(order) = {f \in Files : store[f] # NoEntry}

LEMMA PutKeepsOrder ==
  ASSUME OrderInv, NEW f \in Files, NEW entry, entry # NoEntry, Put(f, entry)
  PROVE  OrderInv'
<1> DEFINE kept == Without(f)
           evicted == {g \in Files : Len(kept) = Capacity /\ g = Head(kept)}
           rest == IF evicted = {} THEN kept ELSE Tail(kept)
<1>1. /\ kept \in Seq(Files) /\ Distinct(kept)
      /\ Elements(kept) = Elements(order) \ {f}
      /\ IF f \in Elements(order) THEN Len(kept) = Len(order) - 1
                                  ELSE kept = order
  BY WithoutType DEF OrderInv
<1>2. Len(order) \in Nat /\ Len(kept) \in Nat /\ Len(kept) <= Capacity
      /\ Capacity \in Nat \ {0}
  BY <1>1, CapacityAssumption DEF OrderInv
<1>3. /\ store' = [g \in Files |-> IF g = f THEN entry
                                   ELSE IF g \in evicted THEN NoEntry ELSE store[g]]
      /\ order' = Append(rest, f)
  BY Zenon DEF Put
<1> HIDE DEF kept
<1>4. /\ rest \in Seq(Files) /\ Distinct(rest) /\ Len(rest) < Capacity
      /\ Elements(rest) = Elements(order) \ ({f} \cup evicted)
  <2>1. CASE Len(kept) = Capacity
    <3>1. kept # <<>>
      BY <1>2, <2>1
    <3>2. /\ Tail(kept) \in Seq(Files) /\ Len(Tail(kept)) = Len(kept) - 1
          /\ Distinct(Tail(kept)) /\ Head(kept) \in Files
          /\ Elements(Tail(kept)) = Elements(kept) \ {Head(kept)}
      BY <1>1, <3>1, TailType
    <3>3. evicted = {Head(kept)} /\ rest = Tail(kept)
      BY <2>1, <3>2
    <3> HIDE DEF evicted, rest
    <3> QED
      BY <1>1, <1>2, <2>1, <3>2, <3>3
  <2>2. CASE Len(kept) # Capacity
    <3>1. evicted = {} /\ rest = kept
      BY <2>2
    <3> HIDE DEF evicted, rest
    <3> QED
      BY <1>1, <1>2, <2>2, <3>1
  <2> QED
    BY <2>1, <2>2
<1> HIDE DEF evicted, rest
<1>5. /\ order' \in Seq(Files) /\ Len(order') = Len(rest) + 1 /\ Distinct(order')
      /\ Elements(order') = Elements(rest) \cup {f}
  BY <1>3, <1>4, AppendType
<1>6. Len(order') <= Capacity
  BY <1>2, <1>4, <1>5
<1>7. Elements(order') = {g \in Files : store'[g] # NoEntry}
  BY <1>3, <1>4, <1>5 DEF OrderInv
<1> QED
  BY <1>5, <1>6, <1>7 DEF OrderInv, Distinct, Elements

PcSet == {"idle", "parse", "insert", "stat", "reparse", "complete", "answered"}

TypeInv ==
  /\ OrderInv
  /\ service \in Services /\ pc \in PcSet /\ call \in Call \cup {NoCall}

LEMMA TypeInvInit == Init => TypeInv
<1> SUFFICES ASSUME Init PROVE TypeInv
  OBVIOUS
<1>1. /\ order = <<>> /\ store = [f \in Files |-> NoEntry] /\ service \in Services
      /\ pc = "idle" /\ call = NoCall
  BY DEF Init
<1>2. OrderInv
  BY <1>1, CapacityAssumption DEF OrderInv, Distinct, Elements
<1> QED
  BY <1>1, <1>2 DEF TypeInv, PcSet

LEMMA TypeInvStep == CacheInv /\ TypeInv /\ [Next]_vars => TypeInv'
<1> SUFFICES ASSUME CacheInv, TypeInv, [Next]_vars PROVE TypeInv'
  OBVIOUS
<1>2. ASSUME UNCHANGED <<store, order>> PROVE OrderInv'
  BY <1>2 DEF TypeInv, OrderInv, Distinct, Elements
<1>3. ASSUME NEW op \in Ops, NEW f \in Files, NEW c \in Contents, Request(op, f, c)
      PROVE  TypeInv'
  <2>1. version[f][c] \in Nat
    BY DEF CacheInv, FilesInv
  <2>2. UNCHANGED <<store, order, service>>
    BY <1>3 DEF Request, cache
  <2>3. call' \in Call /\ pc' \in PcSet
    BY <1>3, <2>1 DEF Request, Call, PcSet
  <2> QED
    BY <1>2, <2>2, <2>3 DEF TypeInv
<1>4. ASSUME GiveUp \/ Reply PROVE TypeInv'
  BY <1>2, <1>4 DEF GiveUp, Reply, files, cache, TypeInv, PcSet
<1>5. CASE ParseMissing
  BY <1>2, <1>4, <1>5 DEF ParseMissing, files, cache, TypeInv, PcSet
<1>6. CASE Insert
  <2>1. CASE GiveUp
    BY <1>4, <2>1
  <2>2. ASSUME NEW stamp, stamp = mtime(call.file, "saved"), stamp # 0, ~GiveUp
        PROVE  TypeInv'
    <3> DEFINE entry == Stamped(tunit, stamp)
    <3>1. /\ Put(call.file, entry) /\ pc' \in {"answered", "complete"}
          /\ UNCHANGED <<service, call>> /\ pc = "insert"
      BY <1>6, <2>2 DEF Insert, files
    <3>2. entry # NoEntry
      BY <2>2 DEF Stamped, NoEntry
    <3>3. call.file \in Files
      BY <3>1 DEF CacheInv, CallInv, Call
    <3>4. OrderInv'
      BY <3>1, <3>2, <3>3, PutKeepsOrder DEF TypeInv
    <3> QED
      BY <3>1, <3>4 DEF TypeInv, PcSet
  <2> QED
    BY <1>6, <2>1, <2>2 DEF Insert
<1>7. CASE Stat
  BY <1>2, <1>7 DEF Stat, Answer, files, cache, TypeInv, PcSet
<1>8. CASE Reparse
  <2>1. CASE GiveUp
    BY <1>4, <2>1
  <2>2. CASE ~GiveUp
    <3> DEFINE unit == Parsed(call.file, call.contents, tunit.mtime, TRUE)
    <3>1. Put(call.file, unit) /\ Answer(unit) /\ pc = "reparse"
      BY <1>8, <2>2 DEF Reparse
    <3>2. unit # NoEntry
      BY DEF Parsed, NoEntry
    <3>3. call.file \in Files
      BY <3>1 DEF CacheInv, CallInv, Call
    <3>4. OrderInv'
      BY <3>1, <3>2, <3>3, PutKeepsOrder DEF TypeInv
    <3> QED
      BY <3>1, <3>4 DEF Answer, TypeInv, PcSet
  <2> QED
    BY <2>1, <2>2
<1>9. CASE Complete
  <2>1. CASE GiveUp
    BY <1>4, <2>1
  <2>2. CASE ~GiveUp
    BY <1>2, <1>9, <2>2 DEF Complete, Answer, files, cache, TypeInv, PcSet
  <2> QED
    BY <2>1, <2>2
<1>10. ASSUME NEW f \in Files, NEW c \in Contents, Write(f, c) PROVE TypeInv'
  BY <1>2, <1>10 DEF Write, cache, TypeInv
<1>11. CASE UNCHANGED vars
  BY <1>2, <1>11 DEF vars, files, cache, TypeInv
<1> QED
  BY <1>3, <1>4, <1>5, <1>6, <1>7, <1>8, <1>9, <1>10, <1>11 DEF Next, ServiceStep

LEMMA TypeInvariant == Spec => []TypeInv
<1>1. Spec => []CacheInv
  BY CacheInvariant
<1> QED
  BY <1>1, TypeInvInit, TypeInvStep, PTL DEF Spec

\* The state keeps its types. The cache never has more files than its capacity,
\* none of them twice, and always those that have a unit: replacing a unit, as
\* parse does, evicts no other, whatever requests failed in between.
THEOREM TypeCorrect == Spec => []TypeOK
<1>1. CacheInv /\ TypeInv => TypeOK
  BY DEF CacheInv, FilesInv, StoreInv, CallInv, TypeInv, OrderInv, Distinct,
         Elements, PcSet, TypeOK
<1> QED
  BY <1>1, TypeInvariant, CacheInvariant, PTL

\* What Put evicts: a file in the cache makes room for its own new unit, so only a file
\* that is new to a full cache takes the place of another, the oldest.
LEMMA PutEvicts ==
  ASSUME OrderInv, NEW f \in Files, NEW entry, entry # NoEntry, Put(f, entry),
         NEW g \in Files, store[g] # NoEntry, store'[g] = NoEntry
  PROVE  /\ Len(order) = Capacity /\ g = order[1]
         /\ store[f] = NoEntry /\ store'[f] # NoEntry
<1> DEFINE kept == Without(f)
<1>1. /\ kept \in Seq(Files)
      /\ IF f \in Elements(order) THEN Len(kept) = Len(order) - 1 ELSE kept = order
  BY WithoutType DEF OrderInv
<1>2. store'[f] = entry
  BY PutStores
<1>3. Len(kept) = Capacity /\ g = Head(kept)
  BY <1>2, Zenon DEF Put
<1>4. Len(order) \in Nat /\ Len(order) <= Capacity /\ Capacity \in Nat \ {0}
  BY CapacityAssumption DEF OrderInv
<1> HIDE DEF kept
<1>5. f \notin Elements(order) /\ kept = order
  BY <1>1, <1>3, <1>4
<1>6. Head(order) = order[1]
  BY <1>3, <1>4, <1>5, HeadTailProperties DEF OrderInv
<1> QED
  BY <1>2, <1>3, <1>5, <1>6 DEF OrderInv

\* A unit is given up only for a file that is new to a full cache, and then it is the
\* oldest, for any capacity, whatever requests fail and whatever the editor writes.
THEOREM EvictsOldest == Spec => EvictsOldestForNew
<1> DEFINE Evicts ==
      \A f \in Files : store[f] # NoEntry /\ store'[f] = NoEntry =>
        /\ Len(order) = Capacity /\ f = order[1]
        /\ store[call.file] = NoEntry /\ store'[call.file] # NoEntry
<1>1. CacheInv /\ TypeInv /\ [Next]_vars => [Evicts]_vars
  <2> SUFFICES ASSUME CacheInv, TypeInv, [Next]_vars, NEW f \in Files,
                      store[f] # NoEntry, store'[f] = NoEntry
               PROVE  /\ Len(order) = Capacity /\ f = order[1]
                      /\ store[call.file] = NoEntry /\ store'[call.file] # NoEntry
    OBVIOUS
  <2>1. (Insert \/ Reparse) /\ ~GiveUp
    BY DEF Next, ServiceStep, Request, ParseMissing, Stat, Complete, Reply, Answer,
           GiveUp, Write, vars, cache
  <2>2. PICK entry : Put(call.file, entry) /\ entry # NoEntry
    <3>1. CASE Insert
      <4> DEFINE entry == Stamped(tunit, mtime(call.file, "saved"))
      <4>1. Put(call.file, entry) /\ mtime(call.file, "saved") # 0
        BY <2>1, <3>1 DEF Insert
      <4>2. entry # NoEntry
        BY <4>1 DEF Stamped, NoEntry
      <4> QED BY <4>1, <4>2
    <3>2. CASE Reparse
      <4> DEFINE unit == Parsed(call.file, call.contents, tunit.mtime, TRUE)
      <4>1. Put(call.file, unit)
        BY <2>1, <3>2 DEF Reparse
      <4>2. unit # NoEntry
        BY DEF Parsed, NoEntry
      <4> QED BY <4>1, <4>2
    <3> QED BY <2>1, <3>1, <3>2
  <2>3. call.file \in Files
    BY <2>1 DEF Insert, Reparse, CacheInv, CallInv, Call
  <2> QED
    BY <2>2, <2>3, PutEvicts DEF TypeInv
<1> QED
  BY <1>1, TypeInvariant, CacheInvariant, PTL DEF Spec, EvictsOldestForNew
=============================================================================
