--------------------------- MODULE DiagnosticsProofs ---------------------------
(***************************************************************************)
(* Proofs about Diagnostics.tla, for any finite set of diagnostics, any    *)
(* notes and files, and any number of workers, edits and requests.         *)
(***************************************************************************)
EXTENDS Diagnostics, FunctionTheorems, FiniteSetTheorems, TLAPS

\* What tables have, and what diags have, about f.
OfFile(tables, f) == {d \in Rows(tables) : FileOf[d] = f}
Own(diags, f) == {d \in diags : FileOf[d] = f}

\* The ids have no gaps: so it is where nothing was deleted.
Dense(tables) ==
  {tables.id[d] : d \in Rows(tables)} = 1..Cardinality(Rows(tables))

\* Details refer to diagnostics, and to those they are about, unless they refer to one of
\* the given ids.
Refers(tables, ids) ==
  \A n \in Note : tables.owner[n] # 0 =>
    tables.owner[n] \in ids \/ \E d \in Rows(tables) : tables.id[d] = tables.owner[n]

Attributed(tables, ids) ==
  \A n \in Note : \A d \in Rows(tables) :
    tables.owner[n] = tables.id[d] => n \in Notes[d] \/ tables.id[d] \in ids

\* During a run, what is known of a translation unit is with the workers, for others do
\* not report about it; what they have found is merged one after the other.
OwnInv ==
  /\ merged # 0 => running /\ pending = {}
  /\ running =>
       /\ \A f \in TUnit : \A diags \in indexed[f] :
            UNION {OfFile(part[w], f) : w \in Worker} = Own(diags, f)
       /\ \A f \in TUnit : indexed[f] = {} => \A w \in Worker : OfFile(part[w], f) = {}
       /\ \A f \in pending : indexed[f] = {}
       /\ Rows(index) = UNION {Rows(part[w]) : w \in 1..merged}
  /\ Serving =>
       \A f \in TUnit : \A diags \in indexed[f] : OfFile(index, f) = Own(diags, f)

\* The workers delete nothing, so their tables are in order; and as long as only one of
\* them has found something, the index is a copy of it.
PartsInv ==
  \A w \in Worker : Dense(part[w]) /\ Refers(part[w], {}) /\ Attributed(part[w], {})

MergeInv ==
  running =>
    /\ freed = {} /\ Dense(index)
    /\ \/ \E v, w \in 1..merged : v # w /\ part[v] # Empty /\ part[w] # Empty
       \/ index = Empty /\ \A w \in 1..merged : part[w] = Empty
       \/ \E w \in 1..merged :
            index = part[w] /\ \A v \in 1..merged : v # w => part[v] = Empty

DetailsInv ==
  /\ PartsInv
  /\ MergeInv
  /\ Refers(index, freed)
  /\ ~running /\ ~mixed => Attributed(index, freed)

IInv == TypeOK /\ OwnInv /\ DetailsInv

-----------------------------------------------------------------------------
(* Tables *)

LEMMA EmptyType ==
  /\ Empty \in Tables /\ Rows(Empty) = {}
  /\ Distinct(Empty) /\ Dense(Empty)
  /\ \A ids : Refers(Empty, ids) /\ Attributed(Empty, ids)
<1>1. Empty \in Tables /\ Rows(Empty) = {}
  BY DEF Empty, Tables, Rows
<1>2. Dense(Empty)
  BY <1>1, FS_EmptySet DEF Dense
<1> QED
  BY <1>1, <1>2 DEF Empty, Distinct, Refers, Attributed

\* Tables are known by their columns.
LEMMA SameTables ==
  ASSUME NEW s \in Tables, NEW t \in Tables,
         \A d \in Diag : s.id[d] = t.id[d], \A n \in Note : s.owner[n] = t.owner[n]
  PROVE  s = t
<1>1. s.id = t.id /\ s.owner = t.owner
  BY DEF Tables
<1> QED
  BY <1>1 DEF Tables

\* A column of ids is bounded, as there are finitely many diagnostics.
LEMMA IdsBounded ==
  ASSUME NEW id \in [Diag -> Nat]
  PROVE  \E m \in Nat : \A d \in Diag : id[d] <= m
<1> DEFINE N == Cardinality(Diag)
<1>1. N \in Nat /\ Bijection(1..N, Diag) # {}
  BY DiagAssumption, FS_CardinalityType DEF ExistsBijection
<1>2. PICK f : f \in Bijection(1..N, Diag)
  BY <1>1
<1>3. /\ f \in [1..N -> Diag]
      /\ \A d \in Diag : \E i \in 1..N : f[i] = d
  BY <1>2 DEF Bijection, Injection, Surjection
<1> DEFINE Bounded(k) == \E m \in Nat : \A i \in 1..k : id[f[i]] <= m
           T == {k \in 0..N : ~Bounded(k)}
<1> HIDE DEF N
<1>4. T = {}
  <2> SUFFICES ASSUME T # {} PROVE FALSE
    OBVIOUS
  <2>1. T \subseteq Nat
    BY <1>1
  <2>2. PICK k \in T : \A j \in T : <<j, k>> \notin OpToRel(<, Nat)
    BY <2>1, WFMin, NatLessThanWellFounded, Zenon
  <2>3. \A j \in T : ~(j < k)
    BY <2>1, <2>2, Zenon DEF OpToRel
  <2>4. k # 0
    <3>1. \A i \in 1..0 : id[f[i]] <= 0
      OBVIOUS
    <3>2. Bounded(0)
      BY <3>1
    <3> QED
      BY <3>2
  <2>5. k - 1 \in 0..N /\ k - 1 < k /\ k \in 1..N
    BY <1>1, <2>4
  <2>6. PICK m \in Nat : \A i \in 1..(k - 1) : id[f[i]] <= m
    BY <2>3, <2>5
  <2>7. id[f[k]] \in Nat
    BY <1>3, <2>5
  <2>8. PICK b \in Nat : m <= b /\ id[f[k]] <= b
    <3>1. CASE m <= id[f[k]]
      BY <2>7, <3>1
    <3>2. CASE id[f[k]] <= m
      BY <2>7, <3>2
    <3> QED
      BY <2>7, <3>1, <3>2
  <2>9. \A i \in 1..k : id[f[i]] <= b
    <3> SUFFICES ASSUME NEW i \in 1..k PROVE id[f[i]] <= b
      OBVIOUS
    <3>1. CASE i = k
      BY <2>8, <3>1
    <3>2. CASE i # k
      <4>0. k \in Nat /\ k <= N
        BY <1>1, <2>5
      <4>1. i \in 1..(k - 1) /\ i \in 1..N
        BY <1>1, <3>2, <4>0
      <4>2. id[f[i]] \in Nat
        BY <1>3, <4>1
      <4> QED
        BY <2>6, <2>8, <4>1, <4>2
    <3> QED
      BY <3>1, <3>2
  <2> QED
    BY <2>9
<1>5. PICK m \in Nat : \A i \in 1..N : id[f[i]] <= m
  <2>1. N \in 0..N
    BY <1>1
  <2> QED
    BY <1>4, <2>1
<1> QED
  BY <1>3, <1>5

\* The next id is greater than all there are.
LEMMA LastIdIs ==
  ASSUME NEW tables \in Tables
  PROVE  /\ LastId(tables) \in Nat
         /\ \A d \in Diag : tables.id[d] <= LastId(tables)
         /\ LastId(tables) = 0 \/ \E d \in Rows(tables) : tables.id[d] = LastId(tables)
<1> DEFINE Ids == {0} \cup {tables.id[d] : d \in Diag}
           Bounds == {m \in Nat : \A d \in Diag : tables.id[d] <= m}
<1>1. tables.id \in [Diag -> Nat]
  BY DEF Tables
<1>2. Bounds \subseteq Nat /\ Bounds # {}
  BY <1>1, IdsBounded
<1>3. PICK m \in Bounds : \A b \in Bounds : <<b, m>> \notin OpToRel(<, Nat)
  BY <1>2, WFMin, NatLessThanWellFounded, Zenon
<1>4. \A b \in Bounds : ~(b < m)
  BY <1>2, <1>3, Zenon DEF OpToRel
<1>5. m \in Ids
  <2> SUFFICES ASSUME m \notin Ids PROVE FALSE
    OBVIOUS
  <2>1. m # 0 /\ \A d \in Diag : tables.id[d] \in Nat /\ tables.id[d] # m
    BY <1>1
  <2>2. m - 1 \in Bounds
    BY <2>1
  <2> QED
    BY <1>4, <2>2
<1>6. \E i \in Ids : \A d \in Diag : tables.id[d] <= i
  BY <1>5
<1>7. LastId(tables) \in Ids /\ \A d \in Diag : tables.id[d] <= LastId(tables)
  BY <1>6, Zenon DEF LastId
<1> QED
  BY <1>1, <1>7 DEF Rows

-----------------------------------------------------------------------------
(* Inserting *)

\* New rows come after those that are there.
LEMMA Inserted ==
  ASSUME NEW tables \in Tables, Distinct(tables),
         NEW S \in SUBSET Diag, S \cap Rows(tables) = {},
         NEW place \in [S -> Nat \ {0}], \A c, d \in S : place[c] = place[d] => c = d
  PROVE  LET t == InsertDiagnostics(tables, place)
         IN  /\ t \in Tables /\ Distinct(t)
             /\ Rows(t) = Rows(tables) \cup S
             /\ t.owner = tables.owner
             /\ \A d \in Rows(tables) : t.id[d] = tables.id[d]
             /\ \A d \in S : t.id[d] = LastId(tables) + place[d] /\ t.id[d] > LastId(tables)
<1> DEFINE t == InsertDiagnostics(tables, place)
           last == LastId(tables)
<1>1. tables.id \in [Diag -> Nat] /\ tables.owner \in [Note -> Nat] /\ DOMAIN place = S
      /\ \A d \in S : place[d] \in Nat \ {0}
  BY DEF Tables
<1>2. last \in Nat /\ \A d \in Diag : tables.id[d] <= last
  BY LastIdIs
<1>3. /\ t.owner = tables.owner
      /\ t.id = [d \in Diag |-> IF d \in S THEN last + place[d] ELSE tables.id[d]]
      /\ t = [id |-> t.id, owner |-> t.owner]
  BY <1>1 DEF InsertDiagnostics, Tables
<1> HIDE DEF last, t
<1>4. \A d \in S : t.id[d] = last + place[d] /\ t.id[d] > last /\ t.id[d] \in Nat
  BY <1>1, <1>2, <1>3
<1>5. \A d \in Diag \ S : t.id[d] = tables.id[d] /\ t.id[d] \in Nat /\ t.id[d] <= last
  BY <1>1, <1>2, <1>3
<1>6. t \in Tables
  <2>1. t.id \in [Diag -> Nat]
    BY <1>3, <1>4, <1>5
  <2> QED
    BY <1>1, <1>3, <2>1 DEF Tables
<1>7. Rows(t) = Rows(tables) \cup S
  <2>1. \A d \in Diag : t.id[d] # 0 <=> tables.id[d] # 0 \/ d \in S
    BY <1>1, <1>2, <1>4, <1>5
  <2> QED
    BY <2>1 DEF Rows
<1>8. Distinct(t)
  <2> SUFFICES ASSUME NEW c \in Rows(t), NEW d \in Rows(t), t.id[c] = t.id[d]
               PROVE  c = d
    BY DEF Distinct
  <2>1. c \in Diag /\ d \in Diag
    BY DEF Rows
  <2>2. CASE c \in S /\ d \in S
    <3>1. place[c] = place[d]
      BY <1>1, <1>2, <1>4, <2>2
    <3> QED
      BY <2>2, <3>1
  <2>3. CASE c \notin S /\ d \notin S
    BY <1>5, <1>7, <2>1, <2>3 DEF Distinct
  <2>4. CASE c \in S <=> d \notin S
    BY <1>2, <1>4, <1>5, <2>1, <2>4
  <2> QED
    BY <2>2, <2>3, <2>4
<1> QED
  BY <1>3, <1>4, <1>5, <1>6, <1>7, <1>8 DEF last, t, Rows

\* Any set of diagnostics can be counted.
LEMMA RowsFinite ==
  \A S \in SUBSET Diag : IsFiniteSet(S) /\ Cardinality(S) \in Nat
BY DiagAssumption, FS_Subset, FS_CardinalityType

\* An order puts its diagnostics on the places from one on.
LEMMA OrdersAre ==
  ASSUME NEW S \in SUBSET Diag, NEW place \in Orders(S)
  PROVE  /\ place \in [S -> 1..Cardinality(S)] /\ place \in [S -> Nat \ {0}]
         /\ \A c, d \in S : place[c] = place[d] => c = d
         /\ \A i \in 1..Cardinality(S) : \E d \in S : place[d] = i
<1> DEFINE N == Cardinality(S)
<1>1. place \in Bijection(S, 1..N)
  BY DEF Orders
<1>2. /\ place \in [S -> 1..N]
      /\ \A c, d \in S : place[c] = place[d] => c = d
      /\ \A i \in 1..N : \E d \in S : place[d] = i
  BY <1>1, Zenon DEF Bijection, Injection, IsInjective, Surjection
<1>3. place \in [S -> Nat \ {0}]
  BY <1>2, RowsFinite
<1> QED
  BY <1>2, <1>3

\* Without gaps, the greatest id is the number of rows.
LEMMA DenseLast ==
  ASSUME NEW tables \in Tables, Dense(tables)
  PROVE  LastId(tables) = Cardinality(Rows(tables))
<1> DEFINE N == Cardinality(Rows(tables))
           last == LastId(tables)
<1>1. N \in Nat
  BY RowsFinite DEF Rows
<1>2. /\ last \in Nat /\ \A d \in Diag : tables.id[d] <= last
      /\ last = 0 \/ \E d \in Rows(tables) : tables.id[d] = last
  BY LastIdIs
<1>3. {tables.id[d] : d \in Rows(tables)} = 1..N
  BY DEF Dense
<1> HIDE DEF N, last
<1>4. last <= N
  BY <1>1, <1>2, <1>3
<1>5. N <= last
  <2>1. CASE N = 0
    BY <1>2, <2>1
  <2>2. CASE N # 0
    <3>1. PICK d \in Rows(tables) : tables.id[d] = N
      BY <1>1, <1>3, <2>2
    <3> QED
      BY <1>2, <3>1 DEF Rows
  <2> QED
    BY <2>1, <2>2
<1> QED
  BY <1>1, <1>2, <1>4, <1>5 DEF N, last

\* Inserting leaves no gaps.
LEMMA InsertedDense ==
  ASSUME NEW tables \in Tables, Distinct(tables), Dense(tables),
         NEW S \in SUBSET Diag, S \cap Rows(tables) = {}, NEW place \in Orders(S)
  PROVE  Dense(InsertDiagnostics(tables, place))
<1> DEFINE t == InsertDiagnostics(tables, place)
           M == Cardinality(Rows(tables))
           N == Cardinality(S)
<1>1. /\ place \in [S -> 1..N] /\ place \in [S -> Nat \ {0}]
      /\ \A c, d \in S : place[c] = place[d] => c = d
      /\ \A i \in 1..N : \E d \in S : place[d] = i
  BY OrdersAre
<1>2. LastId(tables) = M
  BY DenseLast
<1>3. /\ Rows(t) = Rows(tables) \cup S
      /\ \A d \in Rows(tables) : t.id[d] = tables.id[d]
      /\ \A d \in S : t.id[d] = M + place[d]
  BY <1>1, <1>2, Inserted
<1>4. M \in Nat /\ N \in Nat /\ Cardinality(Rows(t)) = M + N
  <2>1. IsFiniteSet(Rows(tables)) /\ IsFiniteSet(S) /\ M \in Nat /\ N \in Nat
    BY RowsFinite DEF Rows
  <2>2. Cardinality(Rows(tables) \cap S) = 0
    BY FS_EmptySet
  <2>3. Cardinality(Rows(tables) \cup S) = M + N - Cardinality(Rows(tables) \cap S)
    BY <2>1, FS_Union
  <2> QED
    BY <1>3, <2>1, <2>2, <2>3
<1>5. {tables.id[d] : d \in Rows(tables)} = 1..M
  BY DEF Dense
<1> HIDE DEF t, M, N
<1>6. ASSUME NEW d \in Rows(t) PROVE t.id[d] \in 1..(M + N)
  <2>1. CASE d \in Rows(tables)
    <3>1. t.id[d] \in 1..M
      BY <1>3, <1>5, <2>1
    <3> QED
      BY <1>4, <3>1
  <2>2. CASE d \in S
    <3>1. place[d] \in 1..N
      BY <1>1, <2>2
    <3> QED
      BY <1>3, <1>4, <2>2, <3>1
  <2> QED
    BY <1>3, <2>1, <2>2
<1>7. ASSUME NEW i \in 1..(M + N) PROVE \E d \in Rows(t) : t.id[d] = i
  <2>1. CASE i <= M
    <3>1. i \in 1..M
      BY <1>4, <2>1
    <3>2. PICK d \in Rows(tables) : tables.id[d] = i
      BY <1>5, <3>1
    <3> QED
      BY <1>3, <3>2
  <2>2. CASE i > M
    <3>1. i - M \in 1..N
      BY <1>4, <2>2
    <3>2. PICK d \in S : place[d] = i - M
      BY <1>1, <3>1
    <3> QED
      BY <1>3, <1>4, <3>2
  <2> QED
    BY <1>4, <2>1, <2>2
<1>8. {t.id[d] : d \in Rows(t)} = 1..Cardinality(Rows(t))
  BY <1>4, <1>6, <1>7
<1> QED
  BY <1>8 DEF t, Dense

-----------------------------------------------------------------------------
(* Storing what libclang reports *)

LEMMA NotesInserted ==
  ASSUME NEW tables \in Tables, NEW owner \in [Note -> Nat]
  PROVE  LET t == InsertNotes(tables, owner)
         IN  /\ t \in Tables /\ t.id = tables.id /\ Rows(t) = Rows(tables)
             /\ \A n \in Note : t.owner[n] = IF tables.owner[n] = 0 THEN owner[n]
                                             ELSE tables.owner[n]
<1> DEFINE t == InsertNotes(tables, owner)
<1>1. tables.id \in [Diag -> Nat] /\ tables.owner \in [Note -> Nat]
  BY DEF Tables
<1>2. /\ t.id = tables.id
      /\ t.owner = [n \in Note |-> IF tables.owner[n] = 0 THEN owner[n] ELSE tables.owner[n]]
      /\ t = [id |-> t.id, owner |-> t.owner]
  BY DEF InsertNotes, Tables
<1> HIDE DEF t
<1>3. t.owner \in [Note -> Nat]
  BY <1>1, <1>2
<1> QED
  BY <1>1, <1>2, <1>3 DEF t, Tables, Rows

LEMMA LeastOf ==
  ASSUME NEW T, T \subseteq Nat, T # {}
  PROVE  \E i \in T : \A j \in T : i <= j
<1>1. PICK i \in T : \A j \in T : <<j, i>> \notin OpToRel(<, Nat)
  BY WFMin, NatLessThanWellFounded, Zenon
<1>2. \A j \in T : ~(j < i)
  BY <1>1, Zenon DEF OpToRel
<1> QED
  BY <1>2

\* Of the new diagnostics that have a note, one comes first.
LEMMA FirstHaving ==
  ASSUME NEW S, NEW place \in [S -> Nat], NEW H, H \subseteq S, H # {}
  PROVE  \E d \in H : \A c \in H : place[d] <= place[c]
<1> DEFINE places == {place[d] : d \in H}
<1>1. places \subseteq Nat /\ places # {}
  OBVIOUS
<1>2. PICK i \in places : \A j \in places : i <= j
  BY <1>1, LeastOf
<1>3. PICK d \in H : place[d] = i
  BY <1>2
<1>4. \A c \in H : place[c] \in places
  OBVIOUS
<1> QED
  BY <1>2, <1>3, <1>4

\* A note gets the id of a diagnostic that has it.
LEMMA StoredNotes ==
  ASSUME NEW tables \in Tables, Distinct(tables),
         NEW S \in SUBSET Diag, S \cap Rows(tables) = {}, NEW place \in Orders(S)
  PROVE  LET inserted == InsertDiagnostics(tables, place)
             t == Store(tables, place)
         IN  /\ t \in Tables /\ t.id = inserted.id /\ Rows(t) = Rows(inserted)
             /\ \A n \in Note :
                  \/ t.owner[n] = tables.owner[n]
                  \/ \E d \in S : n \in Notes[d] /\ t.owner[n] = t.id[d]
<1> DEFINE inserted == InsertDiagnostics(tables, place)
           Having(n) == {d \in DOMAIN place : n \in Notes[d]}
           First(n) == CHOOSE d \in Having(n) : \A c \in Having(n) : place[d] <= place[c]
           owner == [n \in Note |-> IF Having(n) = {} THEN 0 ELSE inserted.id[First(n)]]
           t == Store(tables, place)
<1>1. t = InsertNotes(inserted, owner)
  BY DEF Store
<1>2. place \in [S -> Nat] /\ DOMAIN place = S
  <2>1. place \in [S -> Nat \ {0}]
    BY OrdersAre
  <2> QED
    BY <2>1
<1>3. /\ inserted \in Tables /\ inserted.owner = tables.owner
      /\ Rows(inserted) = Rows(tables) \cup S
  <2> HIDE DEF Having, First, owner, t
  <2>1. place \in [S -> Nat \ {0}] /\ \A c, d \in S : place[c] = place[d] => c = d
    BY OrdersAre
  <2>2. InsertDiagnostics(tables, place) \in Tables
    BY <2>1, Inserted
  <2>3. InsertDiagnostics(tables, place).owner = tables.owner
    BY <2>1, Inserted
  <2>4. Rows(InsertDiagnostics(tables, place)) = Rows(tables) \cup S
    BY <2>1, Inserted
  <2> QED
    BY <2>2, <2>3, <2>4
<1>4. ASSUME NEW n \in Note, Having(n) # {}
      PROVE  First(n) \in S /\ n \in Notes[First(n)]
  <2>1. \E d \in Having(n) : \A c \in Having(n) : place[d] <= place[c]
    <3>1. Having(n) \subseteq S
      BY <1>2
    <3> HIDE DEF Having
    <3> QED
      BY <1>2, <1>4, <3>1, FirstHaving
  <2>2. First(n) \in Having(n)
    <3> HIDE DEF Having
    <3> QED
      BY <2>1
  <2> QED
    BY <1>2, <2>2
<1>5. \A n \in Note :
        \/ Having(n) = {} /\ owner[n] = 0
        \/ First(n) \in S /\ n \in Notes[First(n)] /\ owner[n] = inserted.id[First(n)]
  BY <1>4
<1> HIDE DEF inserted, Having, First, owner, t
<1>6. inserted.id \in [Diag -> Nat]
  BY <1>3 DEF Tables
<1>7. owner \in [Note -> Nat]
  <2>1. \A n \in Note : owner[n] \in Nat
    BY <1>5, <1>6
  <2>2. DOMAIN owner = Note /\ owner = [n \in Note |-> owner[n]]
    BY DEF owner
  <2> QED
    BY <2>1, <2>2
<1>8. /\ t \in Tables /\ t.id = inserted.id /\ Rows(t) = Rows(inserted)
      /\ \A n \in Note : t.owner[n] = IF inserted.owner[n] = 0 THEN owner[n]
                                      ELSE inserted.owner[n]
  BY <1>1, <1>3, <1>7, NotesInserted
<1>9. ASSUME NEW n \in Note
      PROVE  \/ t.owner[n] = tables.owner[n]
             \/ \E d \in S : n \in Notes[d] /\ t.owner[n] = t.id[d]
  BY <1>3, <1>5, <1>8
<1> QED
  BY <1>8, <1>9 DEF inserted, t

\* Storing adds what is reported, and keeps the tables in the order they are in.
LEMMA StoredTables ==
  ASSUME NEW tables \in Tables, Distinct(tables), NEW diags \in SUBSET Diag,
         NEW t \in Stored(tables, diags), NEW ids
  PROVE  /\ t \in Tables /\ Distinct(t)
         /\ Rows(t) = Rows(tables) \cup diags
         /\ Dense(tables) => Dense(t)
         /\ Refers(tables, ids) => Refers(t, ids)
         /\ Refers(tables, ids) /\ Attributed(tables, ids) => Attributed(t, ids)
<1> DEFINE S == diags \ Rows(tables)
<1>1. PICK place \in Orders(S) : t = Store(tables, place)
  BY DEF Stored
<1> DEFINE inserted == InsertDiagnostics(tables, place)
<1>2. S \in SUBSET Diag /\ S \cap Rows(tables) = {} /\ Rows(tables) \subseteq Diag
  BY DEF Rows
<1>3. /\ inserted \in Tables /\ Distinct(inserted)
      /\ Rows(inserted) = Rows(tables) \cup S
      /\ \A d \in Rows(tables) : inserted.id[d] = tables.id[d]
      /\ \A d \in S : inserted.id[d] > LastId(tables)
  <2> HIDE DEF S
  <2>1. place \in [S -> Nat \ {0}] /\ \A c, d \in S : place[c] = place[d] => c = d
    BY <1>1, <1>2, OrdersAre
  <2> QED
    BY <1>2, <2>1, Inserted
<1>4. /\ t \in Tables /\ t.id = inserted.id /\ Rows(t) = Rows(inserted)
      /\ \A n \in Note :
           \/ t.owner[n] = tables.owner[n]
           \/ \E d \in S : n \in Notes[d] /\ t.owner[n] = t.id[d]
  BY <1>1, <1>2, StoredNotes
<1>5. Dense(tables) => Dense(inserted)
  BY <1>2, InsertedDense
<1> HIDE DEF S, inserted
<1>6. Rows(t) = Rows(tables) \cup diags
  BY <1>3, <1>4 DEF S
<1>7. Distinct(t) /\ (Dense(tables) => Dense(t))
  BY <1>3, <1>4, <1>5 DEF Distinct, Dense
<1>8. ASSUME Refers(tables, ids) PROVE Refers(t, ids)
  <2> SUFFICES ASSUME NEW n \in Note, t.owner[n] # 0
               PROVE  t.owner[n] \in ids \/ \E d \in Rows(t) : t.id[d] = t.owner[n]
    BY DEF Refers
  <2>1. CASE t.owner[n] = tables.owner[n]
    <3>1. tables.owner[n] \in ids \/ \E d \in Rows(tables) : tables.id[d] = tables.owner[n]
      BY <1>8, <2>1 DEF Refers
    <3> QED
      BY <1>3, <1>4, <2>1, <3>1
  <2>2. CASE \E d \in S : n \in Notes[d] /\ t.owner[n] = t.id[d]
    BY <1>3, <1>4, <2>2
  <2> QED
    BY <1>4, <2>1, <2>2
<1>9. ASSUME Refers(tables, ids), Attributed(tables, ids) PROVE Attributed(t, ids)
  <2> SUFFICES ASSUME NEW n \in Note, NEW d \in Rows(t), t.owner[n] = t.id[d],
                      t.id[d] \notin ids
               PROVE  n \in Notes[d]
    BY DEF Attributed
  <2>1. CASE \E c \in S : n \in Notes[c] /\ t.owner[n] = t.id[c]
    <3>1. PICK c \in S : n \in Notes[c] /\ t.owner[n] = t.id[c]
      BY <2>1
    <3>2. c = d
      BY <1>3, <1>4, <1>7, <3>1 DEF Distinct
    <3> QED
      BY <3>1, <3>2
  <2>2. CASE t.owner[n] = tables.owner[n]
    <3>1. t.id[d] # 0 /\ d \in Diag
      BY DEF Rows
    <3>2. PICK c \in Rows(tables) : tables.id[c] = tables.owner[n]
      BY <1>9, <2>2, <3>1 DEF Refers
    <3>3. t.id[c] = t.id[d] /\ c \in Rows(t)
      BY <1>3, <1>4, <2>2, <3>2
    <3>4. c = d
      BY <1>7, <3>3 DEF Distinct
    <3> QED
      BY <1>3, <1>4, <1>9, <2>2, <3>2, <3>4 DEF Attributed
  <2> QED
    BY <1>4, <2>1, <2>2
<1> QED
  BY <1>4, <1>6, <1>7, <1>8, <1>9
-----------------------------------------------------------------------------
(* Copying the rows of a worker *)

\* Ids that differ put rows in an order.
LEMMA RowOrderIs ==
  ASSUME NEW from \in Tables, Distinct(from), NEW S \in SUBSET Rows(from)
  PROVE  RowOrder(from, S) \in Orders(S)
<1> DEFINE R == RowOrder(from, S)
           N == Cardinality(S)
           Below(d) == {c \in S : from.id[c] <= from.id[d]}
<1>1. /\ S \in SUBSET Diag /\ IsFiniteSet(S) /\ N \in Nat
      /\ \A d \in S : from.id[d] \in Nat
  BY RowsFinite DEF Rows, Tables
<1>2. /\ R = [d \in S |-> Cardinality(Below(d))]
      /\ \A d \in S : Below(d) \in SUBSET S /\ d \in Below(d)
      /\ \A d \in S : R[d] = Cardinality(Below(d))
  BY <1>1 DEF RowOrder
<1>3. \A d \in S : IsFiniteSet(Below(d)) /\ Cardinality(Below(d)) \in Nat
  BY <1>1, <1>2, FS_Subset, FS_CardinalityType
<1>4. ASSUME NEW c \in S, NEW d \in S, from.id[c] < from.id[d]
      PROVE  R[c] < R[d]
  <2>1. Below(c) \in SUBSET Below(d)
    BY <1>1, <1>4
  <2>2. d \notin Below(c) /\ d \in Below(d)
    BY <1>1, <1>4
  <2> HIDE DEF Below, R
  <2>3. Cardinality(Below(c)) <= Cardinality(Below(d))
    BY <1>3, <2>1, FS_Subset
  <2>4. Cardinality(Below(c)) # Cardinality(Below(d))
    BY <1>3, <2>1, <2>2, FS_Subset
  <2> QED
    BY <1>2, <1>3, <2>3, <2>4
<1> HIDE DEF Below, R, N
<1>5. ASSUME NEW d \in S PROVE R[d] \in 1..N
  <2>1. Cardinality(Below(d)) <= N
    BY <1>1, <1>2, FS_Subset DEF N
  <2>2. Cardinality(Below(d)) # 0
    BY <1>2, <1>3, FS_EmptySet
  <2> QED
    BY <1>1, <1>2, <1>3, <2>1, <2>2
<1>6. ASSUME NEW c \in S, NEW d \in S, R[c] = R[d] PROVE c = d
  <2>1. from.id[c] \in Nat /\ from.id[d] \in Nat /\ R[c] \in Nat /\ R[d] \in Nat
    BY <1>1, <1>2, <1>3
  <2>2. from.id[c] = from.id[d]
    BY <1>4, <1>6, <2>1
  <2> QED
    BY <2>2 DEF Distinct
<1>7. R \in Injection(S, 1..N)
  <2>1. R \in [S -> 1..N]
    BY <1>2, <1>5
  <2> QED
    BY <1>6, <2>1, Zenon DEF Injection, IsInjective
<1>8. IsFiniteSet(1..N) /\ Cardinality(1..N) = N
  BY <1>1, FS_Interval
<1>9. R \in Surjection(S, 1..N)
  BY <1>7, <1>8, FS_Injection DEF N
<1> QED
  BY <1>7, <1>9 DEF Bijection, Orders, R, N

\* The index gets the rows of the worker, and refers to them if it and the worker have
\* no gaps in their ids.
LEMMA Copied ==
  ASSUME NEW into \in Tables, NEW from \in Tables, Distinct(into), Distinct(from)
  PROVE  LET t == Copy(into, from)
         IN  /\ t \in Tables /\ Distinct(t)
             /\ Rows(t) = Rows(into) \cup Rows(from)
             /\ Dense(into) => Dense(t)
             /\ Dense(into) /\ Dense(from) /\ Refers(into, {}) /\ Refers(from, {}) => Refers(t, {})
<1> DEFINE S == Rows(from) \ Rows(into)
           place == RowOrder(from, S)
           inserted == InsertDiagnostics(into, place)
           t == Copy(into, from)
<1>1. /\ S \in SUBSET Rows(from) /\ S \in SUBSET Diag /\ S \cap Rows(into) = {}
      /\ Rows(into) \subseteq Diag /\ Rows(from) \in SUBSET Diag
  BY DEF Rows
<1>2. t = InsertNotes(inserted, from.owner)
  BY DEF Copy
<1> HIDE DEF S, t
<1>3. place \in Orders(S)
  BY <1>1, RowOrderIs
<1> HIDE DEF place
<1>4. place \in [S -> Nat \ {0}] /\ \A c, d \in S : place[c] = place[d] => c = d
  BY <1>1, <1>3, OrdersAre
<1>5. /\ inserted \in Tables /\ Distinct(inserted)
      /\ Rows(inserted) = Rows(into) \cup S /\ inserted.owner = into.owner
      /\ \A d \in Rows(into) : inserted.id[d] = into.id[d]
  <2>1. InsertDiagnostics(into, place) \in Tables /\ Distinct(InsertDiagnostics(into, place))
    BY <1>1, <1>4, Inserted
  <2>2. /\ Rows(InsertDiagnostics(into, place)) = Rows(into) \cup S
        /\ InsertDiagnostics(into, place).owner = into.owner
    BY <1>1, <1>4, Inserted
  <2>3. \A d \in Rows(into) : InsertDiagnostics(into, place).id[d] = into.id[d]
    BY <1>1, <1>4, Inserted
  <2> QED
    BY <2>1, <2>2, <2>3
<1>6. ASSUME Dense(into) PROVE Dense(inserted)
  BY <1>1, <1>3, <1>6, InsertedDense
<1> HIDE DEF inserted
<1>7. from.owner \in [Note -> Nat]
  BY DEF Tables
<1>8. /\ t \in Tables /\ t.id = inserted.id /\ Rows(t) = Rows(inserted)
      /\ \A n \in Note : t.owner[n] = IF inserted.owner[n] = 0 THEN from.owner[n]
                                      ELSE inserted.owner[n]
  BY <1>2, <1>5, <1>7, NotesInserted
<1>9. Rows(t) = Rows(into) \cup Rows(from)
  BY <1>5, <1>8 DEF S
<1>10. Distinct(t) /\ (Dense(into) => Dense(t))
  <2>1. Distinct(t)
    BY <1>5, <1>8 DEF Distinct
  <2>2. Dense(inserted) => Dense(t)
    BY <1>8, Zenon DEF Dense
  <2> QED
    BY <1>6, <2>1, <2>2
<1>11. ASSUME Dense(into), Dense(from), Refers(into, {}), Refers(from, {}) PROVE Refers(t, {})
  <2> SUFFICES ASSUME NEW n \in Note, t.owner[n] # 0
               PROVE  \E d \in Rows(t) : t.id[d] = t.owner[n]
    BY DEF Refers
  <2>1. CASE into.owner[n] # 0
    <3>1. t.owner[n] = into.owner[n]
      BY <1>5, <1>8, <2>1
    <3>2. PICK d \in Rows(into) : into.id[d] = into.owner[n]
      BY <1>11, <2>1 DEF Refers
    <3> QED
      BY <1>5, <1>8, <3>1, <3>2
  <2>2. CASE into.owner[n] = 0
    <3>1. t.owner[n] = from.owner[n]
      BY <1>5, <1>8, <2>2
    <3>2. PICK d \in Rows(from) : from.id[d] = from.owner[n]
      BY <1>11, <3>1 DEF Refers
    <3>3. t.owner[n] \in 1..Cardinality(Rows(from))
      BY <1>11, <3>1, <3>2 DEF Dense
    <3>4. /\ Cardinality(Rows(from)) \in Nat /\ Cardinality(Rows(t)) \in Nat
          /\ Cardinality(Rows(from)) <= Cardinality(Rows(t))
      <4>1. IsFiniteSet(Rows(t)) /\ Rows(from) \in SUBSET Rows(t)
        BY <1>9, RowsFinite DEF Rows
      <4>2. Cardinality(Rows(from)) \in Nat /\ Cardinality(Rows(t)) \in Nat
        BY RowsFinite DEF Rows
      <4> QED
        BY <4>1, <4>2, FS_Subset
    <3>5. t.owner[n] \in 1..Cardinality(Rows(t))
      BY <3>3, <3>4
    <3> QED
      BY <1>10, <1>11, <3>5 DEF Dense
  <2> QED
    BY <2>1, <2>2
<1> QED
  BY <1>8, <1>9, <1>10, <1>11 DEF t

\* A worker that has found nothing adds nothing.
LEMMA CopiedEmpty ==
  ASSUME NEW t \in Tables
  PROVE  Copy(t, Empty) = t
<1> DEFINE S == Rows(Empty) \ Rows(t)
           place == RowOrder(Empty, S)
           inserted == InsertDiagnostics(t, place)
<1>1. S = {}
  BY EmptyType
<1>2. DOMAIN place = {}
  BY <1>1 DEF RowOrder
<1>3. t.id \in [Diag -> Nat] /\ t.owner \in [Note -> Nat] /\ t = [id |-> t.id, owner |-> t.owner]
  BY DEF Tables
<1> HIDE DEF place
<1>4. inserted.id = [d \in Diag |-> t.id[d]] /\ inserted = [t EXCEPT !.id = inserted.id]
  BY <1>2, <1>3 DEF InsertDiagnostics
<1>5. inserted = t
  BY <1>3, <1>4
<1>6. Copy(t, Empty) = InsertNotes(inserted, Empty.owner)
  BY DEF Copy, place
<1> HIDE DEF inserted
<1>7. Empty.owner \in [Note -> Nat] /\ \A n \in Note : Empty.owner[n] = 0
  BY DEF Empty
<1>8. /\ Copy(t, Empty) \in Tables /\ Copy(t, Empty).id = t.id
      /\ \A n \in Note : Copy(t, Empty).owner[n] = IF t.owner[n] = 0 THEN 0 ELSE t.owner[n]
  BY <1>5, <1>6, <1>7, NotesInserted
<1> QED
  BY <1>8, SameTables

\* Without gaps, an id is the place of its row.
LEMMA DensePlaces ==
  ASSUME NEW from \in Tables, Distinct(from), Dense(from), NEW d \in Rows(from)
  PROVE  RowOrder(from, Rows(from))[d] = from.id[d]
<1> DEFINE Below == {c \in Rows(from) : from.id[c] <= from.id[d]}
           k == from.id[d]
           id == [c \in Below |-> from.id[c]]
           M == Cardinality(Rows(from))
<1>1. /\ {from.id[c] : c \in Rows(from)} = 1..M
      /\ M \in Nat
  BY RowsFinite DEF Dense, Rows
<1>2. RowOrder(from, Rows(from))[d] = Cardinality(Below)
  BY DEF RowOrder
<1> HIDE DEF M
<1>3. k \in 1..M
  BY <1>1
<1>4. IsFiniteSet(1..k) /\ Cardinality(1..k) = k
  <2> HIDE DEF k
  <2>1. 1 \in Int /\ k \in Int /\ k >= 1
    BY <1>1, <1>3
  <2> QED
    BY <2>1, FS_Interval
<1>5. id \in [Below -> 1..k]
  <2> SUFFICES ASSUME NEW c \in Below PROVE from.id[c] \in 1..k
    OBVIOUS
  <2>1. c \in Rows(from) /\ from.id[c] <= k
    OBVIOUS
  <2> HIDE DEF Below, k
  <2>2. from.id[c] \in 1..M
    BY <1>1, <2>1
  <2> QED
    BY <1>1, <1>3, <2>1, <2>2
<1>6. \A b, c \in Below : id[b] = id[c] => b = c
  BY DEF Distinct
<1>7. \A i \in 1..k : \E c \in Below : id[c] = i
  <2> SUFFICES ASSUME NEW i \in 1..k PROVE \E c \in Below : id[c] = i
    OBVIOUS
  <2>1. i \in 1..M /\ i <= k
    BY <1>1, <1>3
  <2>2. PICK c \in Rows(from) : from.id[c] = i
    BY <1>1, <2>1
  <2> QED
    BY <2>1, <2>2
<1> HIDE DEF Below, k, id
<1>8. id \in Injection(Below, 1..k) /\ id \in Surjection(Below, 1..k)
  BY <1>5, <1>6, <1>7, Zenon DEF Injection, IsInjective, Surjection
<1>9. Cardinality(Below) = k
  BY <1>4, <1>8, FS_Injection
<1> QED
  BY <1>2, <1>9 DEF k

\* The first worker's rows keep their ids.
LEMMA CopiedIntoEmpty ==
  ASSUME NEW from \in Tables, Distinct(from), Dense(from)
  PROVE  Copy(Empty, from) = from
<1> DEFINE S == Rows(from)
           place == RowOrder(from, S)
           inserted == InsertDiagnostics(Empty, place)
<1>1. Rows(from) \ Rows(Empty) = S /\ Empty \in Tables
  BY EmptyType
<1>2. DOMAIN place = S /\ \A d \in S : place[d] = from.id[d]
  BY DensePlaces DEF RowOrder
<1>3. LastId(Empty) = 0
  <2>1. LastId(Empty) = Cardinality(Rows(Empty))
    BY EmptyType, DenseLast
  <2> QED
    BY <2>1, EmptyType, FS_EmptySet
<1>4. Copy(Empty, from) = InsertNotes(inserted, from.owner)
  BY <1>1 DEF Copy
<1>5. from.id \in [Diag -> Nat] /\ from.owner \in [Note -> Nat]
  BY DEF Tables
<1> HIDE DEF place
<1>6. inserted \in Tables /\ inserted.owner = Empty.owner
      /\ \A d \in Diag : inserted.id[d] = from.id[d]
  <2>1. \A d \in Diag : (IF d \in DOMAIN place THEN LastId(Empty) + place[d] ELSE Empty.id[d])
                        = from.id[d]
    BY <1>2, <1>3, <1>5 DEF Rows, Empty
  <2> DEFINE ids == [d \in Diag |-> IF d \in DOMAIN place THEN LastId(Empty) + place[d]
                                    ELSE Empty.id[d]]
  <2>2. ids \in [Diag -> Nat] /\ \A d \in Diag : ids[d] = from.id[d]
    BY <1>5, <2>1
  <2>3. inserted = [Empty EXCEPT !.id = ids]
    BY DEF InsertDiagnostics
  <2> HIDE DEF ids, inserted
  <2> QED
    BY <2>2, <2>3 DEF Empty, Tables
<1> HIDE DEF inserted
<1>7. \A n \in Note : inserted.owner[n] = 0
  BY <1>6 DEF Empty
<1>8. /\ Copy(Empty, from) \in Tables /\ Copy(Empty, from).id = inserted.id
      /\ \A n \in Note : Copy(Empty, from).owner[n] = IF inserted.owner[n] = 0 THEN from.owner[n]
                                                      ELSE inserted.owner[n]
  BY <1>4, <1>5, <1>6, NotesInserted
<1> QED
  BY <1>6, <1>7, <1>8, SameTables

-----------------------------------------------------------------------------
(* Deleting *)

LEMMA Deleted ==
  ASSUME NEW tables \in Tables, Distinct(tables), NEW f
  PROVE  LET t == Delete(tables, f)
         IN  /\ t \in Tables /\ Distinct(t)
             /\ Rows(t) = {d \in Rows(tables) : FileOf[d] # f}
             /\ \A d \in Rows(t) : t.id[d] = tables.id[d]
             /\ t.owner = tables.owner
<1> DEFINE t == Delete(tables, f)
<1>1. tables.id \in [Diag -> Nat] /\ tables.owner \in [Note -> Nat]
  BY DEF Tables
<1>2. /\ t.id = [d \in Diag |-> IF FileOf[d] = f THEN 0 ELSE tables.id[d]]
      /\ t.owner = tables.owner
      /\ t = [id |-> t.id, owner |-> t.owner]
  BY DEF Delete, Tables
<1> HIDE DEF t
<1>3. t.id \in [Diag -> Nat]
  BY <1>1, <1>2
<1>4. t \in Tables
  BY <1>1, <1>2, <1>3 DEF Tables
<1>5. Rows(t) = {d \in Rows(tables) : FileOf[d] # f}
  BY <1>2 DEF Rows
<1>6. \A d \in Rows(t) : d \in Rows(tables) /\ t.id[d] = tables.id[d]
  BY <1>2, <1>5 DEF Rows
<1>7. Distinct(t)
  BY <1>6 DEF Distinct
<1> QED
  BY <1>2, <1>4, <1>5, <1>6, <1>7 DEF t

LEMMA DeletedAll ==
  ASSUME NEW tables \in Tables
  PROVE  LET t == DeleteAll(tables)
         IN  /\ t \in Tables /\ Distinct(t) /\ Rows(t) = {}
             /\ t.owner = tables.owner
<1> DEFINE t == DeleteAll(tables)
<1>1. tables.id \in [Diag -> Nat] /\ tables.owner \in [Note -> Nat]
  BY DEF Tables
<1>2. /\ t.id = [d \in Diag |-> 0] /\ t.owner = tables.owner
      /\ t = [id |-> t.id, owner |-> t.owner]
  BY DEF DeleteAll, Tables
<1> HIDE DEF t
<1>3. t \in Tables /\ Rows(t) = {}
  BY <1>1, <1>2 DEF Tables, Rows
<1> QED
  BY <1>2, <1>3 DEF t, Distinct

\* Nothing is reported about a translation unit but by itself.
LEMMA OthersReport ==
  ASSUME NEW f \in File, NEW diags \in SUBSET About(f), NEW g \in TUnit, f # g
  PROVE  Own(diags, g) = {}
BY FilesAssumption DEF About, Own
-----------------------------------------------------------------------------
(* The actions *)

LEMMA InitIInv == Init => IInv
<1> SUFFICES ASSUME Init PROVE IInv
  OBVIOUS
<1>1. TypeOK
  <2>1. index \in Tables /\ Distinct(index) /\ part \in [Worker -> Tables]
        /\ \A w \in Worker : Distinct(part[w])
    BY EmptyType DEF Init
  <2>2. edits \in 0..MaxEdits /\ calls \in 0..MaxCalls /\ merged \in 0..Workers
    BY WorkersAssumption, BoundsAssumption DEF Init
  <2> QED
    BY <2>1, <2>2 DEF Init, TypeOK
<1>2. OwnInv
  BY DEF Init, OwnInv, Serving
<1>3. DetailsInv
  BY EmptyType DEF Init, DetailsInv, PartsInv, MergeInv
<1> QED
  BY <1>1, <1>2, <1>3 DEF IInv

LEMMA EditKeeps == ASSUME IInv, NEW f \in File, Edit(f) PROVE IInv'
<1>1. PICK diags \in SUBSET About(f) : reported' = [reported EXCEPT ![f] = diags]
  BY DEF Edit
<1>2. UNCHANGED <<calls, exists, index, running, pending, part, merged, indexed, freed, mixed>>
  BY DEF Edit
<1>3. TypeOK'
  <2>1. /\ reported' \in [File -> SUBSET Diag] /\ \A g \in File : reported'[g] \subseteq About(g)
    BY <1>1 DEF IInv, TypeOK, About
  <2>2. edits' \in 0..MaxEdits
    BY BoundsAssumption DEF Edit, IInv, TypeOK
  <2> QED
    BY <1>2, <2>1, <2>2 DEF IInv, TypeOK
<1>4. OwnInv'
  BY <1>2 DEF IInv, OwnInv, Serving
<1>5. DetailsInv'
  BY <1>2 DEF IInv, DetailsInv, PartsInv, MergeInv
<1> QED
  BY <1>3, <1>4, <1>5 DEF IInv

LEMMA StartKeeps == ASSUME IInv, Start PROVE IInv'
<1>1. \A w \in Worker : part'[w] = Empty
  BY DEF Start
<1>2. /\ running' /\ exists' /\ merged' = 0 /\ pending' = File /\ freed' = {} /\ index' = Empty
      /\ \A f \in File : indexed'[f] = {}
  BY DEF Start
<1>3. TypeOK'
  <2>1. index' \in Tables /\ part' \in [Worker -> Tables]
    BY EmptyType DEF Start
  <2>2. Distinct(index') /\ \A w \in Worker : Distinct(part'[w])
    BY <1>1, <1>2, EmptyType
  <2>3. indexed' = [f \in File |-> {}] /\ mixed' = FALSE /\ running' = TRUE /\ exists' = TRUE
        /\ freed' = {} /\ UNCHANGED <<reported, edits, calls>>
    BY DEF Start
  <2>4. /\ indexed' \in [File -> SUBSET SUBSET Diag]
        /\ \A f \in File : \A diags \in indexed'[f] :
             diags \subseteq About(f) /\ indexed'[f] = {diags}
    BY <2>3
  <2>5. merged' \in 0..Workers /\ pending' \subseteq File
    BY <1>2, WorkersAssumption
  <2> QED
    BY <2>1, <2>2, <2>3, <2>4, <2>5 DEF IInv, TypeOK
<1>4. OwnInv'
  <2>1. \A f : OfFile(Empty, f) = {}
    BY EmptyType DEF OfFile
  <2>2. Rows(index') = UNION {Rows(part'[w]) : w \in 1..merged'}
    BY <1>2, EmptyType
  <2>3. TUnit \subseteq File
    BY DEF File
  <2> QED
    BY <1>1, <1>2, <2>1, <2>2, <2>3 DEF OwnInv, Serving
<1>5. PartsInv'
  BY <1>1, EmptyType DEF PartsInv
<1>6. MergeInv'
  BY <1>2, EmptyType DEF MergeInv
<1>7. DetailsInv'
  BY <1>2, <1>5, <1>6, EmptyType DEF DetailsInv
<1> QED
  BY <1>3, <1>4, <1>7 DEF IInv

LEMMA WorkOnKeeps == ASSUME IInv, NEW w \in Worker, NEW f \in File, WorkOn(w, f) PROVE IInv'
<1>1. /\ running /\ running' = running /\ f \in pending /\ pending' = pending \ {f}
      /\ UNCHANGED <<reported, edits, calls, exists, index, running, merged, freed, mixed>>
  BY DEF WorkOn
<1>2. merged = 0 /\ 1..merged = {}
  <2>1. merged = 0
    BY <1>1 DEF IInv, OwnInv
  <2> QED
    BY <2>1
<1>3. MergeInv' /\ Refers(index, freed)' /\ ~Serving'
  BY <1>1, <1>2 DEF IInv, DetailsInv, MergeInv, Serving
<1>4. CASE UNCHANGED <<part, indexed>>
  <2>1. TypeOK'
    BY <1>1, <1>4 DEF IInv, TypeOK
  <2>2. OwnInv'
    BY <1>1, <1>2, <1>3, <1>4 DEF IInv, OwnInv
  <2>3. DetailsInv'
    BY <1>1, <1>3, <1>4 DEF IInv, DetailsInv, PartsInv
  <2> QED
    BY <2>1, <2>2, <2>3 DEF IInv
<1>5. CASE \E stored \in Stored(part[w], reported[f]) :
             /\ part' = [part EXCEPT ![w] = stored]
             /\ indexed' = [indexed EXCEPT ![f] = {reported[f]}]
  <2>1. PICK stored \in Stored(part[w], reported[f]) :
          /\ part' = [part EXCEPT ![w] = stored]
          /\ indexed' = [indexed EXCEPT ![f] = {reported[f]}]
    BY <1>5
  <2>2. /\ part \in [Worker -> Tables] /\ part[w] \in Tables /\ Distinct(part[w])
        /\ indexed \in [File -> SUBSET SUBSET Diag]
        /\ reported[f] \in SUBSET Diag /\ reported[f] \in SUBSET About(f)
    BY DEF IInv, TypeOK
  <2>3. Dense(part[w]) /\ Refers(part[w], {}) /\ Attributed(part[w], {})
    BY DEF IInv, DetailsInv, PartsInv
  <2>4. /\ stored \in Tables /\ Distinct(stored)
        /\ Rows(stored) = Rows(part[w]) \cup reported[f]
        /\ Dense(stored) /\ Refers(stored, {}) /\ Attributed(stored, {})
    BY <2>2, <2>3, StoredTables
  <2>5. \A v \in Worker : part'[v] = IF v = w THEN stored ELSE part[v]
    BY <2>1, <2>2
  <2>6. \A g \in File : indexed'[g] = IF g = f THEN {reported[f]} ELSE indexed[g]
    BY <2>1, <2>2
  <2>7. TypeOK'
    <3>1. part' \in [Worker -> Tables] /\ \A v \in Worker : Distinct(part'[v])
      BY <2>1, <2>2, <2>4, <2>5 DEF IInv, TypeOK
    <3>2. /\ indexed' \in [File -> SUBSET SUBSET Diag]
          /\ \A g \in File : \A diags \in indexed'[g] :
               diags \subseteq About(g) /\ indexed'[g] = {diags}
      BY <2>1, <2>2, <2>6 DEF IInv, TypeOK
    <3>3. Distinct(index') /\ pending' \subseteq File
      BY <1>1 DEF IInv, TypeOK
    <3> QED
      BY <1>1, <3>1, <3>2, <3>3 DEF IInv, TypeOK
  <2>8. OwnInv'
    <3>1. ASSUME NEW g \in TUnit
          PROVE  /\ \A diags \in indexed'[g] :
                      UNION {OfFile(part'[v], g) : v \in Worker} = Own(diags, g)
                 /\ indexed'[g] = {} => \A v \in Worker : OfFile(part'[v], g) = {}
      <4>1. OfFile(stored, g) = OfFile(part[w], g) \cup Own(reported[f], g)
        BY <2>4 DEF OfFile, Own
      <4>2. g \in File
        BY DEF File
      <4>3. CASE g = f
        <5>1. \A v \in Worker : OfFile(part[v], g) = {}
          BY <1>1, <4>3 DEF IInv, OwnInv
        <5>2. \A v \in Worker : OfFile(part'[v], g) = IF v = w THEN Own(reported[f], g) ELSE {}
          BY <2>5, <4>1, <5>1
        <5>3. UNION {OfFile(part'[v], g) : v \in Worker} = Own(reported[f], g)
          BY <5>2
        <5> QED
          BY <2>6, <4>2, <4>3, <5>3
      <4>4. CASE g # f
        <5>1. Own(reported[f], g) = {}
          BY <2>2, <4>4, OthersReport
        <5>2. \A v \in Worker : OfFile(part'[v], g) = OfFile(part[v], g)
          BY <2>5, <4>1, <5>1
        <5>3. UNION {OfFile(part'[v], g) : v \in Worker} = UNION {OfFile(part[v], g) : v \in Worker}
          BY <5>2
        <5>4. indexed'[g] = indexed[g]
          BY <2>6, <4>2, <4>4
        <5> QED
          BY <1>1, <5>2, <5>3, <5>4 DEF IInv, OwnInv
      <4> QED
        BY <4>3, <4>4
    <3>2. \A g \in pending' : indexed'[g] = {}
      BY <1>1, <2>6 DEF IInv, TypeOK, OwnInv
    <3>3. Rows(index') = UNION {Rows(part'[v]) : v \in 1..merged'}
      BY <1>1, <1>2 DEF IInv, OwnInv
    <3> QED
      BY <1>1, <1>2, <1>3, <3>1, <3>2, <3>3 DEF OwnInv
  <2>9. PartsInv'
    BY <2>4, <2>5 DEF IInv, DetailsInv, PartsInv
  <2>10. DetailsInv'
    BY <1>1, <1>3, <2>9 DEF DetailsInv
  <2> QED
    BY <2>7, <2>8, <2>10 DEF IInv
<1> QED
  BY <1>4, <1>5 DEF WorkOn

LEMMA MergeKeeps == ASSUME IInv, NEW w \in Worker, Merge(w) PROVE IInv'
<1>1. /\ running /\ pending = {} /\ w = merged + 1 /\ merged' = w
      /\ index' = Copy(index, part[w])
      /\ UNCHANGED <<reported, edits, calls, exists, running, pending, part, indexed,
                     freed, mixed>>
  BY DEF Merge
<1>2. /\ index \in Tables /\ part[w] \in Tables /\ Distinct(index) /\ Distinct(part[w])
      /\ merged \in Nat
  BY DEF IInv, TypeOK
<1>3. /\ w \in 1..Workers /\ 1..merged' = 1..merged \cup {w} /\ w \notin 1..merged
      /\ 1..merged' \subseteq Worker /\ w \in 1..merged'
  BY <1>1, <1>2, WorkersAssumption DEF Worker
<1>4. /\ freed = {} /\ Dense(index) /\ Refers(index, {})
      /\ Dense(part[w]) /\ Refers(part[w], {}) /\ Attributed(part[w], {})
  BY <1>1 DEF IInv, DetailsInv, PartsInv, MergeInv
<1>5. /\ index' \in Tables /\ Distinct(index') /\ Rows(index') = Rows(index) \cup Rows(part[w])
      /\ Dense(index') /\ Refers(index', {})
  BY <1>1, <1>2, <1>4, Copied
<1>6. TypeOK'
  <2>1. merged' \in 0..Workers
    BY <1>1, <1>3
  <2> QED
    BY <1>1, <1>5, <2>1 DEF IInv, TypeOK
<1>7. OwnInv'
  <2>1. Rows(index) = UNION {Rows(part[v]) : v \in 1..merged}
    BY <1>1 DEF IInv, OwnInv
  <2>2. Rows(index') = UNION {Rows(part'[v]) : v \in 1..merged'}
    BY <1>1, <1>3, <1>5, <2>1
  <2>3. ~Serving'
    BY <1>1 DEF Serving
  <2> QED
    BY <1>1, <2>2, <2>3 DEF IInv, OwnInv
<1>8. MergeInv'
  <2>1. CASE \E u, v \in 1..merged : u # v /\ part[u] # Empty /\ part[v] # Empty
    BY <1>1, <1>3, <1>4, <1>5, <2>1 DEF MergeInv
  <2>2. CASE index = Empty /\ \A v \in 1..merged : part[v] = Empty
    <3>1. index' = part[w]
      BY <1>1, <1>2, <1>4, <2>2, CopiedIntoEmpty
    <3>2. w \in 1..merged' /\ index' = part'[w] /\ \A v \in 1..merged' : v # w => part'[v] = Empty
      BY <1>1, <1>3, <2>2, <3>1
    <3> QED
      BY <1>1, <1>4, <1>5, <3>2 DEF MergeInv
  <2>3. CASE \E u \in 1..merged :
               index = part[u] /\ \A v \in 1..merged : v # u => part[v] = Empty
    <3>1. PICK u \in 1..merged :
            index = part[u] /\ \A v \in 1..merged : v # u => part[v] = Empty
      BY <2>3
    <3>2. CASE part[w] = Empty
      <4>1. index' = part'[u]
        BY <1>1, <1>2, <3>1, <3>2, CopiedEmpty
      <4>2. u \in 1..merged' /\ \A v \in 1..merged' : v # u => part'[v] = Empty
        BY <1>1, <1>3, <3>1, <3>2
      <4> QED
        BY <1>1, <1>4, <1>5, <4>1, <4>2 DEF MergeInv
    <3>3. CASE part[u] = Empty
      <4>1. index' = part'[w]
        BY <1>1, <1>2, <1>4, <3>1, <3>3, CopiedIntoEmpty
      <4>2. \A v \in 1..merged' : v # w => part'[v] = Empty
        BY <1>1, <1>3, <3>1, <3>3
      <4> QED
        BY <1>1, <1>3, <1>4, <1>5, <4>1, <4>2 DEF MergeInv
    <3>4. CASE part[u] # Empty /\ part[w] # Empty
      <4>1. u \in 1..merged' /\ w \in 1..merged' /\ u # w
        BY <1>3, <3>1
      <4> QED
        BY <1>1, <1>4, <1>5, <3>4, <4>1 DEF MergeInv
    <3> QED
      BY <3>2, <3>3, <3>4
  <2> QED
    BY <1>1, <2>1, <2>2, <2>3 DEF IInv, DetailsInv, MergeInv
<1>9. DetailsInv'
  BY <1>1, <1>4, <1>5, <1>8 DEF IInv, DetailsInv, PartsInv
<1> QED
  BY <1>6, <1>7, <1>9 DEF IInv

LEMMA RemoveKeeps == ASSUME IInv, Remove PROVE IInv'
<1>1. /\ running /\ ~running' /\ running' = FALSE /\ merged = Workers /\ merged' = 0
      /\ mixed' = (\E v, w \in Worker : v # w /\ part[v] # Empty /\ part[w] # Empty)
      /\ UNCHANGED <<reported, edits, calls, exists, index, pending, indexed, freed>>
  BY DEF Remove
<1>2. part' = [w \in Worker |-> Empty]
  BY DEF Remove
<1>3. TypeOK'
  <2>1. part' \in [Worker -> Tables] /\ \A w \in Worker : Distinct(part'[w])
    BY <1>2, EmptyType
  <2>2. merged' \in 0..Workers /\ mixed' \in BOOLEAN
    BY <1>1, WorkersAssumption
  <2>3. Distinct(index')
    BY <1>1 DEF IInv, TypeOK
  <2> QED
    BY <1>1, <2>1, <2>2, <2>3 DEF IInv, TypeOK
<1>4. OwnInv'
  <2> SUFFICES ASSUME NEW f \in TUnit, NEW diags \in indexed[f]
               PROVE  OfFile(index, f) = Own(diags, f)
    BY <1>1 DEF OwnInv, Serving
  <2>1. UNION {OfFile(part[w], f) : w \in Worker} = Own(diags, f)
    BY <1>1 DEF IInv, OwnInv
  <2>2. Rows(index) = UNION {Rows(part[w]) : w \in Worker}
    BY <1>1 DEF IInv, OwnInv, Worker
  <2>3. OfFile(index, f) = UNION {OfFile(part[w], f) : w \in Worker}
    BY <2>2 DEF OfFile
  <2> QED
    BY <2>1, <2>3
<1>5. PartsInv'
  BY <1>2, EmptyType DEF PartsInv
<1>6. ASSUME ~mixed' PROVE Attributed(index, {})
  <2>1. CASE index = Empty
    BY <2>1, EmptyType
  <2>2. CASE \E w \in Worker : index = part[w]
    BY <2>2 DEF IInv, DetailsInv, PartsInv
  <2> QED
    BY <1>1, <1>6, <2>1, <2>2 DEF IInv, DetailsInv, MergeInv, Worker
<1>7. DetailsInv'
  BY <1>1, <1>5, <1>6 DEF IInv, DetailsInv, MergeInv
<1> QED
  BY <1>3, <1>4, <1>7 DEF IInv

\* What a request changes while no directory is indexed.
LEMMA CallKeeps ==
  ASSUME IInv, Serving, calls < MaxCalls, calls' = calls + 1,
         UNCHANGED <<reported, edits, running, pending, part, merged, mixed>>,
         exists' \in BOOLEAN, freed' \in SUBSET Nat,
         index' \in Tables, Distinct(index'), indexed' \in [File -> SUBSET SUBSET Diag],
         \A g \in File : \A diags \in indexed'[g] : diags \subseteq About(g) /\ indexed'[g] = {diags},
         \A g \in TUnit : \A diags \in indexed'[g] : OfFile(index', g) = Own(diags, g),
         Refers(index', freed'), ~mixed => Attributed(index', freed')
  PROVE  IInv'
<1>1. TypeOK'
  <2>1. calls' \in 0..MaxCalls
    BY BoundsAssumption DEF IInv, TypeOK
  <2>2. \A w \in Worker : Distinct(part'[w])
    BY DEF IInv, TypeOK
  <2> QED
    BY <2>1, <2>2 DEF IInv, TypeOK
<1>2. ~running /\ ~running'
  BY DEF Serving
<1>3. OwnInv'
  BY <1>2 DEF IInv, OwnInv
<1>4. DetailsInv'
  BY <1>2 DEF IInv, DetailsInv, PartsInv, MergeInv
<1> QED
  BY <1>1, <1>3, <1>4 DEF IInv

\* Deleting a file's diagnostics leaves those of the others, and frees the ids that the
\* details of the deleted ones refer to.
LEMMA DeletedOwn ==
  ASSUME IInv, Serving, NEW f \in File
  PROVE  LET t == Delete(index, f)
             ids == freed \cup {index.id[d] : d \in {d \in Rows(index) : FileOf[d] = f}}
         IN  /\ t \in Tables /\ Distinct(t) /\ ids \in SUBSET Nat
             /\ OfFile(t, f) = {}
             /\ \A g \in TUnit \ {f} : OfFile(t, g) = OfFile(index, g)
             /\ Refers(t, ids) /\ (~mixed => Attributed(t, ids))
<1> DEFINE t == Delete(index, f)
           ids == freed \cup {index.id[d] : d \in {d \in Rows(index) : FileOf[d] = f}}
<1>1. /\ index \in Tables /\ Distinct(index) /\ Refers(index, freed)
      /\ ~mixed => Attributed(index, freed)
  BY DEF IInv, TypeOK, DetailsInv, Serving
<1>2. /\ t \in Tables /\ Distinct(t) /\ Rows(t) = {d \in Rows(index) : FileOf[d] # f}
      /\ \A d \in Rows(t) : t.id[d] = index.id[d]
      /\ t.owner = index.owner
  BY <1>1, Deleted
<1>3. ids \in SUBSET Nat
  BY <1>1 DEF IInv, TypeOK, Tables, Rows
<1> HIDE DEF t
<1>4. OfFile(t, f) = {} /\ \A g \in TUnit \ {f} : OfFile(t, g) = OfFile(index, g)
  BY <1>2 DEF OfFile
<1>5. Refers(t, ids)
  <2> SUFFICES ASSUME NEW n \in Note, t.owner[n] # 0, t.owner[n] \notin ids
               PROVE  \E d \in Rows(t) : t.id[d] = t.owner[n]
    BY DEF Refers
  <2>1. PICK d \in Rows(index) : index.id[d] = index.owner[n]
    BY <1>1, <1>2 DEF Refers
  <2>2. d \in Rows(t)
    BY <1>2, <2>1
  <2> QED
    BY <1>2, <2>1, <2>2
<1>6. ASSUME ~mixed PROVE Attributed(t, ids)
  BY <1>1, <1>2, <1>6 DEF Attributed
<1> QED
  BY <1>2, <1>3, <1>4, <1>5, <1>6 DEF t

LEMMA DropSingleFileKeeps == ASSUME IInv, NEW f \in File, DropSingleFile(f) PROVE IInv'
<1>1. /\ Serving /\ calls < MaxCalls /\ calls' = calls + 1
      /\ index' = Delete(index, f)
      /\ freed' = freed \cup {index.id[d] : d \in {d \in Rows(index) : FileOf[d] = f}}
      /\ indexed' = [indexed EXCEPT ![f] = {}]
      /\ UNCHANGED <<reported, edits, exists, running, pending, part, merged, mixed>>
  BY DEF DropSingleFile, Call, Free
<1>2. /\ index' \in Tables /\ Distinct(index') /\ OfFile(index', f) = {}
      /\ \A g \in TUnit \ {f} : OfFile(index', g) = OfFile(index, g)
      /\ Refers(index', freed')
      /\ ~mixed => Attributed(index', freed')
  BY <1>1, DeletedOwn
<1>3. exists' \in BOOLEAN /\ freed' \in SUBSET Nat
  BY <1>1, DeletedOwn DEF IInv, TypeOK
<1>4. /\ indexed' \in [File -> SUBSET SUBSET Diag]
      /\ \A g \in File : indexed'[g] = IF g = f THEN {} ELSE indexed[g]
  BY <1>1 DEF IInv, TypeOK
<1>5. \A g \in File : \A diags \in indexed'[g] : diags \subseteq About(g) /\ indexed'[g] = {diags}
  BY <1>4 DEF IInv, TypeOK
<1>6. \A g \in TUnit : \A diags \in indexed'[g] : OfFile(index', g) = Own(diags, g)
  BY <1>1, <1>2, <1>4 DEF IInv, OwnInv, File
<1>7. /\ Serving /\ calls < MaxCalls /\ calls' = calls + 1
      /\ UNCHANGED <<reported, edits, running, pending, part, merged, mixed>>
      /\ index' \in Tables /\ Distinct(index')
      /\ Refers(index', freed')
      /\ ~mixed => Attributed(index', freed')
  BY <1>1, <1>2
<1>8. indexed' \in [File -> SUBSET SUBSET Diag]
  BY <1>4
<1> QED
  BY <1>3, <1>5, <1>6, <1>7, <1>8, CallKeeps

LEMMA RunOnSingleFileKeeps == ASSUME IInv, NEW f \in File, RunOnSingleFile(f) PROVE IInv'
<1>1. /\ Serving /\ calls < MaxCalls /\ calls' = calls + 1
      /\ freed' = freed \cup {index.id[d] : d \in {d \in Rows(index) : FileOf[d] = f}}
      /\ UNCHANGED <<reported, edits, exists, running, pending, part, merged, mixed>>
  BY DEF RunOnSingleFile, Call, Free
<1> DEFINE rest == Delete(index, f)
<1>2. /\ rest \in Tables /\ Distinct(rest) /\ OfFile(rest, f) = {}
      /\ \A g \in TUnit \ {f} : OfFile(rest, g) = OfFile(index, g)
      /\ Refers(rest, freed')
      /\ ~mixed => Attributed(rest, freed')
  BY <1>1, DeletedOwn
<1> HIDE DEF rest
<1>3. exists' \in BOOLEAN /\ freed' \in SUBSET Nat
  BY <1>1, DeletedOwn DEF IInv, TypeOK
<1>4. indexed \in [File -> SUBSET SUBSET Diag]
      /\ \A g \in File : \A diags \in indexed[g] : diags \subseteq About(g) /\ indexed[g] = {diags}
  BY DEF IInv, TypeOK
<1>5. CASE index' = Delete(index, f) /\ indexed' = [indexed EXCEPT ![f] = {}]
  <2>1. index' = rest
    BY <1>5 DEF rest
  <2>2. /\ indexed' \in [File -> SUBSET SUBSET Diag]
        /\ \A g \in File : indexed'[g] = IF g = f THEN {} ELSE indexed[g]
    BY <1>4, <1>5
  <2>3. \A g \in File : \A diags \in indexed'[g] : diags \subseteq About(g) /\ indexed'[g] = {diags}
    BY <1>4, <2>2
  <2>4. \A g \in TUnit : \A diags \in indexed'[g] : OfFile(index', g) = Own(diags, g)
    BY <1>1, <1>2, <2>1, <2>2 DEF IInv, OwnInv, File
  <2>5. /\ Serving /\ calls < MaxCalls /\ calls' = calls + 1
        /\ UNCHANGED <<reported, edits, running, pending, part, merged, mixed>>
        /\ index' \in Tables /\ Distinct(index')
        /\ Refers(index', freed')
        /\ ~mixed => Attributed(index', freed')
    BY <1>1, <1>2, <2>1
  <2>6. indexed' \in [File -> SUBSET SUBSET Diag]
    BY <2>2
  <2> QED
    BY <1>3, <2>3, <2>4, <2>5, <2>6, CallKeeps
<1>6. CASE /\ index' \in Stored(Delete(index, f), reported[f])
           /\ indexed' = [indexed EXCEPT ![f] = {reported[f]}]
  <2>1. index' \in Stored(rest, reported[f])
    BY <1>6 DEF rest
  <2>2. reported[f] \in SUBSET Diag /\ reported[f] \in SUBSET About(f)
    BY DEF IInv, TypeOK
  <2>3. /\ index' \in Tables /\ Distinct(index') /\ Rows(index') = Rows(rest) \cup reported[f]
        /\ Refers(rest, freed') => Refers(index', freed')
        /\ Refers(rest, freed') /\ Attributed(rest, freed') => Attributed(index', freed')
    BY <1>2, <2>1, <2>2, StoredTables
  <2>4. /\ indexed' \in [File -> SUBSET SUBSET Diag]
        /\ \A g \in File : indexed'[g] = IF g = f THEN {reported[f]} ELSE indexed[g]
    BY <1>4, <1>6, <2>2
  <2>5. \A g \in File : \A diags \in indexed'[g] : diags \subseteq About(g) /\ indexed'[g] = {diags}
    BY <1>4, <2>2, <2>4
  <2>6. ASSUME NEW g \in TUnit, NEW diags \in indexed'[g]
        PROVE  OfFile(index', g) = Own(diags, g)
    <3>1. OfFile(index', g) = OfFile(rest, g) \cup Own(reported[f], g)
      BY <2>3 DEF OfFile, Own
    <3>2. CASE g = f
      BY <1>2, <2>4, <2>6, <3>1, <3>2 DEF File
    <3>3. CASE g # f
      <4>1. Own(reported[f], g) = {}
        BY <2>2, <3>3, OthersReport
      <4> QED
        BY <1>1, <1>2, <2>4, <2>6, <3>1, <3>3, <4>1 DEF IInv, OwnInv, File
    <3> QED
      BY <3>2, <3>3
  <2>7. /\ Serving /\ calls < MaxCalls /\ calls' = calls + 1
        /\ UNCHANGED <<reported, edits, running, pending, part, merged, mixed>>
        /\ index' \in Tables /\ Distinct(index')
        /\ Refers(index', freed')
        /\ ~mixed => Attributed(index', freed')
    BY <1>1, <1>2, <2>3
  <2>8. indexed' \in [File -> SUBSET SUBSET Diag]
    BY <2>4
  <2> QED
    BY <1>3, <2>5, <2>6, <2>7, <2>8, CallKeeps
<1> QED
  BY <1>5, <1>6 DEF RunOnSingleFile

LEMMA DropAllKeeps ==
  ASSUME IInv, NEW delete_file_from_disk \in BOOLEAN, DropAll(delete_file_from_disk)
  PROVE  IInv'
<1>1. /\ Serving /\ calls < MaxCalls /\ calls' = calls + 1
      /\ exists' = ~delete_file_from_disk
      /\ index' = IF delete_file_from_disk THEN Empty ELSE DeleteAll(index)
      /\ freed' = freed \cup {index.id[d] : d \in Rows(index)}
      /\ indexed' = [f \in File |-> {}]
      /\ UNCHANGED <<reported, edits, running, pending, part, merged, mixed>>
  BY DEF DropAll, Call, Free
<1>2. /\ index \in Tables /\ exists' \in BOOLEAN /\ freed' \in SUBSET Nat
      /\ Refers(index, freed)
  <2>1. index \in Tables /\ exists' \in BOOLEAN /\ freed \in SUBSET Nat /\ Refers(index, freed)
    BY <1>1 DEF IInv, TypeOK, DetailsInv
  <2>2. \A d \in Rows(index) : index.id[d] \in Nat
    BY <2>1 DEF Tables, Rows
  <2>3. freed' \in SUBSET Nat
    BY <1>1, <2>1, <2>2
  <2> QED
    BY <2>1, <2>3
<1>3. /\ index' \in Tables /\ Distinct(index') /\ Rows(index') = {}
      /\ index' = Empty \/ index'.owner = index.owner
  <2>1. CASE delete_file_from_disk
    BY <1>1, <2>1, EmptyType
  <2>2. CASE ~delete_file_from_disk
    BY <1>1, <1>2, <2>2, DeletedAll
  <2> QED
    BY <2>1, <2>2
<1>4. Refers(index', freed') /\ Attributed(index', freed')
  <2>1. CASE index' = Empty
    BY <2>1, EmptyType
  <2>2. CASE index'.owner = index.owner
    <3>1. \A n \in Note : index'.owner[n] # 0 => index'.owner[n] \in freed'
      BY <1>1, <1>2, <2>2 DEF Refers
    <3> QED
      BY <1>3, <3>1 DEF Refers, Attributed
  <2> QED
    BY <1>3, <2>1, <2>2
<1>5. /\ indexed' \in [File -> SUBSET SUBSET Diag]
      /\ \A f \in File : \A diags \in indexed'[f] : diags \subseteq About(f) /\ indexed'[f] = {diags}
      /\ \A f \in TUnit : \A diags \in indexed'[f] : OfFile(index', f) = Own(diags, f)
  BY <1>1 DEF File
<1> QED
  BY <1>1, <1>2, <1>3, <1>4, <1>5, CallKeeps

LEMMA NextIInv == IInv /\ [Next]_vars => IInv'
<1> SUFFICES ASSUME IInv, [Next]_vars PROVE IInv'
  OBVIOUS
<1>1. CASE Start
  BY <1>1, StartKeeps
<1>2. CASE Remove
  BY <1>2, RemoveKeeps
<1>3. CASE \E f \in File : Edit(f) \/ RunOnSingleFile(f) \/ DropSingleFile(f)
  BY <1>3, EditKeeps, RunOnSingleFileKeeps, DropSingleFileKeeps
<1>4. CASE \E w \in Worker : Merge(w) \/ \E f \in File : WorkOn(w, f)
  BY <1>4, MergeKeeps, WorkOnKeeps
<1>5. CASE \E delete_file_from_disk \in BOOLEAN : DropAll(delete_file_from_disk)
  BY <1>5, DropAllKeeps
<1>6. CASE UNCHANGED vars
  <2>1. TypeOK'
    BY <1>6 DEF IInv, TypeOK, vars
  <2>2. OwnInv'
    BY <1>6 DEF IInv, OwnInv, Serving, vars
  <2>3. DetailsInv'
    BY <1>6 DEF IInv, DetailsInv, PartsInv, MergeInv, vars
  <2> QED
    BY <2>1, <2>2, <2>3 DEF IInv
<1> QED
  BY <1>1, <1>2, <1>3, <1>4, <1>5, <1>6 DEF Next

-----------------------------------------------------------------------------
(* The theorems *)

\* The inductive invariant.
THEOREM Invariant == Spec => []IInv
BY InitIInv, NextIInv, PTL DEF Spec

\* The variables have their types, and the tables a primary key: sqlite's ids, of which
\* the last may be given twice, are never those of two diagnostics that are there.
THEOREM TypeCorrect == Spec => []TypeOK
<1>1. IInv => TypeOK
  BY DEF IInv
<1> QED
  BY <1>1, Invariant, PTL

\* What the index lists about a translation unit is what libclang reported when it was
\* last indexed (store_tunit_diagnostics, delete_entry, and the merge of the workers).
THEOREM OwnDiagnosticsAreCurrent == Spec => []OwnDiagnosticsCurrent
<1>1. IInv => OwnDiagnosticsCurrent
  BY DEF IInv, OwnInv, OwnDiagnosticsCurrent, OfFile, Own
<1> QED
  BY <1>1, Invariant, PTL

\* The reference of the details, which sqlite does not enforce, holds although
\* copy_all_entries_from leaves the ids of the worker in it, for what is copied has no
\* gaps; delete_diagnostics_entry breaks it for ids it has freed, and for no others.
THEOREM DetailsAlwaysRefer == Spec => []DetailsRefer
<1>1. IInv => DetailsRefer
  BY DEF IInv, DetailsInv, DetailsRefer, Refers
<1> QED
  BY <1>1, Invariant, PTL

\* The details that fetch_all_diagnostics lists under a diagnostic are its own, if one
\* worker found them all and its id is not one that was freed.
THEOREM DetailsAreAttributed == Spec => []DetailsAttributed
<1>1. IInv => DetailsAttributed
  <2> SUFFICES ASSUME IInv, Serving, ~mixed, NEW d \in Rows(index), index.id[d] \notin freed,
                      NEW n \in Listed(d)
               PROVE  n \in Notes[d]
    BY DEF DetailsAttributed
  <2>1. Attributed(index, freed) /\ n \in Note /\ index.owner[n] = index.id[d]
    BY DEF IInv, DetailsInv, Serving, Listed
  <2> QED
    BY <2>1 DEF Attributed
<1> QED
  BY <1>1, Invariant, PTL
=============================================================================
