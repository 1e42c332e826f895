------------------------------ MODULE ProjectProofs ------------------------------
(***************************************************************************)
(* Proofs about Configuration.tla, for any number of directories, changes  *)
(* on the disk and starts of code completion; that Project.tla, where      *)
(* requests for compiler arguments come in between, implements it; and     *)
(* about the arguments themselves (CompilerArgs.tla), for any units,       *)
(* headers, options and object files.                                      *)
(*                                                                         *)
(*   1. the construction of the server and its services                    *)
(*   2. lists: filtering, flattening and rewriting them piece by piece     *)
(*   3. the arguments that come out of a command, real or made up          *)
(*   4. the parser: its invariant, and what the answers to a parse are     *)
(***************************************************************************)
EXTENDS Project, SequenceTheorems, WellFoundedInduction, TLAPS

(* 1. The construction of the server and its services *)

\* The constructor's place and the service it is at: the last service is the one that
\* is served without a load, and what has not been constructed has no database.
ProgressInv ==
  /\ pc = "load" => reader < 4
  /\ pc = "serve" => reader = 4
  /\ pc \in {"discover", "auto_configure", "configure", "retry"} => reader = 1
  /\ pc # "serve" => \A i \in reader..4 : loaded[Readers[i]] = NoDatabase

\* The database the server found, as it is on the disk.
Current ==
  [path |-> configuration, version |-> version[configuration.dir][configuration.kind]]

\* The services so far found and loaded the server's database. That of code completion
\* is loaded when it was started, and not if that failed.
SameInv ==
  /\ configuration \in Path /\ configuration = Discovered
  /\ \A i \in 1..4 :
       /\ i < reader \/ (i = reader /\ pc # "find") => found[Readers[i]] = configuration
       /\ i < reader => loaded[Readers[i]] = Current
  /\ loaded[Readers[4]] \in {NoDatabase, Current}

\* As long as nobody changes the disk.
UnchangedInv ==
  changes = 0 =>
    /\ pc = "auto_configure" => Discovered = NoPath
    /\ pc = "shutdown" => failed \/ Discovered = NoPath
    /\ pc \in {"find", "load", "serve"} => SameInv
    /\ pc = "raised" => ~BuildDirKnown

\* The inductive invariant of the construction.
IInv == TypeOK /\ ProgressInv /\ UnchangedInv

-----------------------------------------------------------------------------
\* The services, by their place.
LEMMA ReadersAre ==
  /\ Readers[1] = "source_code_model" /\ Readers[2] = "clang_tidy"
  /\ Readers[3] = "disassembly" /\ Readers[4] = "code_completion"
  /\ Reader = {"source_code_model", "clang_tidy", "disassembly", "code_completion"}
  /\ \A i \in 1..4 : Readers[i] \in Reader
  /\ \A i, j \in 1..4 : Readers[i] = Readers[j] => i = j
<1>1. /\ Readers[1] = "source_code_model" /\ Readers[2] = "clang_tidy"
      /\ Readers[3] = "disassembly" /\ Readers[4] = "code_completion"
  BY DEF Readers
<1>2. \A i \in 1..4 : i = 1 \/ i = 2 \/ i = 3 \/ i = 4
  OBVIOUS
<1>3. Reader = {Readers[1], Readers[2], Readers[3], Readers[4]}
  BY <1>2 DEF Reader
<1> QED
  BY <1>1, <1>2, <1>3

\* Every service has its place.
LEMMA ReaderHasPlace == \A s \in Reader : \E i \in 1..4 : s = Readers[i]
BY DEF Reader

\* A set of directories that is not empty has a first one.
LEMMA FirstDir ==
  ASSUME NEW S, S \subseteq Dir, S # {}
  PROVE  \E d \in S : \A e \in S : d <= e
<1>1. S \subseteq Nat
  BY DirsAssumption DEF Dir
<1>2. PICK d \in S : \A e \in S : <<e, d>> \notin OpToRel(<, Nat)
  BY <1>1, WFMin, NatLessThanWellFounded, Zenon
<1>3. \A e \in S : ~(e < d)
  BY <1>1, <1>2, Zenon DEF OpToRel
<1> QED
  BY <1>1, <1>3

\* A path is not the absence of one.
LEMMA PathType ==
  /\ \A d \in Dir, k \in Kind : [dir |-> d, kind |-> k] \in Path
  /\ \A p \in Path : p.dir \in Dir /\ p.kind \in Kind /\ p # NoPath
  /\ NoPath.kind \notin Kind
<1>1. \A d \in Dir : d # 0
  BY DirsAssumption DEF Dir
<1> QED
  BY <1>1 DEF Path, NoPath, Kind

\* What discovery returns is there.
LEMMA DiscoveredType ==
  ASSUME TypeOK
  PROVE  \/ Discovered = NoPath
         \/ Discovered \in Path /\ Present(Discovered.dir, Discovered.kind)
<1> DEFINE candidates == {d \in paths : \E k \in Kind : Present(d, k)}
           first == CHOOSE d \in candidates : \A e \in candidates : d <= e
<1>1. candidates \subseteq Dir
  BY DEF TypeOK
<1>2. CASE candidates = {}
  BY <1>2 DEF Discovered
<1>3. CASE candidates # {}
  <2>1. \E d \in candidates : \A e \in candidates : d <= e
    BY <1>1, <1>3, FirstDir
  <2>2. first \in candidates
    <3> HIDE DEF candidates
    <3> QED
      BY <2>1
  <2>3. first \in Dir /\ \E k \in Kind : Present(first, k)
    BY <1>1, <2>2
  <2>4. Discovered = [dir |-> first,
                      kind |-> IF Present(first, "json") THEN "json" ELSE "flags"]
    BY <1>3 DEF Discovered
  <2> HIDE DEF candidates, first
  <2>5. CASE Present(first, "json")
    <3>1. Discovered = [dir |-> first, kind |-> "json"]
      BY <2>4, <2>5
    <3> QED
      BY <2>3, <2>5, <3>1, PathType DEF Kind
  <2>6. CASE ~Present(first, "json")
    <3>1. Discovered = [dir |-> first, kind |-> "flags"]
      BY <2>4, <2>6
    <3>2. Present(first, "flags")
      BY <2>3, <2>6 DEF Kind
    <3> QED
      BY <2>3, <3>1, <3>2, PathType DEF Kind
  <2> QED
    BY <2>5, <2>6
<1> QED
  BY <1>2, <1>3

\* What is discovered depends on the paths and the disk only.
LEMMA DiscoveredStays ==
  paths' = paths /\ version' = version => Discovered' = Discovered
BY DEF Discovered, Present

\* A loaded database has the path the service found.
LEMMA LoadedType ==
  ASSUME TypeOK, NEW s \in Reader
  PROVE  /\ Loaded(s) \in Database \cup {NoDatabase}
         /\ Loaded(s) # NoDatabase => Loaded(s).path = found[s]
<1>1. CASE found[s] = NoPath
  BY <1>1 DEF Loaded
<1>2. CASE found[s] # NoPath
  <2>1. found[s] \in Path
    BY <1>2 DEF TypeOK
  <2>2. version[found[s].dir] \in [Kind -> Nat]
    BY <2>1, PathType DEF TypeOK
  <2>3. version[found[s].dir][found[s].kind] \in Nat
    BY <2>1, <2>2, PathType
  <2>4. Loaded(s) = [path |-> found[s], version |-> version[found[s].dir][found[s].kind]]
    BY <1>2 DEF Loaded
  <2> QED
    BY <2>1, <2>3, <2>4 DEF Database
<1> QED
  BY <1>1, <1>2

-----------------------------------------------------------------------------
\* The construction begins with nothing found and nothing loaded.
LEMMA InitIInv == Init => IInv
<1> SUFFICES ASSUME Init
             PROVE  IInv
  OBVIOUS
<1>1. \A d \in Dir : version[d] \in [Kind -> Nat]
  BY DEF Init
<1>2. version \in [Dir -> [Kind -> Nat]]
  BY <1>1 DEF Init
<1>3. TypeOK
  <2>1. /\ found \in [Reader -> Path \cup {NoPath}]
        /\ loaded \in [Reader -> Database \cup {NoDatabase}]
        /\ \A s \in Reader : loaded[s] = NoDatabase
    BY DEF Init
  <2>2. /\ type \in Types /\ target \in BOOLEAN /\ configure_cmd \in BOOLEAN
        /\ paths \subseteq Dir /\ configuration \in Path \cup {NoPath} /\ failed \in BOOLEAN
        /\ pc = "discover"
    BY Zenon DEF Init
  <2>3. changes \in Nat /\ reader \in 1..4
    <3>1. changes = 0 /\ reader = 1
      BY Zenon DEF Init
    <3> QED
      BY <3>1
  <2> QED
    BY <1>2, <2>1, <2>2, <2>3 DEF TypeOK
<1>4. ProgressInv
  BY ReadersAre DEF Init, ProgressInv
<1>5. UnchangedInv
  BY DEF Init, UnchangedInv
<1> QED
  BY <1>3, <1>4, <1>5 DEF IInv

\* What is found first is what the services are going to find.
LEMMA DiscoverKeepsIInv ==
  ASSUME IInv, Discover
  PROVE  IInv'
<1> USE DEF IInv, Discover, config, disk
<1>1. Discovered' = Discovered
  BY DiscoveredStays
<1>2. configuration' \in Path \cup {NoPath}
  BY DiscoveredType
<1>3. TypeOK'
  BY <1>2 DEF TypeOK
<1>4. ProgressInv'
  BY DEF ProgressInv
<1>5. UnchangedInv'
  <2>1. CASE Discovered = NoPath
    BY <1>1, <2>1 DEF UnchangedInv
  <2>2. CASE Discovered # NoPath
    <3>1. loaded[Readers[4]] = NoDatabase /\ reader = 1
      BY DEF ProgressInv
    <3>2. SameInv'
      BY <1>1, <2>2, <3>1, DiscoveredType DEF SameInv
    <3> QED
      BY <2>2, <3>2 DEF UnchangedInv
  <2> QED
    BY <2>1, <2>2
<1> QED
  BY <1>3, <1>4, <1>5

\* Where nothing was found, the project is configured or the server bails out.
LEMMA AutoConfigureKeepsIInv ==
  ASSUME IInv, AutoConfigure
  PROVE  IInv'
<1> USE DEF IInv, AutoConfigure, config, disk
<1>1. Discovered' = Discovered
  BY DiscoveredStays
<1>2. pc' \in {"configure", "shutdown"}
  OBVIOUS
<1>3. TypeOK'
  BY <1>2 DEF TypeOK
<1>4. ProgressInv'
  BY <1>2 DEF ProgressInv
<1>5. UnchangedInv'
  BY <1>1, <1>2 DEF UnchangedInv
<1> QED
  BY <1>3, <1>4, <1>5

\* The configure command may make files; it is not a change by somebody else.
LEMMA ConfigureKeepsIInv ==
  ASSUME IInv, NEW made \in SUBSET Kind, NEW ok \in BOOLEAN, Configure(made, ok)
  PROVE  IInv'
<1> USE DEF IInv, Configure, config
<1>1. pc' \in {"retry", "shutdown"} /\ (pc' = "shutdown" => failed')
  OBVIOUS
<1>2. version' \in [Dir -> [Kind -> Nat]]
  <2>1. version[BuildDir] \in [Kind -> Nat] /\ BuildDir \in Dir
    BY DirsAssumption DEF TypeOK, BuildDir, Dir
  <2>2. [k \in Kind |-> IF k \in made /\ version[BuildDir][k] = 0
                          THEN 1 ELSE version[BuildDir][k]] \in [Kind -> Nat]
    BY <2>1
  <2> QED
    BY <2>1, <2>2 DEF TypeOK
<1>3. TypeOK'
  BY <1>1, <1>2 DEF TypeOK
<1>4. ProgressInv'
  BY <1>1 DEF ProgressInv
<1>5. UnchangedInv'
  BY <1>1 DEF UnchangedInv
<1> QED
  BY <1>3, <1>4, <1>5

\* After the configure command the server looks once more.
LEMMA RetryKeepsIInv ==
  ASSUME IInv, Retry
  PROVE  IInv'
<1> USE DEF IInv, Retry, config, disk
<1>1. Discovered' = Discovered
  BY DiscoveredStays
<1>2. configuration' \in Path \cup {NoPath}
  BY DiscoveredType
<1>3. TypeOK'
  BY <1>2 DEF TypeOK
<1>4. ProgressInv'
  BY DEF ProgressInv
<1>5. UnchangedInv'
  <2>1. CASE Discovered = NoPath
    BY <1>1, <2>1 DEF UnchangedInv
  <2>2. CASE Discovered # NoPath
    <3>1. loaded[Readers[4]] = NoDatabase /\ reader = 1
      BY DEF ProgressInv
    <3>2. SameInv'
      BY <1>1, <2>2, <3>1, DiscoveredType DEF SameInv
    <3> QED
      BY <2>2, <3>2 DEF UnchangedInv
  <2> QED
    BY <2>1, <2>2
<1> QED
  BY <1>3, <1>4, <1>5

\* A service that looks for itself finds what the server found.
LEMMA FindKeepsIInv ==
  ASSUME IInv, Find
  PROVE  IInv'
<1> USE DEF IInv, Find, config, disk
<1>1. Service \in Reader /\ reader \in 1..4
  BY ReadersAre DEF TypeOK, Service
<1>2. Discovered' = Discovered /\ Current' = Current
  BY DiscoveredStays DEF Current
<1>3. pc' = IF reader = 4 THEN "serve" ELSE "load"
  BY <1>1, ReadersAre DEF Service
<1>4. found' \in [Reader -> Path \cup {NoPath}]
  BY <1>1, DiscoveredType DEF TypeOK
<1>5. loaded[Service] = NoDatabase
  BY <1>1 DEF ProgressInv, Service
<1>6. TypeOK'
  <2>1. \A s \in Reader : loaded'[s] # NoDatabase => loaded'[s].path = found'[s]
    BY <1>5 DEF TypeOK
  <2> QED
    BY <1>3, <1>4, <2>1 DEF TypeOK
<1>7. ProgressInv'
  BY <1>1, <1>3 DEF ProgressInv
<1>8. UnchangedInv'
  <2> SUFFICES ASSUME changes = 0
               PROVE  SameInv'
    BY <1>3 DEF UnchangedInv
  <2>1. SameInv
    BY DEF UnchangedInv
  <2>2. ASSUME NEW i \in 1..4, i <= reader
        PROVE  found'[Readers[i]] = configuration
    <3>1. CASE i = reader
      BY <1>1, <2>1, <3>1 DEF SameInv, Service, TypeOK
    <3>2. CASE i < reader
      <4>1. Readers[i] # Service /\ Readers[i] \in Reader
        BY <1>1, <3>2, ReadersAre DEF Service
      <4> QED
        BY <1>1, <2>1, <3>2, <4>1 DEF SameInv, TypeOK
    <3> QED
      BY <1>1, <2>2, <3>1, <3>2
  <2> QED
    BY <1>1, <1>2, <2>1, <2>2 DEF SameInv
<1> QED
  BY <1>6, <1>7, <1>8

\* It loads what is on the disk, or raises.
LEMMA LoadKeepsIInv ==
  ASSUME IInv, Load
  PROVE  IInv'
<1> USE DEF IInv, Load, config, disk
<1>1. /\ Service \in Reader /\ reader \in 1..4 /\ reader < 4
      /\ Service = Readers[reader] /\ Service # Readers[4]
  BY ReadersAre DEF TypeOK, Service, ProgressInv
<1>2. Discovered' = Discovered /\ Current' = Current
  BY DiscoveredStays DEF Current
<1>3. changes = 0 =>
        /\ SameInv /\ found[Service] = Discovered /\ found[Service] \in Path
        /\ Loaded(Service) = Current /\ ~CannotOpen(Service)
  <2> SUFFICES ASSUME changes = 0
               PROVE  /\ SameInv /\ found[Service] = Discovered
                      /\ found[Service] \in Path
                      /\ Loaded(Service) = Current /\ ~CannotOpen(Service)
    OBVIOUS
  <2>1. SameInv /\ configuration \in Path /\ found[Service] = configuration
    BY <1>1 DEF UnchangedInv, SameInv
  <2>2. Loaded(Service) = Current
    BY <2>1, PathType DEF Loaded, Current
  <2>3. Current.version # 0
    BY <2>1, DiscoveredType, PathType DEF SameInv, Present, Current
  <2> QED
    BY <2>1, <2>2, <2>3 DEF SameInv, CannotOpen
<1>4. CASE Raises(Service) /\ pc' = "raised" /\ UNCHANGED <<reader, loaded>>
  <2>1. TypeOK' /\ ProgressInv'
    BY <1>4 DEF TypeOK, ProgressInv
  <2>2. changes = 0 => ~BuildDirKnown
    BY <1>3, <1>4, PathType DEF Raises
  <2>3. UnchangedInv'
    BY <1>4, <2>2 DEF UnchangedInv, BuildDirKnown
  <2> QED
    BY <2>1, <2>3
<1>5. CASE /\ loaded' = [loaded EXCEPT ![Service] = Loaded(Service)]
           /\ reader' = reader + 1
           /\ pc' = "find"
  <2>1. TypeOK'
    <3>1. /\ loaded' \in [Reader -> Database \cup {NoDatabase}]
          /\ \A s \in Reader : loaded'[s] # NoDatabase => loaded'[s].path = found[s]
      BY <1>1, <1>5, LoadedType DEF TypeOK
    <3> QED
      BY <1>1, <1>5, <3>1 DEF TypeOK
  <2>2. \A i \in 1..4 :
          loaded'[Readers[i]] = IF i = reader THEN Loaded(Service) ELSE loaded[Readers[i]]
    BY <1>1, <1>5, ReadersAre DEF TypeOK
  <2>3. ProgressInv'
    BY <1>1, <1>5, <2>2 DEF ProgressInv
  <2>4. UnchangedInv'
    <3> SUFFICES ASSUME changes = 0
                 PROVE  SameInv'
      BY <1>5 DEF UnchangedInv
    <3>1. SameInv
      BY <1>3
    <3>2. \A i \in 1..4 : i < reader' => found[Readers[i]] = configuration
      BY <1>1, <1>5, <3>1 DEF SameInv
    <3>3. \A i \in 1..4 : i < reader' => loaded'[Readers[i]] = Current
      BY <1>1, <1>3, <1>5, <2>2, <3>1 DEF SameInv
    <3>4. loaded'[Readers[4]] \in {NoDatabase, Current}
      BY <1>1, <2>2, <3>1 DEF SameInv
    <3> QED
      BY <1>2, <1>5, <3>1, <3>2, <3>3, <3>4 DEF SameInv
  <2> QED
    BY <2>1, <2>3, <2>4
<1> QED
  BY <1>4, <1>5

\* Code completion loads its database again, or has none.
LEMMA StartKeepsIInv ==
  ASSUME IInv, StartCodeCompletion
  PROVE  IInv'
<1> DEFINE s == Readers[4]
           database == IF Raises(s) THEN NoDatabase ELSE Loaded(s)
<1> USE DEF IInv, StartCodeCompletion, config, disk
<1>1. s \in Reader /\ loaded' = [loaded EXCEPT ![s] = database] /\ reader = 4
  BY ReadersAre DEF ProgressInv
<1>2. Discovered' = Discovered /\ Current' = Current
  BY DiscoveredStays DEF Current
<1>3. /\ database \in Database \cup {NoDatabase}
      /\ database # NoDatabase => database.path = found[s]
  BY <1>1, LoadedType
<1> HIDE DEF database
<1>4. TypeOK'
  <2>1. /\ loaded' \in [Reader -> Database \cup {NoDatabase}]
        /\ \A t \in Reader : loaded'[t] # NoDatabase => loaded'[t].path = found[t]
    BY <1>1, <1>3 DEF TypeOK
  <2> QED
    BY <2>1 DEF TypeOK
<1>5. ProgressInv'
  BY DEF ProgressInv
<1>6. UnchangedInv'
  <2> SUFFICES ASSUME changes = 0
               PROVE  SameInv'
    BY DEF UnchangedInv
  <2>1. SameInv /\ configuration \in Path
    BY DEF UnchangedInv, SameInv
  <2>2. found[s] = configuration
    BY <1>1, <2>1 DEF SameInv
  <2>3. database \in {NoDatabase, Current}
    BY <2>1, <2>2, PathType DEF database, Loaded, Current
  <2>4. \A i \in 1..4 : i < 4 => loaded'[Readers[i]] = loaded[Readers[i]]
    BY <1>1, ReadersAre DEF TypeOK
  <2>5. loaded'[s] = database
    BY <1>1 DEF TypeOK
  <2>6. \A i \in 1..4 : i < reader => loaded'[Readers[i]] = Current
    BY <1>1, <2>1, <2>4 DEF SameInv
  <2>7. \A i \in 1..4 : i < reader \/ (i = reader /\ pc # "find") =>
          found[Readers[i]] = configuration
    BY <2>1 DEF SameInv
  <2>8. configuration = Discovered
    BY <2>1 DEF SameInv
  <2> QED
    BY <1>2, <2>1, <2>3, <2>5, <2>6, <2>7, <2>8 DEF SameInv
<1> QED
  BY <1>4, <1>5, <1>6

\* After a change by somebody else nothing is claimed.
LEMMA ChangeKeepsIInv ==
  ASSUME IInv, NEW d \in Dir, NEW k \in Kind, Change(d, k)
  PROVE  IInv'
<1> USE DEF IInv, Change, config, server
<1>1. changes' \in Nat /\ changes' # 0
  BY DEF TypeOK
<1>2. version' \in [Dir -> [Kind -> Nat]]
  <2>1. PICK v \in {0, changes' + 1} :
          version' = [version EXCEPT ![d] = [@ EXCEPT ![k] = v]]
    OBVIOUS
  <2>2. version[d] \in [Kind -> Nat] /\ v \in Nat
    BY <1>1, <2>1 DEF TypeOK
  <2>3. [version[d] EXCEPT ![k] = v] \in [Kind -> Nat]
    BY <2>2
  <2> QED
    BY <2>1, <2>3 DEF TypeOK
<1>3. TypeOK'
  BY <1>1, <1>2 DEF TypeOK
<1>4. ProgressInv'
  BY DEF ProgressInv
<1>5. UnchangedInv'
  BY <1>1 DEF UnchangedInv
<1> QED
  BY <1>3, <1>4, <1>5

\* Every step of the construction keeps the invariant.
LEMMA StepKeepsIInv == IInv /\ [Next]_vars => IInv'
<1> SUFFICES ASSUME IInv, [Next]_vars
             PROVE  IInv'
  OBVIOUS
<1>1. CASE UNCHANGED vars
  <2>1. Discovered' = Discovered /\ Current' = Current
    BY <1>1, DiscoveredStays DEF vars, config, disk, server, Current
  <2>2. TypeOK' /\ ProgressInv'
    BY <1>1 DEF vars, config, disk, server, IInv, TypeOK, ProgressInv
  <2>3. UnchangedInv'
    BY <1>1, <2>1 DEF vars, config, disk, server, IInv, UnchangedInv, SameInv, BuildDirKnown
  <2> QED
    BY <2>2, <2>3 DEF IInv
<1>2. CASE Next
  BY <1>2, DiscoverKeepsIInv, AutoConfigureKeepsIInv, ConfigureKeepsIInv, RetryKeepsIInv,
     FindKeepsIInv, LoadKeepsIInv, StartKeepsIInv, ChangeKeepsIInv
     DEF Next, Construct
<1> QED
  BY <1>1, <1>2

-----------------------------------------------------------------------------
\* The state of the server's constructor keeps its types, and a service has no database
\* but one at the path it found.
THEOREM TypeCorrect == Spec => []TypeOK
<1>1. IInv => TypeOK
  BY DEF IInv
<1> QED
  BY <1>1, InitIInv, StepKeepsIInv, PTL DEF Spec

\* All services use the database that the server found, as it is on the disk, as long
\* as nobody changes the disk.
THEOREM ServicesAgree == Spec => []AgreeUnlessChanged
<1>1. IInv => AgreeUnlessChanged
  <2> SUFFICES ASSUME IInv, pc = "serve", changes = 0
               PROVE  /\ configuration \in Path
                      /\ Present(configuration.dir, configuration.kind)
                      /\ \A s \in Reader :
                           /\ found[s] = configuration
                           /\ InUse(s) # NoDatabase => InUse(s) = Loaded("source_code_model")
                           /\ s # "code_completion" => InUse(s) # NoDatabase
    BY DEF AgreeUnlessChanged
  <2>1. SameInv /\ reader = 4 /\ TypeOK
    BY DEF IInv, UnchangedInv, ProgressInv
  <2>2. configuration \in Path /\ Present(configuration.dir, configuration.kind)
    BY <2>1, DiscoveredType, PathType DEF SameInv
  <2>3. \A s \in Reader : found[s] = configuration
    BY <2>1, ReaderHasPlace DEF SameInv
  <2>4. \A s \in Reader : Loaded(s) = Current
    BY <2>2, <2>3, PathType DEF Loaded, Current
  <2>5. Current # NoDatabase
    <3>1. Current.version # 0 /\ NoDatabase.version = 0
      BY <2>2 DEF Present, Current, NoDatabase
    <3> QED
      BY <3>1
  <2>6. ASSUME NEW s \in Reader
        PROVE  /\ loaded[s] \in {NoDatabase, Current}
               /\ s # "code_completion" => loaded[s] = Current
    <3>1. PICK i \in 1..4 : s = Readers[i]
      BY ReaderHasPlace
    <3>2. CASE i = 4
      BY <2>1, <3>1, <3>2, ReadersAre DEF SameInv
    <3>3. CASE i < 4
      BY <2>1, <3>1, <3>3 DEF SameInv
    <3> QED
      BY <3>2, <3>3
  <2>7. "source_code_model" \in Reader
    BY ReadersAre
  <2> QED
    BY <2>2, <2>3, <2>4, <2>5, <2>6, <2>7 DEF InUse
<1> QED
  BY <1>1, InitIInv, StepKeepsIInv, PTL DEF Spec

\* The server bails out only where there is no database, the configure command failed,
\* or the disk was changed while it looked. One that found a database fails to start its
\* services only for the build directory that disassembly asks for, or such a change.
THEOREM FailsOnlyWithCause == Spec => []FailsWithCause
<1>1. IInv => FailsWithCause
  BY DEF IInv, UnchangedInv, FailsWithCause, TypeOK
<1> QED
  BY <1>1, InitIInv, StepKeepsIInv, PTL DEF Spec

-----------------------------------------------------------------------------
\* The composition implements the construction of the server: loading the database into
\* the parser is a step of it, and parsing is none.
THEOREM ProjectImplementsConfiguration == ProjectSpec => Spec
<1>1. ProjectInit => Init
  BY DEF ProjectInit
<1>2. [ProjectNext]_projectVars => [Next]_vars
  <2> SUFFICES ASSUME [ProjectNext]_projectVars
               PROVE  Next \/ UNCHANGED vars
    OBVIOUS
  <2>1. CASE LoadDatabase
    BY <2>1, Zenon DEF LoadDatabase, Next
  <2>2. CASE Parse
    BY <2>2, Zenon DEF Parse
  <2>3. CASE ConfigurationStep
    BY <2>3, Zenon DEF ConfigurationStep, Next
  <2>4. CASE UNCHANGED projectVars
    BY <2>4 DEF projectVars
  <2> QED
    BY <2>1, <2>2, <2>3, <2>4, Zenon DEF ProjectNext
<1> QED
  BY <1>1, <1>2, PTL DEF ProjectSpec, Spec

\* So the services agree also while files are parsed.
COROLLARY ProjectServicesAgree == ProjectSpec => []AgreeUnlessChanged
BY ProjectImplementsConfiguration, ServicesAgree, PTL

-----------------------------------------------------------------------------
(* 2. Lists *)

\* Induction, for a set of numbers.
LEMMA Induction ==
  ASSUME NEW S, S \subseteq Nat, 0 \in S, \A n \in S : n + 1 \in S
  PROVE  \A n \in Nat : n \in S
<1> DEFINE T == Nat \ S
<1> SUFFICES ASSUME T # {} PROVE FALSE
  OBVIOUS
<1>1. PICK n \in T : \A m \in T : <<m, n>> \notin OpToRel(<, Nat)
  <2>1. T \subseteq Nat
    OBVIOUS
  <2> QED
    BY <2>1, WFMin, NatLessThanWellFounded, Zenon
<1>2. \A m \in T : ~(m < n)
  BY <1>1, Zenon DEF OpToRel
<1>3. n \in Nat /\ n # 0
  OBVIOUS
<1>4. n - 1 \in S /\ n = (n - 1) + 1
  BY <1>2, <1>3
<1> QED
  BY <1>4

\* Induction, for a set of sequences.
LEMMA SequenceInduction ==
  ASSUME NEW S, NEW T, T \subseteq Seq(S), <<>> \in T,
         \A s \in T : \A e \in S : Append(s, e) \in T
  PROVE  \A s \in Seq(S) : s \in T
<1> DEFINE N == {n \in Nat : \A s \in Seq(S) : Len(s) = n => s \in T}
<1>1. 0 \in N
  <2>1. \A s \in Seq(S) : Len(s) = 0 => s = <<>>
    OBVIOUS
  <2> QED
    BY <2>1
<1>2. ASSUME NEW n \in N
      PROVE  n + 1 \in N
  <2> SUFFICES ASSUME NEW s \in Seq(S), Len(s) = n + 1
               PROVE  s \in T
    OBVIOUS
  <2>1. n \in Nat /\ s # <<>>
    OBVIOUS
  <2>2. PICK t \in Seq(S), e \in S : s = Append(t, e)
    BY <2>1, SequenceEmptyOrAppend
  <2>3. Len(t) = n
    BY <2>1, <2>2, AppendProperties, LenProperties
  <2> QED
    BY <2>2, <2>3
<1>3. \A n \in Nat : n \in N
  <2>1. N \subseteq Nat
    OBVIOUS
  <2> HIDE DEF N
  <2> QED
    BY <1>1, <1>2, <2>1, Induction
<1> QED
  BY <1>3

-----------------------------------------------------------------------------
\* A function on 1..n is a list of length n.
LEMMA FunctionIsSeq ==
  ASSUME NEW S, NEW n \in Nat, NEW f \in [1..n -> S]
  PROVE  f \in Seq(S) /\ Len(f) = n
<1>1. f \in Seq(S)
  BY SeqDef
<1>2. 1..n = 1..Len(f) /\ Len(f) \in Nat
  BY <1>1, LenProperties
<1> QED
  BY <1>1, <1>2

\* What it takes for a list to be another with a word added, and two lists in a row.
LEMMA AppendIs ==
  ASSUME NEW S, NEW s \in Seq(S), NEW e \in S, NEW t \in Seq(S),
         Len(t) = Len(s) + 1, \A i \in 1..Len(s) : t[i] = s[i], t[Len(s) + 1] = e
  PROVE  t = Append(s, e)
<1>1. /\ Append(s, e) \in Seq(S) /\ Len(Append(s, e)) = Len(s) + 1
      /\ \A i \in 1..Len(s) : Append(s, e)[i] = s[i]
      /\ Append(s, e)[Len(s) + 1] = e
  BY AppendProperties
<1>2. \A i \in 1..Len(t) : t[i] = Append(s, e)[i]
  BY <1>1, LenProperties
<1> QED
  BY <1>1, <1>2, SeqEqual

\* A list whose first elements are those of s, and whose others are those of t.
LEMMA ConcatIs ==
  ASSUME NEW S, NEW s \in Seq(S), NEW t \in Seq(S), NEW u \in Seq(S),
         Len(u) = Len(s) + Len(t), \A i \in 1..Len(s) : u[i] = s[i],
         \A i \in 1..Len(t) : u[Len(s) + i] = t[i]
  PROVE  u = s \o t
<1>1. /\ s \o t \in Seq(S) /\ Len(s \o t) = Len(s) + Len(t)
      /\ \A i \in 1..Len(s) + Len(t) :
           (s \o t)[i] = IF i <= Len(s) THEN s[i] ELSE t[i - Len(s)]
  BY ConcatProperties
<1>2. Len(s) \in Nat /\ Len(t) \in Nat
  BY LenProperties
<1>3. ASSUME NEW i \in 1..Len(u)
      PROVE  u[i] = (s \o t)[i]
  <2>1. CASE i <= Len(s)
    BY <1>1, <1>2, <2>1
  <2>2. CASE i > Len(s)
    <3>1. i - Len(s) \in 1..Len(t) /\ Len(s) + (i - Len(s)) = i
      BY <1>2, <2>2
    <3>2. u[i] = t[i - Len(s)]
      BY <3>1
    <3> QED
      BY <1>1, <1>2, <2>2, <3>2
  <2> QED
    BY <1>2, <2>1, <2>2
<1> QED
  BY <1>1, <1>3, SeqEqual

-----------------------------------------------------------------------------
\* The lists joined so far.
Joins(seqs, f) == f = [i \in 1..Len(seqs) |-> IF i = 1 THEN seqs[i] ELSE f[i - 1] \o seqs[i]]

\* Lists can be joined one by one; two ways to do so agree.
LEMMA JoinsExists ==
  ASSUME NEW seqs, Len(seqs) \in Nat
  PROVE  \E f : Joins(seqs, f)
<1> DEFINE P(n, f) == f = [i \in 1..n |-> IF i = 1 THEN seqs[i] ELSE f[i - 1] \o seqs[i]]
           S == {n \in Nat : \E f : P(n, f)}
<1>1. 0 \in S
  <2>1. P(0, [i \in 1..0 |-> seqs[i]])
    OBVIOUS
  <2> QED
    BY <2>1
<1>2. ASSUME NEW n \in S
      PROVE  n + 1 \in S
  <2>1. PICK f : P(n, f)
    OBVIOUS
  <2> DEFINE g == [i \in 1..n + 1 |->
                     IF i <= n THEN f[i]
                     ELSE IF i = 1 THEN seqs[i] ELSE f[n] \o seqs[i]]
  <2>2. \A i \in 1..n : g[i] = IF i = 1 THEN seqs[i] ELSE g[i - 1] \o seqs[i]
    <3>1. \A i \in 1..n : g[i] = f[i]
      OBVIOUS
    <3>2. \A i \in 1..n : i # 1 => i - 1 \in 1..n
      OBVIOUS
    <3> HIDE DEF g
    <3> QED
      BY <2>1, <3>1, <3>2
  <2>3. g[n + 1] = IF n + 1 = 1 THEN seqs[n + 1] ELSE g[n] \o seqs[n + 1]
    OBVIOUS
  <2>4. \A i \in 1..n + 1 : g[i] = IF i = 1 THEN seqs[i] ELSE g[i - 1] \o seqs[i]
    <3>1. \A i \in 1..n + 1 : i \in 1..n \/ i = n + 1
      OBVIOUS
    <3>2. (n + 1) - 1 = n
      OBVIOUS
    <3> HIDE DEF g
    <3> QED
      BY <2>2, <2>3, <3>1, <3>2
  <2>5. g = [i \in 1..n + 1 |-> g[i]]
    OBVIOUS
  <2>6. P(n + 1, g)
    <3> HIDE DEF g
    <3>1. [i \in 1..n + 1 |-> g[i]] =
            [i \in 1..n + 1 |-> IF i = 1 THEN seqs[i] ELSE g[i - 1] \o seqs[i]]
      BY <2>4
    <3> QED
      BY <2>5, <3>1, Zenon
  <2>7. \E h : P(n + 1, h)
    <3> HIDE DEF P, g
    <3> QED
      BY <2>6
  <2>8. n \in Nat
    OBVIOUS
  <2> HIDE DEF P
  <2> QED
    BY <2>7, <2>8
<1>3. Len(seqs) \in S
  <2> HIDE DEF S
  <2>1. S \subseteq Nat
    BY DEF S
  <2> QED
    BY <1>1, <1>2, <2>1, Induction
<1> QED
  BY <1>3 DEF Joins

\* The joins of a list and of one it begins agree as far as the shorter goes.
LEMMA JoinsUnique ==
  ASSUME NEW s, NEW t, NEW f, NEW g, Joins(s, f), Joins(t, g),
         Len(s) \in Nat, Len(t) \in Nat, Len(s) <= Len(t),
         \A i \in 1..Len(s) : s[i] = t[i]
  PROVE  \A i \in 1..Len(s) : f[i] = g[i]
<1> DEFINE S == {n \in Nat : n \in 1..Len(s) => f[n] = g[n]}
<1>1. 0 \in S
  OBVIOUS
<1>2. ASSUME NEW n \in S
      PROVE  n + 1 \in S
  <2> SUFFICES ASSUME n + 1 \in 1..Len(s)
               PROVE  f[n + 1] = g[n + 1]
    OBVIOUS
  <2>1. n + 1 \in 1..Len(t) /\ (n + 1) - 1 = n
    OBVIOUS
  <2>2. f[n + 1] = IF n + 1 = 1 THEN s[n + 1] ELSE f[n] \o s[n + 1]
    BY <2>1 DEF Joins
  <2>3. g[n + 1] = IF n + 1 = 1 THEN t[n + 1] ELSE g[n] \o t[n + 1]
    BY <2>1 DEF Joins
  <2> QED
    BY <2>2, <2>3
<1>3. \A n \in Nat : n \in S
  <2> HIDE DEF S
  <2>1. S \subseteq Nat
    BY DEF S
  <2> QED
    BY <1>1, <1>2, <2>1, Induction
<1> QED
  BY <1>3

\* A list of lists that is not empty is flattened by joining them one by one.
LEMMA FlattenIs ==
  ASSUME NEW seqs, Len(seqs) \in Nat, Len(seqs) # 0
  PROVE  \E f : Joins(seqs, f) /\ FlattenSeq(seqs) = f[Len(seqs)]
<1> DEFINE f == CHOOSE f : Joins(seqs, f)
<1>1. Joins(seqs, f)
  BY JoinsExists, Zenon
<1>2. FlattenSeq(seqs) = (CHOOSE g : g = [i \in 1..Len(seqs) |->
          IF i = 1 THEN seqs[i] ELSE g[i - 1] \o seqs[i]])[Len(seqs)]
  BY SMT DEF FlattenSeq
<1>3. FlattenSeq(seqs) = f[Len(seqs)]
  BY <1>2, Zenon DEF Joins
<1> QED
  BY <1>1, <1>3

\* Lists of lists of words of S.
LEMMA FlattenAppend ==
  ASSUME NEW S, NEW seqs \in Seq(Seq(S)), NEW seq \in Seq(S)
  PROVE  FlattenSeq(Append(seqs, seq)) =
           IF seqs = <<>> THEN seq ELSE FlattenSeq(seqs) \o seq
<1> DEFINE t == Append(seqs, seq)
           n == Len(seqs)
<1>1. /\ n \in Nat /\ Len(t) = n + 1 /\ t[n + 1] = seq
      /\ \A i \in 1..n : t[i] = seqs[i]
  OBVIOUS
<1> HIDE DEF t
<1>2. PICK g : Joins(t, g) /\ FlattenSeq(t) = g[n + 1]
  BY <1>1, FlattenIs
<1>3. g[n + 1] = IF n + 1 = 1 THEN seq ELSE g[n] \o seq
  <2>1. n + 1 \in 1..Len(t) /\ (n + 1) - 1 = n
    BY <1>1
  <2> QED
    BY <1>1, <1>2, <2>1 DEF Joins
<1>4. CASE n = 0
  <2>1. seqs = <<>>
    BY <1>4
  <2> QED
    BY <1>2, <1>3, <1>4, <2>1 DEF t
<1>5. CASE n # 0
  <2>1. PICK f : Joins(seqs, f) /\ FlattenSeq(seqs) = f[n]
    BY <1>1, <1>5, FlattenIs
  <2>2. \A i \in 1..Len(seqs) : f[i] = g[i]
    <3>1. Len(seqs) \in Nat /\ Len(t) \in Nat /\ Len(seqs) <= Len(t)
      BY <1>1
    <3>2. \A i \in 1..Len(seqs) : seqs[i] = t[i]
      BY <1>1
    <3>3. Joins(seqs, f) /\ Joins(t, g)
      BY <1>2, <2>1
    <3> QED
      BY <3>1, <3>2, <3>3, JoinsUnique
  <2>3. g[n] = f[n]
    BY <1>1, <1>5, <2>2
  <2>4. seqs # <<>> /\ n + 1 # 1
    BY <1>1, <1>5
  <2>5. FlattenSeq(t) = FlattenSeq(seqs) \o seq
    BY <1>2, <1>3, <2>1, <2>3, <2>4, Zenon
  <2> QED
    BY <2>4, <2>5 DEF t
<1> QED
  BY <1>4, <1>5

\* Joining lists of words of S gives words of S; no lists are joined to no words.
LEMMA FlattenEmpty == FlattenSeq(<<>>) = <<>>
BY DEF FlattenSeq

\* What is flattened has the elements of its parts.
LEMMA FlattenType ==
  ASSUME NEW S
  PROVE  \A seqs \in Seq(Seq(S)) : FlattenSeq(seqs) \in Seq(S)
<1> DEFINE T == {seqs \in Seq(Seq(S)) : FlattenSeq(seqs) \in Seq(S)}
<1>1. <<>> \in T
  BY FlattenEmpty, EmptySeq
<1>2. ASSUME NEW seqs \in T, NEW seq \in Seq(S)
      PROVE  Append(seqs, seq) \in T
  <2>1. seqs \in Seq(Seq(S)) /\ FlattenSeq(seqs) \in Seq(S)
    OBVIOUS
  <2>2. FlattenSeq(Append(seqs, seq)) =
          IF seqs = <<>> THEN seq ELSE FlattenSeq(seqs) \o seq
    BY <2>1, FlattenAppend
  <2>3. FlattenSeq(seqs) \o seq \in Seq(S) /\ Append(seqs, seq) \in Seq(Seq(S))
    BY <2>1, ConcatProperties, AppendProperties
  <2> QED
    BY <2>2, <2>3
<1>3. T \subseteq Seq(Seq(S))
  OBVIOUS
<1> HIDE DEF T
<1>4. \A seqs \in Seq(Seq(S)) : seqs \in T
  BY <1>1, <1>2, <1>3, SequenceInduction
<1> QED
  BY <1>4 DEF T

\* The case distinction of FlattenAppend is none.
LEMMA FlattenStep ==
  ASSUME NEW S, NEW seqs \in Seq(Seq(S)), NEW seq \in Seq(S)
  PROVE  FlattenSeq(Append(seqs, seq)) = FlattenSeq(seqs) \o seq
<1>1. FlattenSeq(Append(seqs, seq)) =
        IF seqs = <<>> THEN seq ELSE FlattenSeq(seqs) \o seq
  BY FlattenAppend
<1>2. <<>> \o seq = seq
  OBVIOUS
<1> QED
  BY <1>1, <1>2, FlattenEmpty

\* Two lists of lists in a row are flattened each for itself.
LEMMA FlattenConcat ==
  ASSUME NEW S, NEW seqs \in Seq(Seq(S))
  PROVE  \A more \in Seq(Seq(S)) :
           FlattenSeq(seqs \o more) = FlattenSeq(seqs) \o FlattenSeq(more)
<1> DEFINE T == {more \in Seq(Seq(S)) :
                   FlattenSeq(seqs \o more) = FlattenSeq(seqs) \o FlattenSeq(more)}
<1>1. <<>> \in T
  <2>1. seqs \o <<>> = seqs /\ FlattenSeq(seqs) \o <<>> = FlattenSeq(seqs)
    BY FlattenType, ConcatEmptySeq
  <2> QED
    BY <2>1, FlattenEmpty, EmptySeq
<1>2. ASSUME NEW more \in T, NEW seq \in Seq(S)
      PROVE  Append(more, seq) \in T
  <2>1. /\ more \in Seq(Seq(S)) /\ Append(more, seq) \in Seq(Seq(S))
        /\ seqs \o more \in Seq(Seq(S))
        /\ FlattenSeq(seqs \o more) = FlattenSeq(seqs) \o FlattenSeq(more)
    OBVIOUS
  <2>2. seqs \o Append(more, seq) = Append(seqs \o more, seq)
    BY <2>1
  <2>3. FlattenSeq(Append(seqs \o more, seq)) = FlattenSeq(seqs \o more) \o seq
    BY <2>1, FlattenStep
  <2>4. FlattenSeq(Append(more, seq)) = FlattenSeq(more) \o seq
    BY <2>1, FlattenStep
  <2>5. FlattenSeq(seqs) \in Seq(S) /\ FlattenSeq(more) \in Seq(S)
    BY <2>1, FlattenType
  <2>6. (FlattenSeq(seqs) \o FlattenSeq(more)) \o seq
          = FlattenSeq(seqs) \o (FlattenSeq(more) \o seq)
    BY <2>5, ConcatAssociative
  <2> QED
    BY <2>1, <2>2, <2>3, <2>4, <2>6
<1>3. T \subseteq Seq(Seq(S))
  OBVIOUS
<1> HIDE DEF T
<1>4. \A more \in Seq(Seq(S)) : more \in T
  BY <1>1, <1>2, <1>3, SequenceInduction
<1> QED
  BY <1>4 DEF T

\* One list, and two.
LEMMA FlattenOne ==
  ASSUME NEW S, NEW p \in Seq(S)
  PROVE  FlattenSeq(<<p>>) = p
<1>1. <<p>> = Append(<<>>, p) /\ <<>> \in Seq(Seq(S)) /\ <<>> \o p = p
  BY EmptySeq, ConcatEmptySeq
<1> QED
  BY <1>1, FlattenStep, FlattenEmpty

\* Two lists, flattened, are the two in a row.
LEMMA FlattenTwo ==
  ASSUME NEW S, NEW p \in Seq(S), NEW q \in Seq(S)
  PROVE  FlattenSeq(<<p, q>>) = p \o q
<1>1. <<p, q>> = Append(<<p>>, q) /\ <<p>> \in Seq(Seq(S))
  OBVIOUS
<1> QED
  BY <1>1, FlattenStep, FlattenOne

-----------------------------------------------------------------------------
\* A list without some words, word for word.
LEMMA WithoutEmpty == ASSUME NEW X PROVE Without(X, <<>>) = <<>>
<1> DEFINE f == [i \in DOMAIN <<>> |-> IF <<>>[i] \in X THEN <<>> ELSE <<(<<>>[i])>>]
<1>1. DOMAIN <<>> = 1..0
  OBVIOUS
<1>2. f \in Seq({}) /\ Len(f) = 0
  BY <1>1
<1>3. f = <<>>
  BY <1>2, EmptySeq
<1> QED
  BY <1>3, FlattenEmpty DEF Without

\* A list is filtered element by element.
LEMMA WithoutStep ==
  ASSUME NEW S, NEW X, NEW s \in Seq(S), NEW e \in S
  PROVE  /\ Without(X, <<>>) = <<>>
         /\ Without(X, s) \in Seq(S)
         /\ e \in X => Without(X, Append(s, e)) = Without(X, s)
         /\ e \notin X => Without(X, Append(s, e)) = Append(Without(X, s), e)
<1> DEFINE Piece(a) == IF a \in X THEN <<>> ELSE <<a>>
           pieces == [i \in DOMAIN s |-> Piece(s[i])]
           more == [i \in DOMAIN Append(s, e) |-> Piece(Append(s, e)[i])]
<1>1. \A a \in S : Piece(a) \in Seq(S)
  OBVIOUS
<1>2. DOMAIN s = 1..Len(s) /\ Len(s) \in Nat /\ \A i \in 1..Len(s) : s[i] \in S
  OBVIOUS
<1>3. /\ Append(s, e) \in Seq(S) /\ Len(Append(s, e)) = Len(s) + 1
      /\ \A i \in 1..Len(s) : Append(s, e)[i] = s[i]
      /\ Append(s, e)[Len(s) + 1] = e
      /\ DOMAIN Append(s, e) = 1..Len(s) + 1
  BY AppendProperties, LenProperties
<1> HIDE DEF Piece
<1>4. pieces \in Seq(Seq(S)) /\ Len(pieces) = Len(s)
  BY <1>1, <1>2
<1>5. more \in Seq(Seq(S)) /\ Len(more) = Len(s) + 1
  BY <1>1, <1>2, <1>3
<1>6. more = Append(pieces, Piece(e))
  <2>1. \A i \in 1..Len(s) : more[i] = pieces[i]
    BY <1>2, <1>3
  <2>2. more[Len(s) + 1] = Piece(e)
    BY <1>2, <1>3
  <2>3. Piece(e) \in Seq(S)
    BY <1>1
  <2> HIDE DEF more, pieces
  <2> QED
    BY <1>4, <1>5, <2>1, <2>2, <2>3, AppendIs
<1>7. Without(X, s) = FlattenSeq(pieces) /\ Without(X, Append(s, e)) = FlattenSeq(more)
  BY DEF Without, Piece
<1>8. FlattenSeq(more) = FlattenSeq(pieces) \o Piece(e)
  BY <1>1, <1>4, <1>6, FlattenStep
<1>9. FlattenSeq(pieces) \in Seq(S)
  BY <1>4, FlattenType
<1>10. Without(X, <<>>) = <<>>
  BY WithoutEmpty
<1>11. e \in X => FlattenSeq(pieces) \o Piece(e) = FlattenSeq(pieces)
  BY <1>9, ConcatEmptySeq DEF Piece
<1>12. e \notin X => FlattenSeq(pieces) \o Piece(e) = Append(FlattenSeq(pieces), e)
  BY <1>9, AppendIsConcat DEF Piece
<1> HIDE DEF pieces, more
<1> QED
  BY <1>7, <1>8, <1>9, <1>10, <1>11, <1>12

\* The words that are left are not among those.
LEMMA WithoutType ==
  ASSUME NEW S, NEW X
  PROVE  \A s \in Seq(S) : Without(X, s) \in Seq(S \ X)
<1> DEFINE T == {s \in Seq(S) : Without(X, s) \in Seq(S \ X)}
<1>1. <<>> \in T
  BY WithoutEmpty, EmptySeq
<1>2. ASSUME NEW s \in T, NEW e \in S
      PROVE  Append(s, e) \in T
  <2>1. s \in Seq(S) /\ Without(X, s) \in Seq(S \ X) /\ Append(s, e) \in Seq(S)
    OBVIOUS
  <2>2. /\ e \in X => Without(X, Append(s, e)) = Without(X, s)
        /\ e \notin X => Without(X, Append(s, e)) = Append(Without(X, s), e)
    BY <2>1, WithoutStep
  <2>3. e \notin X => Append(Without(X, s), e) \in Seq(S \ X)
    BY <2>1, AppendProperties
  <2> QED
    BY <2>1, <2>2, <2>3
<1>3. T \subseteq Seq(S)
  OBVIOUS
<1> HIDE DEF T
<1>4. \A s \in Seq(S) : s \in T
  BY <1>1, <1>2, <1>3, SequenceInduction
<1> QED
  BY <1>4 DEF T

\* Two lists in a row are filtered each for itself.
LEMMA WithoutConcat ==
  ASSUME NEW S, NEW X, NEW s \in Seq(S)
  PROVE  \A t \in Seq(S) : Without(X, s \o t) = Without(X, s) \o Without(X, t)
<1> DEFINE T == {t \in Seq(S) : Without(X, s \o t) = Without(X, s) \o Without(X, t)}
<1>1. Without(X, s) \in Seq(S \ X)
  BY WithoutType
<1>0. \A r \in Seq(S), e \in S :
        /\ e \in X => Without(X, Append(r, e)) = Without(X, r)
        /\ e \notin X => Without(X, Append(r, e)) = Append(Without(X, r), e)
  BY WithoutStep
<1>2. <<>> \in T
  <2>1. s \o <<>> = s /\ Without(X, s) \o <<>> = Without(X, s)
    BY <1>1, ConcatEmptySeq
  <2> QED
    BY <2>1, WithoutEmpty, EmptySeq
<1>3. ASSUME NEW t \in T, NEW e \in S
      PROVE  Append(t, e) \in T
  <2>1. /\ t \in Seq(S) /\ Append(t, e) \in Seq(S) /\ s \o t \in Seq(S)
        /\ Without(X, s \o t) = Without(X, s) \o Without(X, t)
    OBVIOUS
  <2> HIDE DEF T
  <2> SUFFICES Without(X, s \o Append(t, e)) = Without(X, s) \o Without(X, Append(t, e))
    BY <2>1 DEF T
  <2>2. s \o Append(t, e) = Append(s \o t, e)
    BY <2>1
  <2>3. CASE e \in X
    <3>1. Without(X, Append(s \o t, e)) = Without(X, s \o t)
      BY <1>0, <2>1, <2>3
    <3>2. Without(X, Append(t, e)) = Without(X, t)
      BY <1>0, <2>1, <2>3
    <3> QED
      BY <2>1, <2>2, <3>1, <3>2, Zenon
  <2>4. CASE e \notin X
    <3>1. Without(X, Append(s \o t, e)) = Append(Without(X, s \o t), e)
      BY <1>0, <2>1, <2>4
    <3>2. Without(X, Append(t, e)) = Append(Without(X, t), e)
      BY <1>0, <2>1, <2>4
    <3>3. Without(X, s) \in Seq(S) /\ Without(X, t) \in Seq(S)
      BY <2>1, WithoutStep
    <3>4. Append(Without(X, s) \o Without(X, t), e) = Without(X, s) \o Append(Without(X, t), e)
      <4>1. \A a, b \in Seq(S) : Append(a \o b, e) = a \o Append(b, e)
        OBVIOUS
      <4> QED
        BY <3>3, <4>1
    <3> QED
      BY <2>1, <2>2, <3>1, <3>2, <3>4, Zenon
  <2> QED
    BY <2>3, <2>4
<1>4. T \subseteq Seq(S)
  OBVIOUS
<1> HIDE DEF T
<1>5. \A t \in Seq(S) : t \in T
  BY <1>2, <1>3, <1>4, SequenceInduction
<1> QED
  BY <1>5 DEF T

\* A list without words that it does not have.
LEMMA WithoutNone ==
  ASSUME NEW S, NEW X, S \cap X = {}
  PROVE  \A s \in Seq(S) : Without(X, s) = s
<1> DEFINE T == {s \in Seq(S) : Without(X, s) = s}
<1>1. <<>> \in T
  BY WithoutEmpty, EmptySeq
<1>2. ASSUME NEW s \in T, NEW e \in S
      PROVE  Append(s, e) \in T
  BY WithoutStep, AppendProperties
<1>3. T \subseteq Seq(S)
  OBVIOUS
<1> HIDE DEF T
<1>4. \A s \in Seq(S) : s \in T
  BY <1>1, <1>2, <1>3, SequenceInduction
<1> QED
  BY <1>4 DEF T

-----------------------------------------------------------------------------
\* The pass that takes the language out, as lists of at most one word.
LanguageKept(args, i) ==
  /\ args[i] \notin Languages \cup GluedLanguages
  /\ ~(args[i] = "-x" /\ (IF i < Len(args) THEN args[i + 1] ELSE "") \in Languages)

LanguagePieces(args) ==
  [i \in DOMAIN args |-> IF LanguageKept(args, i) THEN <<args[i]>> ELSE <<>>]

\* Taking out the language: every argument is kept or is not.
LEMMA LanguagePass ==
  ASSUME NEW S, NEW s \in Seq(S)
  PROVE  /\ eat_conflicting_language_args(s) = FlattenSeq(LanguagePieces(s))
         /\ LanguagePieces(s) \in Seq(Seq(S)) /\ Len(LanguagePieces(s)) = Len(s)
         /\ eat_conflicting_language_args(s) \in Seq(S)
<1>1. eat_conflicting_language_args(s) = FlattenSeq(LanguagePieces(s))
  BY DEF eat_conflicting_language_args, LanguagePieces, LanguageKept
<1>2. DOMAIN s = 1..Len(s) /\ Len(s) \in Nat /\ \A i \in 1..Len(s) : s[i] \in S
  OBVIOUS
<1>3. \A i \in 1..Len(s) :
        (IF LanguageKept(s, i) THEN <<s[i]>> ELSE <<>>) \in Seq(S)
  BY <1>2
<1>4. LanguagePieces(s) \in Seq(Seq(S)) /\ Len(LanguagePieces(s)) = Len(s)
  BY <1>2, <1>3 DEF LanguagePieces
<1> QED
  BY <1>1, <1>4, FlattenType

\* Two lists in a row lose their languages each for itself, unless "-x" comes between.
LEMMA LanguageConcat ==
  ASSUME NEW S, NEW s \in Seq(S), NEW t \in Seq(S), s # <<>> => s[Len(s)] # "-x"
  PROVE  eat_conflicting_language_args(s \o t)
           = eat_conflicting_language_args(s) \o eat_conflicting_language_args(t)
<1> DEFINE st == s \o t
<1>1. /\ st \in Seq(S) /\ Len(st) = Len(s) + Len(t)
      /\ Len(s) \in Nat /\ Len(t) \in Nat
      /\ DOMAIN s = 1..Len(s) /\ DOMAIN t = 1..Len(t) /\ DOMAIN st = 1..Len(s) + Len(t)
      /\ \A i \in 1..Len(s) : st[i] = s[i]
      /\ \A i \in 1..Len(t) : st[Len(s) + i] = t[i]
  OBVIOUS
<1>2. Len(s) # 0 => s[Len(s)] # "-x"
  BY <1>1
<1> HIDE DEF st
<1>3. /\ LanguagePieces(s) \in Seq(Seq(S)) /\ Len(LanguagePieces(s)) = Len(s)
      /\ LanguagePieces(t) \in Seq(Seq(S)) /\ Len(LanguagePieces(t)) = Len(t)
      /\ LanguagePieces(st) \in Seq(Seq(S)) /\ Len(LanguagePieces(st)) = Len(s) + Len(t)
  BY <1>1, LanguagePass
<1>4. ASSUME NEW i \in 1..Len(s)
      PROVE  LanguagePieces(st)[i] = LanguagePieces(s)[i]
  <2>1. LanguageKept(st, i) <=> LanguageKept(s, i)
    <3>1. CASE i = Len(s)
      <4>1. st[i] = s[i] /\ s[i] # "-x"
        BY <1>1, <1>2, <3>1
      <4> QED
        BY <4>1, <3>1 DEF LanguageKept
    <3>2. CASE i < Len(s)
      <4>1. i + 1 \in 1..Len(s) /\ i < Len(st)
        BY <1>1, <3>2
      <4> QED
        BY <1>1, <3>2, <4>1 DEF LanguageKept
    <3>3. i = Len(s) \/ i < Len(s)
      OBVIOUS
    <3> QED
      BY <3>1, <3>2, <3>3
  <2>2. st[i] = s[i] /\ i \in DOMAIN s /\ i \in DOMAIN st
    BY <1>1
  <2> QED
    BY <2>1, <2>2 DEF LanguagePieces
<1>5. ASSUME NEW i \in 1..Len(t)
      PROVE  LanguagePieces(st)[Len(s) + i] = LanguagePieces(t)[i]
  <2>1. /\ st[Len(s) + i] = t[i]
        /\ Len(s) + i < Len(st) <=> i < Len(t)
        /\ i < Len(t) => st[(Len(s) + i) + 1] = t[i + 1]
    <3>1. i < Len(t) => i + 1 \in 1..Len(t) /\ (Len(s) + i) + 1 = Len(s) + (i + 1)
      BY <1>1
    <3>2. Len(s) + i < Len(st) <=> i < Len(t)
      BY <1>1
    <3> QED
      BY <1>1, <3>1, <3>2
  <2>2. LanguageKept(st, Len(s) + i) <=> LanguageKept(t, i)
    BY <2>1 DEF LanguageKept
  <2>3. i \in DOMAIN t /\ Len(s) + i \in DOMAIN st
    BY <1>1
  <2> QED
    BY <2>1, <2>2, <2>3 DEF LanguagePieces
<1>6. LanguagePieces(st) = LanguagePieces(s) \o LanguagePieces(t)
  <2>1. \A i \in 1..Len(LanguagePieces(s)) : LanguagePieces(st)[i] = LanguagePieces(s)[i]
    BY <1>3, <1>4
  <2>2. \A i \in 1..Len(LanguagePieces(t)) :
          LanguagePieces(st)[Len(LanguagePieces(s)) + i] = LanguagePieces(t)[i]
    BY <1>3, <1>5
  <2>3. Len(LanguagePieces(st)) = Len(LanguagePieces(s)) + Len(LanguagePieces(t))
    BY <1>3
  <2> QED
    BY <1>3, <2>1, <2>2, <2>3, ConcatIs
<1>7. FlattenSeq(LanguagePieces(st))
        = FlattenSeq(LanguagePieces(s)) \o FlattenSeq(LanguagePieces(t))
  BY <1>3, <1>6, FlattenConcat
<1> QED
  BY <1>1, <1>7, LanguagePass DEF st

-----------------------------------------------------------------------------
\* What becomes of a word, by what is before it.
RewrittenAt(args, i) ==
  IF i > 1 /\ args[i - 1] \in DirOptions THEN Joined[args[i]]
  ELSE IF args[i] = "-Ibazel" THEN "-I/work/bazel"
  ELSE IF args[i] \in Unsupported THEN "" ELSE args[i]

\* Making directories absolute, argument by argument.
LEMMA AbsoluteIs ==
  \A args : AbsolutePaths(args) = [i \in DOMAIN args |-> RewrittenAt(args, i)]
BY DEF AbsolutePaths, RewrittenAt

\* Two lists in a row have their paths made absolute each for itself, unless an option
\* that is followed by a directory comes between.
LEMMA AbsoluteConcat ==
  ASSUME NEW S, NEW R, NEW s \in Seq(S), NEW t \in Seq(S),
         AbsolutePaths(s) \in Seq(R), AbsolutePaths(t) \in Seq(R),
         s # <<>> => s[Len(s)] \notin DirOptions
  PROVE  AbsolutePaths(s \o t) = AbsolutePaths(s) \o AbsolutePaths(t)
<1> DEFINE st == s \o t
<1>1. /\ st \in Seq(S) /\ Len(st) = Len(s) + Len(t)
      /\ DOMAIN s = 1..Len(s) /\ DOMAIN t = 1..Len(t) /\ DOMAIN st = 1..Len(s) + Len(t)
      /\ \A i \in 1..Len(s) : st[i] = s[i]
      /\ \A i \in 1..Len(t) : st[Len(s) + i] = t[i]
  OBVIOUS
<1>2. Len(s) \in Nat /\ Len(t) \in Nat
  BY LenProperties
<1>3. Len(s) # 0 => s[Len(s)] \notin DirOptions
  OBVIOUS
<1>4. \A args : AbsolutePaths(args) = [i \in DOMAIN args |-> RewrittenAt(args, i)]
  BY AbsoluteIs
<1> HIDE DEF st
<1>5. ASSUME NEW i \in 1..Len(s)
      PROVE  RewrittenAt(st, i) = RewrittenAt(s, i)
  <2>1. st[i] = s[i]
    BY <1>1
  <2>2. i > 1 => st[i - 1] = s[i - 1]
    <3>1. i > 1 => i - 1 \in 1..Len(s)
      BY <1>2
    <3> QED
      BY <1>1, <3>1
  <2> QED
    BY <2>1, <2>2 DEF RewrittenAt
<1>6. ASSUME NEW i \in 1..Len(t)
      PROVE  RewrittenAt(st, Len(s) + i) = RewrittenAt(t, i)
  <2>1. st[Len(s) + i] = t[i]
    BY <1>1
  <2>2. CASE i = 1
    <3>1. Len(s) + i > 1 => /\ (Len(s) + i) - 1 = Len(s)
                            /\ Len(s) \in 1..Len(s) /\ Len(s) # 0
      BY <1>2, <2>2
    <3>2. Len(s) + i > 1 => st[(Len(s) + i) - 1] \notin DirOptions
      BY <1>1, <1>3, <3>1
    <3>3. ~(i > 1)
      BY <2>2
    <3> QED
      BY <2>1, <3>2, <3>3 DEF RewrittenAt
  <2>3. CASE i > 1
    <3>1. /\ i - 1 \in 1..Len(t) /\ (Len(s) + i) - 1 = Len(s) + (i - 1)
          /\ Len(s) + i > 1
      BY <1>2, <2>3
    <3>2. st[(Len(s) + i) - 1] = t[i - 1]
      BY <1>1, <3>1
    <3> QED
      BY <2>1, <2>3, <3>1, <3>2 DEF RewrittenAt
  <2>4. i = 1 \/ i > 1
    OBVIOUS
  <2> QED
    BY <2>2, <2>3, <2>4
<1>7. /\ \A i \in 1..Len(s) : AbsolutePaths(st)[i] = AbsolutePaths(s)[i]
      /\ \A i \in 1..Len(t) : AbsolutePaths(st)[Len(s) + i] = AbsolutePaths(t)[i]
  <2>1. \A i \in 1..Len(s) : i \in 1..Len(s) + Len(t)
    BY <1>2
  <2>2. \A i \in 1..Len(t) : Len(s) + i \in 1..Len(s) + Len(t)
    BY <1>2
  <2> QED
    BY <1>1, <1>4, <1>5, <1>6, <2>1, <2>2
<1>8. /\ Len(AbsolutePaths(s)) = Len(s) /\ Len(AbsolutePaths(t)) = Len(t)
      /\ DOMAIN AbsolutePaths(s) = 1..Len(s) /\ DOMAIN AbsolutePaths(t) = 1..Len(t)
  <2>1. DOMAIN AbsolutePaths(s) = 1..Len(s) /\ DOMAIN AbsolutePaths(t) = 1..Len(t)
    BY <1>1, <1>4
  <2> QED
    BY <1>2, <2>1, LenProperties
<1>9. AbsolutePaths(st) \in Seq(R) /\ Len(AbsolutePaths(st)) = Len(s) + Len(t)
  <2>1. ASSUME NEW i \in 1..Len(s) + Len(t)
        PROVE  RewrittenAt(st, i) \in R
    <3>1. CASE i <= Len(s)
      <4>1. i \in 1..Len(s)
        BY <1>2, <3>1
      <4>2. RewrittenAt(st, i) = AbsolutePaths(s)[i]
        BY <1>1, <1>4, <1>5, <4>1
      <4> QED
        BY <1>8, <4>1, <4>2, ElementOfSeq
    <3>2. CASE i > Len(s)
      <4>1. i - Len(s) \in 1..Len(t) /\ Len(s) + (i - Len(s)) = i
        BY <1>2, <3>2
      <4>2. RewrittenAt(st, i) = AbsolutePaths(t)[i - Len(s)]
        <5>1. RewrittenAt(st, Len(s) + (i - Len(s))) = RewrittenAt(t, i - Len(s))
          BY <1>6, <4>1
        <5> QED
          BY <1>1, <1>4, <4>1, <5>1
      <4> QED
        BY <1>8, <4>1, <4>2, ElementOfSeq
    <3> QED
      BY <1>2, <3>1, <3>2
  <2>2. AbsolutePaths(st) = [i \in 1..Len(s) + Len(t) |-> RewrittenAt(st, i)]
    BY <1>1, <1>4
  <2>3. Len(s) + Len(t) \in Nat
    BY <1>2
  <2>4. AbsolutePaths(st) \in [1..Len(s) + Len(t) -> R]
    BY <2>1, <2>2
  <2> QED
    BY <2>3, <2>4, FunctionIsSeq
<1>10. AbsolutePaths(st) = AbsolutePaths(s) \o AbsolutePaths(t)
  <2>1. /\ Len(AbsolutePaths(st)) = Len(AbsolutePaths(s)) + Len(AbsolutePaths(t))
        /\ \A i \in 1..Len(AbsolutePaths(s)) : AbsolutePaths(st)[i] = AbsolutePaths(s)[i]
        /\ \A i \in 1..Len(AbsolutePaths(t)) :
             AbsolutePaths(st)[Len(AbsolutePaths(s)) + i] = AbsolutePaths(t)[i]
    BY <1>7, <1>8, <1>9
  <2> QED
    BY <1>9, <2>1, ConcatIs
<1> QED
  BY <1>10 DEF st

-----------------------------------------------------------------------------
(* 3. The arguments that come out of a command *)

\* The options that announce a file, the words of options and of what becomes of them,
\* and the options.
FileOption == {"-c", "-o", "--"}
OptionWord == Word \ (File \cup FileOption \cup {Parent})

Flag == {option \in Seq(OptionWord) : IsOption(option)}

\* Words that are no names and do not announce one are words of options.
LEMMA SpecialWords ==
  /\ Special \ (FileOption \cup {Parent}) \subseteq OptionWord
  /\ "" \in OptionWord /\ "-x" \in OptionWord /\ "-I/work/bazel" \in OptionWord
  /\ Languages \subseteq OptionWord /\ DirOptions \subseteq OptionWord
  /\ "/work/include" \in OptionWord /\ "/work/bazel" \in OptionWord
  /\ "include" \in OptionWord /\ "bazel" \in OptionWord
<1>1. Special \ (FileOption \cup {Parent}) \subseteq OptionWord
  BY NamesAssumption DEF OptionWord, Word
<1>2. {"", "-x", "-I/work/bazel", "/work/include", "/work/bazel", "include", "bazel"}
        \cup Languages \cup DirOptions \subseteq Special \ (FileOption \cup {Parent})
  BY DEF Special, Keywords, IncludeForms, Languages, DirOptions, Parent, Joined, FileOption
<1> QED
  BY <1>1, <1>2

\* The options of every unit are of the forms that Meaning knows, and of words of options.
LEMMA OptionsAre == \A u \in Unit : Options[u] \in Seq(Flag)
<1> SUFFICES ASSUME NEW u \in Unit
             PROVE  Options[u] \in Seq(Flag)
  OBVIOUS
<1>1. /\ Options[u] \in Seq(Seq(STRING))
      /\ \A i \in DOMAIN Options[u] : IsOption(Options[u][i])
  BY OptionsAssumption
<1>2. /\ DOMAIN Options[u] = 1..Len(Options[u]) /\ Len(Options[u]) \in Nat
      /\ Options[u] = [i \in 1..Len(Options[u]) |-> Options[u][i]]
  BY <1>1, LenProperties
<1>3. ASSUME NEW i \in 1..Len(Options[u])
      PROVE  Options[u][i] \in Flag
  <2> DEFINE option == Options[u][i]
  <2>1. option \in Seq(STRING) /\ IsOption(option)
    BY <1>1, <1>2, ElementOfSeq
  <2>2. /\ DOMAIN option = 1..Len(option) /\ Len(option) \in Nat
        /\ option \in [1..Len(option) -> STRING]
    BY <2>1, LenProperties
  <2>3. option \in UNION {Range(Options[v]) : v \in Unit}
    BY <1>2 DEF Range
  <2> HIDE DEF option
  <2>4. ASSUME NEW j \in 1..Len(option)
        PROVE  option[j] \in OptionWord
    <3>1. option[j] \in Word
      BY <2>2, <2>3 DEF Word
    <3>2. option[j] \notin File \cup FileOption \cup {Parent}
      <4>1. CASE option \in {<<"-x", language>> : language \in Languages}
        <5>1. option[j] \in {"-x"} \cup Languages
          BY <2>2, <4>1
        <5> QED
          BY <5>1, SpecialWords DEF OptionWord
      <4>2. CASE option \in {<<d, directory>> : d \in DirOptions, directory \in DOMAIN Joined}
        <5>1. option[j] \in DirOptions \cup {"include", "bazel"}
          BY <2>2, <4>2 DEF Joined
        <5> QED
          BY <5>1, SpecialWords DEF OptionWord
      <4>3. CASE Len(option) = 1 /\ option[1] \notin Keywords \cup {Parent} \cup File
        <5>1. option[j] \notin Keywords \cup {Parent} \cup File
          BY <2>2, <4>3
        <5>2. FileOption \subseteq Keywords
          BY DEF Keywords, FileOption
        <5> QED
          BY <5>1, <5>2
      <4> QED
        BY <2>1, <4>1, <4>2, <4>3 DEF IsOption
    <3> QED
      BY <3>1, <3>2 DEF OptionWord
  <2>5. option \in Seq(OptionWord)
    BY <2>2, <2>4, FunctionIsSeq
  <2> QED
    BY <2>1, <2>5 DEF Flag, option
<1> QED
  BY <1>2, <1>3, FunctionIsSeq

-----------------------------------------------------------------------------
\* The language passes over one word, and over two.
LEMMA LanguageOne ==
  ASSUME NEW S, NEW w \in S
  PROVE  eat_conflicting_language_args(<<w>>)
           = IF w \in Languages \cup GluedLanguages THEN <<>> ELSE <<w>>
<1> DEFINE p == IF w \in Languages \cup GluedLanguages THEN <<>> ELSE <<w>>
<1>1. <<w>> \in Seq(S) /\ p \in Seq(S)
  OBVIOUS
<1>2. LanguageKept(<<w>>, 1) <=> w \notin Languages \cup GluedLanguages
  BY DEF LanguageKept, Languages
<1>3. LanguagePieces(<<w>>) = <<p>>
  <2>1. LanguagePieces(<<w>>)[1] = p
    BY <1>2 DEF LanguagePieces
  <2>2. LanguagePieces(<<w>>) \in Seq(Seq(S)) /\ Len(LanguagePieces(<<w>>)) = 1
    BY <1>1, LanguagePass
  <2> HIDE DEF p
  <2> QED
    BY <2>1, <2>2
<1>4. FlattenSeq(<<p>>) = p
  BY <1>1, FlattenOne
<1> QED
  BY <1>1, <1>3, <1>4, LanguagePass

\* Two words in a row, and the language.
LEMMA LanguageTwo ==
  ASSUME NEW S, NEW v \in S, NEW w \in S,
         v \notin Languages \cup GluedLanguages
  PROVE  /\ v = "-x" /\ w \in Languages => eat_conflicting_language_args(<<v, w>>) = <<>>
         /\ v # "-x" /\ w \notin Languages \cup GluedLanguages =>
              eat_conflicting_language_args(<<v, w>>) = <<v, w>>
<1>1. <<v, w>> \in Seq(S) /\ <<v>> \in Seq(S) /\ <<w>> \in Seq(S) /\ <<>> \in Seq(S)
  OBVIOUS
<1>2. /\ LanguageKept(<<v, w>>, 1) <=> ~(v = "-x" /\ w \in Languages)
      /\ LanguageKept(<<v, w>>, 2) <=> w \notin Languages \cup GluedLanguages
  BY DEF LanguageKept, Languages
<1>3. LanguagePieces(<<v, w>>) =
        <<IF v = "-x" /\ w \in Languages THEN <<>> ELSE <<v>>,
          IF w \notin Languages \cup GluedLanguages THEN <<w>> ELSE <<>>>>
  <2>1. /\ LanguagePieces(<<v, w>>)[1] = IF v = "-x" /\ w \in Languages THEN <<>> ELSE <<v>>
        /\ LanguagePieces(<<v, w>>)[2] =
             IF w \notin Languages \cup GluedLanguages THEN <<w>> ELSE <<>>
    BY <1>2 DEF LanguagePieces
  <2>2. LanguagePieces(<<v, w>>) \in Seq(Seq(S)) /\ Len(LanguagePieces(<<v, w>>)) = 2
    BY <1>1, LanguagePass
  <2> QED
    BY <2>1, <2>2
<1>4. FlattenSeq(<<<<>>, <<>>>>) = <<>> /\ FlattenSeq(<<<<v>>, <<w>>>>) = <<v, w>>
  <2>1. <<>> \o <<>> = <<>>
    BY <1>1, ConcatEmptySeq
  <2>2. <<v, w>> = Append(<<v>>, w)
    BY <1>1, AppendIs
  <2>3. Append(<<v>>, w) = <<v>> \o <<w>>
    BY <1>1, AppendIsConcat
  <2> QED
    BY <1>1, <2>1, <2>2, <2>3, FlattenTwo
<1>5. eat_conflicting_language_args(<<v, w>>) = FlattenSeq(LanguagePieces(<<v, w>>))
  BY <1>1, LanguagePass
<1> QED
  BY <1>3, <1>4, <1>5

\* The paths of one word, and of an option and its directory.
LEMMA AbsoluteOne ==
  ASSUME NEW w
  PROVE  AbsolutePaths(<<w>>) = <<IF w = "-Ibazel" THEN "-I/work/bazel"
                                  ELSE IF w \in Unsupported THEN "" ELSE w>>
<1> DEFINE p == IF w = "-Ibazel" THEN "-I/work/bazel"
                ELSE IF w \in Unsupported THEN "" ELSE w
           s == <<w>>
<1>1. DOMAIN s = 1..1 /\ s[1] = w
  OBVIOUS
<1>2. /\ AbsolutePaths(s) \in [1..1 -> {p}]
      /\ AbsolutePaths(s)[1] = p
  <2> HIDE DEF s
  <2>1. RewrittenAt(s, 1) = p
    BY <1>1 DEF RewrittenAt
  <2> HIDE DEF p
  <2>2. \A i \in 1..1 : RewrittenAt(s, i) = p
    BY <2>1
  <2> QED
    BY <1>1, <2>2, AbsoluteIs
<1> HIDE DEF p
<1>3. AbsolutePaths(<<w>>) \in Seq({p}) /\ Len(AbsolutePaths(<<w>>)) = 1
  BY <1>2, FunctionIsSeq
<1>4. AbsolutePaths(<<w>>) = <<p>>
  BY <1>2, <1>3
<1> QED
  BY <1>4 DEF p

\* An option and its directory.
LEMMA AbsoluteTwo ==
  ASSUME NEW d \in DirOptions, NEW directory
  PROVE  AbsolutePaths(<<d, directory>>) = <<d, Joined[directory]>>
<1> DEFINE j == Joined[directory]
           s == <<d, directory>>
<1>1. DOMAIN s = 1..2 /\ s[1] = d /\ s[2] = directory
  OBVIOUS
<1>2. d # "-Ibazel" /\ d \notin Unsupported
  BY DEF DirOptions, Unsupported
<1>3. /\ DOMAIN AbsolutePaths(s) = 1..2
      /\ AbsolutePaths(s)[1] = d /\ AbsolutePaths(s)[2] = j
      /\ AbsolutePaths(s) = [i \in 1..2 |-> AbsolutePaths(s)[i]]
  <2> HIDE DEF s
  <2>1. RewrittenAt(s, 1) = d /\ RewrittenAt(s, 2) = j
    <3>1. 2 - 1 = 1 /\ 2 > 1 /\ ~(1 > 1)
      OBVIOUS
    <3>2. RewrittenAt(s, 1) = d
      BY <1>1, <1>2, <3>1, Zenon DEF RewrittenAt
    <3>3. RewrittenAt(s, 2) = j
      BY <1>1, <3>1, Zenon DEF RewrittenAt
    <3> QED
      BY <3>2, <3>3
  <2> QED
    BY <1>1, <2>1, AbsoluteIs
<1> HIDE DEF j
<1>4. /\ AbsolutePaths(<<d, directory>>) \in [1..2 -> {d, j}]
      /\ AbsolutePaths(<<d, directory>>)[1] = d /\ AbsolutePaths(<<d, directory>>)[2] = j
  <2>1. \A i \in 1..2 : AbsolutePaths(s)[i] \in {d, j}
    <3>1. \A i \in 1..2 : i = 1 \/ i = 2
      OBVIOUS
    <3> QED
      BY <1>3, <3>1
  <2> QED
    BY <1>3, <2>1
<1>5. /\ AbsolutePaths(<<d, directory>>) \in Seq({d, j})
      /\ Len(AbsolutePaths(<<d, directory>>)) = 2
  BY <1>4, FunctionIsSeq
<1>6. AbsolutePaths(<<d, directory>>) = <<d, j>>
  BY <1>4, <1>5
<1> QED
  BY <1>6 DEF j

\* Nothing is rewritten to nothing.
LEMMA AbsoluteEmpty == AbsolutePaths(<<>>) = <<>>
<1>1. DOMAIN <<>> = 1..0
  OBVIOUS
<1>2. AbsolutePaths(<<>>) \in [1..0 -> {}]
  BY <1>1 DEF AbsolutePaths
<1>3. AbsolutePaths(<<>>) \in Seq({}) /\ Len(AbsolutePaths(<<>>)) = 0
  BY <1>2, FunctionIsSeq
<1> QED
  BY <1>3, EmptySeq

-----------------------------------------------------------------------------
\* A list of words that are followed by nothing.
Closed(words) == words # <<>> => words[Len(words)] \notin {"-x"} \cup DirOptions

\* The options of a command, rewritten.
Rewritten(words) == AbsolutePaths(eat_conflicting_language_args(words))

\* One word and two, as lists.
LEMMA OneIsSeq ==
  ASSUME NEW S, NEW v \in S
  PROVE  <<v>> \in Seq(S)
OBVIOUS

\* Two words are a list.
LEMMA TwoIsSeq ==
  ASSUME NEW S, NEW v \in S, NEW w \in S
  PROVE  <<v, w>> \in Seq(S)
OBVIOUS

\* One word without some.
LEMMA WithoutOne ==
  ASSUME NEW X, NEW w
  PROVE  Without(X, <<w>>) = IF w \in X THEN <<>> ELSE <<w>>
<1>1. <<>> \in Seq({w}) /\ Append(<<>>, w) = <<w>>
  OBVIOUS
<1>2. /\ w \in X => Without(X, Append(<<>>, w)) = Without(X, <<>>)
      /\ w \notin X => Without(X, Append(<<>>, w)) = Append(Without(X, <<>>), w)
  <2>1. \A s \in Seq({w}), e \in {w} :
          /\ e \in X => Without(X, Append(s, e)) = Without(X, s)
          /\ e \notin X => Without(X, Append(s, e)) = Append(Without(X, s), e)
    BY WithoutStep
  <2> QED
    BY <1>1, <2>1
<1> QED
  BY <1>1, <1>2, WithoutEmpty

\* What the passes make of one option is what it means, but for words without meaning.
LEMMA OptionPass ==
  ASSUME NEW option \in Flag
  PROVE  /\ eat_conflicting_language_args(option) \in Seq(OptionWord)
         /\ Rewritten(option) \in Seq(OptionWord)
         /\ Closed(option) /\ Closed(eat_conflicting_language_args(option))
         /\ Without({"", Parent}, Rewritten(option)) = Meaning(option)
         /\ Meaning(option) \in Seq(OptionWord)
<1> DEFINE eaten == eat_conflicting_language_args(option)
           IsLanguage == option \in {<<"-x", language>> : language \in Languages}
           IsDirectory == option \in {<<d, directory>> : d \in DirOptions,
                                                       directory \in DOMAIN Joined}
           IsWord == /\ Len(option) = 1
                     /\ option[1] \notin Keywords \cup {Parent} \cup File
<1>1. CASE IsLanguage
  <2>1. PICK language \in Languages : option = <<"-x", language>>
    BY <1>1
  <2>2. "-x" \notin Languages \cup GluedLanguages /\ language \in OptionWord
    BY SpecialWords DEF Languages, GluedLanguages
  <2>3. eaten = <<>>
    BY <2>1, <2>2, LanguageTwo, SpecialWords
  <2>4. Rewritten(option) = <<>>
    BY <2>3, AbsoluteEmpty DEF Rewritten
  <2>5. Meaning(option) = <<>>
    BY <2>1 DEF Meaning
  <2>6. Closed(option)
    <3>1. Len(option) = 2 /\ option[2] \in Languages
      BY <2>1
    <3> QED
      BY <3>1 DEF Closed, Languages, DirOptions
  <2>7. Closed(<<>>) /\ <<>> \in Seq(OptionWord)
    BY EmptySeq DEF Closed
  <2> QED
    BY <2>3, <2>4, <2>5, <2>6, <2>7, WithoutEmpty
<1>2. CASE IsDirectory
  <2>1. PICK d \in DirOptions, directory \in DOMAIN Joined : option = <<d, directory>>
    BY <1>2
  <2>2. /\ directory \in {"include", "bazel"}
        /\ Joined[directory] \in {"/work/include", "/work/bazel"}
    BY DEF Joined
  <2>3. /\ d \notin Languages \cup GluedLanguages /\ d # "-x"
        /\ directory \notin Languages \cup GluedLanguages
        /\ d \in OptionWord /\ directory \in OptionWord
    BY <2>2, SpecialWords DEF Languages, GluedLanguages, DirOptions
  <2>4. eaten = option
    BY <2>1, <2>3, LanguageTwo
  <2>5. Rewritten(option) = <<d, Joined[directory]>>
    BY <2>1, <2>4, AbsoluteTwo DEF Rewritten
  <2>6. Meaning(option) = <<d, Joined[directory]>>
    <3>1. option[1] = d /\ option[2] = directory
      BY <2>1
    <3>2. d \notin {"-x"} \cup GluedLanguages \cup Unsupported
      BY DEF DirOptions, GluedLanguages, Unsupported
    <3> QED
      BY <3>1, <3>2 DEF Meaning
  <2>7. Closed(option)
    <3>1. Len(option) = 2 /\ option[2] = directory
      BY <2>1
    <3>2. directory \notin {"-x"} \cup DirOptions
      BY <2>2 DEF DirOptions
    <3> QED
      BY <3>1, <3>2 DEF Closed
  <2>8. <<d, Joined[directory]>> \in Seq(OptionWord \ {"", Parent})
    <3>1. d \in OptionWord \ {"", Parent} /\ Joined[directory] \in OptionWord \ {"", Parent}
      BY <2>2, <2>3, SpecialWords DEF DirOptions, Parent
    <3> QED
      BY <3>1, TwoIsSeq
  <2>9. Without({"", Parent}, <<d, Joined[directory]>>) = <<d, Joined[directory]>>
    BY <2>8, WithoutNone
  <2>10. <<d, Joined[directory]>> \in Seq(OptionWord) /\ option \in Seq(OptionWord)
    BY <2>8, SeqMonotonic DEF Flag
  <2> QED
    BY <2>4, <2>5, <2>6, <2>7, <2>9, <2>10
<1>3. CASE IsWord
  <2> DEFINE w == option[1]
             p == IF w = "-Ibazel" THEN "-I/work/bazel"
                  ELSE IF w \in Unsupported THEN "" ELSE w
  <2>1. /\ option \in Seq(OptionWord) /\ option = <<w>> /\ w \in OptionWord
        /\ w \notin Languages \cup DirOptions \cup {"-x", "", Parent}
    <3>1. option \in Seq(OptionWord)
      BY DEF Flag
    <3>2. option = <<w>> /\ w \in OptionWord
      BY <1>3, <3>1
    <3>3. w \notin Languages \cup DirOptions \cup {"-x", "", Parent}
      BY <1>3 DEF Keywords
    <3> QED
      BY <3>1, <3>2, <3>3
  <2> HIDE DEF w
  <2>2. CASE w \in GluedLanguages
    <3>1. eaten = <<>>
      BY <2>1, <2>2, LanguageOne
    <3>2. Rewritten(option) = <<>>
      BY <3>1, AbsoluteEmpty DEF Rewritten
    <3>3. Meaning(option) = <<>>
      BY <2>1, <2>2 DEF Meaning
    <3>4. Closed(<<>>) /\ <<>> \in Seq(OptionWord) /\ Closed(option)
      BY <2>1, EmptySeq DEF Closed
    <3> QED
      BY <3>1, <3>2, <3>3, <3>4, WithoutEmpty
  <2>3. CASE w \notin GluedLanguages
    <3>1. eaten = <<w>>
      BY <2>1, <2>3, LanguageOne
    <3>2. Rewritten(option) = <<p>>
      BY <3>1, AbsoluteOne DEF Rewritten
    <3>3. Closed(<<w>>)
      BY <2>1 DEF Closed
    <3>4. p \in OptionWord
      BY <2>1, SpecialWords
    <3>5. Without({"", Parent}, <<p>>) = IF p \in {"", Parent} THEN <<>> ELSE <<p>>
      BY WithoutOne
    <3>6. Meaning(option) = IF p \in {"", Parent} THEN <<>> ELSE <<p>>
      <4>1. CASE w \in Unsupported
        <5>1. p = ""
          BY <4>1 DEF Unsupported
        <5> QED
          BY <2>1, <4>1, <5>1 DEF Meaning
      <4>2. CASE w = "-Ibazel"
        <5>1. /\ w \notin {"-x"} \cup GluedLanguages \cup Unsupported \cup DirOptions
              /\ "-I/work/bazel" \notin {"", Parent}
          BY <4>2 DEF GluedLanguages, Unsupported, DirOptions, Parent
        <5> QED
          BY <2>1, <4>2, <5>1 DEF Meaning
      <4>3. CASE w \notin Unsupported /\ w # "-Ibazel"
        <5>1. option # <<"-Ibazel">> /\ option[1] = w
          BY <2>1, <4>3
        <5> QED
          BY <2>1, <2>3, <4>3, <5>1 DEF Meaning
      <4> QED
        BY <4>1, <4>2, <4>3
    <3> HIDE DEF p
    <3>7. <<p>> \in Seq(OptionWord) /\ <<w>> \in Seq(OptionWord) /\ <<>> \in Seq(OptionWord)
      BY <2>1, <3>4, EmptySeq, OneIsSeq
    <3> QED
      BY <2>1, <3>1, <3>2, <3>3, <3>5, <3>6, <3>7
  <2> QED
    BY <2>2, <2>3
<1>4. IsLanguage \/ IsDirectory \/ IsWord
  <2>1. IsOption(option)
    BY DEF Flag
  <2> QED
    BY <2>1 DEF IsOption
<1> HIDE DEF IsLanguage, IsDirectory, IsWord
<1> QED
  BY <1>1, <1>2, <1>3, <1>4

\* Closed lists in a row are closed.
LEMMA ClosedConcat ==
  ASSUME NEW S, NEW s \in Seq(S), NEW t \in Seq(S), Closed(s), Closed(t)
  PROVE  Closed(s \o t)
<1>1. /\ s \o t \in Seq(S) /\ Len(s \o t) = Len(s) + Len(t)
      /\ \A i \in 1..Len(s) + Len(t) :
           (s \o t)[i] = IF i <= Len(s) THEN s[i] ELSE t[i - Len(s)]
  BY ConcatProperties
<1>2. Len(s) \in Nat /\ Len(t) \in Nat
  BY LenProperties
<1>3. CASE t = <<>>
  <2>1. s \o t = s
    BY <1>3, ConcatEmptySeq
  <2> QED
    BY <2>1
<1>4. CASE t # <<>>
  <2>1. Len(t) # 0
    BY <1>4, EmptySeq
  <2>2. /\ Len(s) + Len(t) \in 1..Len(s) + Len(t) /\ ~(Len(s) + Len(t) <= Len(s))
        /\ (Len(s) + Len(t)) - Len(s) = Len(t)
    BY <1>2, <2>1
  <2>3. (s \o t)[Len(s \o t)] = t[Len(t)]
    BY <1>1, <2>2
  <2> QED
    BY <1>4, <2>3 DEF Closed
<1> QED
  BY <1>3, <1>4

\* Two lists in a row are rewritten each for itself.
LEMMA RewrittenConcat ==
  ASSUME NEW S, NEW s \in Seq(S), NEW t \in Seq(S),
         Closed(s), Closed(eat_conflicting_language_args(s)),
         Rewritten(s) \in Seq(S), Rewritten(t) \in Seq(S)
  PROVE  /\ eat_conflicting_language_args(s \o t)
              = eat_conflicting_language_args(s) \o eat_conflicting_language_args(t)
         /\ Rewritten(s \o t) = Rewritten(s) \o Rewritten(t)
<1> DEFINE Eaten(w) == eat_conflicting_language_args(w)
<1>1. Eaten(s) \in Seq(S) /\ Eaten(t) \in Seq(S)
  BY LanguagePass
<1>2. Eaten(s \o t) = Eaten(s) \o Eaten(t)
  <2>1. s # <<>> => s[Len(s)] # "-x"
    BY DEF Closed
  <2> QED
    BY <2>1, LanguageConcat
<1>3. Eaten(s) # <<>> => Eaten(s)[Len(Eaten(s))] \notin DirOptions
  BY DEF Closed
<1>4. \A w : Rewritten(w) = AbsolutePaths(Eaten(w))
  BY DEF Rewritten
<1> HIDE DEF Eaten
<1>5. AbsolutePaths(Eaten(s)) \in Seq(S) /\ AbsolutePaths(Eaten(t)) \in Seq(S)
  BY <1>4
<1>6. AbsolutePaths(Eaten(s) \o Eaten(t)) = AbsolutePaths(Eaten(s)) \o AbsolutePaths(Eaten(t))
  BY <1>1, <1>3, <1>5, AbsoluteConcat
<1> QED
  BY <1>2, <1>4, <1>6 DEF Eaten

\* What each option of a command means.
Meanings(options) == [i \in DOMAIN options |-> Meaning(options[i])]

\* One more option adds its meaning.
LEMMA MeaningsStep ==
  ASSUME NEW options \in Seq(Flag), NEW option \in Flag
  PROVE  /\ Meanings(options) \in Seq(Seq(OptionWord))
         /\ Meanings(Append(options, option)) = Append(Meanings(options), Meaning(option))
<1> DEFINE more == Append(options, option)
<1>1. /\ more \in Seq(Flag) /\ Len(more) = Len(options) + 1
      /\ \A i \in 1..Len(options) : more[i] = options[i]
      /\ more[Len(options) + 1] = option
  BY AppendProperties
<1>2. /\ Len(options) \in Nat /\ DOMAIN options = 1..Len(options)
      /\ DOMAIN more = 1..Len(options) + 1
  BY <1>1, LenProperties
<1> HIDE DEF more
<1>3. ASSUME NEW s \in Seq(Flag)
      PROVE  /\ Meanings(s) \in Seq(Seq(OptionWord)) /\ Len(Meanings(s)) = Len(s)
             /\ \A i \in 1..Len(s) : Meanings(s)[i] = Meaning(s[i])
  <2>1. Len(s) \in Nat /\ DOMAIN s = 1..Len(s) /\ \A i \in 1..Len(s) : s[i] \in Flag
    BY LenProperties, ElementOfSeq
  <2>2. \A i \in 1..Len(s) : Meaning(s[i]) \in Seq(OptionWord)
    BY <2>1, OptionPass
  <2>3. Meanings(s) \in [1..Len(s) -> Seq(OptionWord)]
    BY <2>1, <2>2 DEF Meanings
  <2>4. \A i \in 1..Len(s) : Meanings(s)[i] = Meaning(s[i])
    BY <2>1 DEF Meanings
  <2> QED
    BY <2>1, <2>3, <2>4, FunctionIsSeq
<1>4. /\ Meanings(options) \in Seq(Seq(OptionWord)) /\ Len(Meanings(options)) = Len(options)
      /\ Meanings(more) \in Seq(Seq(OptionWord)) /\ Len(Meanings(more)) = Len(options) + 1
      /\ \A i \in 1..Len(options) : Meanings(more)[i] = Meanings(options)[i]
      /\ Meanings(more)[Len(options) + 1] = Meaning(option)
  <2>1. \A i \in 1..Len(options) : i \in 1..Len(more)
    BY <1>1, <1>2
  <2>2. Len(options) + 1 \in 1..Len(more)
    BY <1>1, <1>2
  <2> QED
    BY <1>1, <1>3, <2>1, <2>2
<1>5. Meaning(option) \in Seq(OptionWord)
  BY OptionPass
<1>6. Meanings(more) = Append(Meanings(options), Meaning(option))
  BY <1>4, <1>5, AppendIs
<1> QED
  BY <1>4, <1>6 DEF more

\* And what they make of all the options is what these mean.
PassesMeant(options) ==
  /\ FlattenSeq(options) \in Seq(OptionWord) /\ Closed(FlattenSeq(options))
  /\ eat_conflicting_language_args(FlattenSeq(options)) \in Seq(OptionWord)
  /\ Closed(eat_conflicting_language_args(FlattenSeq(options)))
  /\ Rewritten(FlattenSeq(options)) \in Seq(OptionWord)
  /\ Without({"", Parent}, Rewritten(FlattenSeq(options))) = FlattenSeq(Meanings(options))

\* One more option, and the passes still do what the options mean.
LEMMA PassesStep ==
  ASSUME NEW options \in Seq(Flag), NEW option \in Flag, PassesMeant(options)
  PROVE  PassesMeant(Append(options, option))
<1> DEFINE words == FlattenSeq(options)
           more == FlattenSeq(Append(options, option))
           Eaten(w) == eat_conflicting_language_args(w)
<1>1. /\ words \in Seq(OptionWord) /\ Closed(words)
      /\ Eaten(words) \in Seq(OptionWord) /\ Closed(Eaten(words))
      /\ Rewritten(words) \in Seq(OptionWord)
      /\ Without({"", Parent}, Rewritten(words)) = FlattenSeq(Meanings(options))
  BY DEF PassesMeant
<1>2. /\ option \in Seq(OptionWord) /\ Closed(option)
      /\ Eaten(option) \in Seq(OptionWord) /\ Closed(Eaten(option))
      /\ Rewritten(option) \in Seq(OptionWord)
      /\ Without({"", Parent}, Rewritten(option)) = Meaning(option)
      /\ Meaning(option) \in Seq(OptionWord)
  BY OptionPass DEF Flag
<1>3. more = words \o option
  <2>1. options \in Seq(Seq(OptionWord))
    <3>1. Flag \subseteq Seq(OptionWord)
      BY DEF Flag
    <3> QED
      BY <3>1, SeqMonotonic
  <2> QED
    BY <1>2, <2>1, FlattenStep
<1> HIDE DEF words, more
<1>4. Eaten(more) = Eaten(words) \o Eaten(option)
  BY <1>1, <1>2, <1>3, RewrittenConcat
<1>5. Rewritten(more) = Rewritten(words) \o Rewritten(option)
  BY <1>1, <1>2, <1>3, RewrittenConcat
<1>6. Without({"", Parent}, Rewritten(more))
        = FlattenSeq(Meanings(options)) \o Meaning(option)
  <2>1. Without({"", Parent}, Rewritten(words) \o Rewritten(option))
          = Without({"", Parent}, Rewritten(words)) \o Without({"", Parent}, Rewritten(option))
    <3> DEFINE X == {"", Parent}
    <3> HIDE DEF X
    <3>1. Without(X, Rewritten(words) \o Rewritten(option))
            = Without(X, Rewritten(words)) \o Without(X, Rewritten(option))
      <4>1. Rewritten(words) \in Seq(OptionWord) /\ Rewritten(option) \in Seq(OptionWord)
        BY <1>1, <1>2
      <4>2. \A t \in Seq(OptionWord) :
              Without(X, Rewritten(words) \o t) = Without(X, Rewritten(words)) \o Without(X, t)
        BY <4>1, WithoutConcat
      <4> QED
        BY <4>1, <4>2
    <3> QED
      BY <3>1 DEF X
  <2> QED
    BY <1>1, <1>2, <1>5, <2>1
<1>7. FlattenSeq(Meanings(Append(options, option)))
        = FlattenSeq(Meanings(options)) \o Meaning(option)
  BY <1>2, MeaningsStep, FlattenStep
<1>8. /\ more \in Seq(OptionWord) /\ Eaten(more) \in Seq(OptionWord)
      /\ Rewritten(more) \in Seq(OptionWord)
  BY <1>1, <1>2, <1>3, <1>4, <1>5, ConcatProperties
<1>9. Closed(more) /\ Closed(Eaten(more))
  BY <1>1, <1>2, <1>3, <1>4, ClosedConcat
<1> QED
  BY <1>6, <1>7, <1>8, <1>9 DEF PassesMeant, more, Eaten

\* The passes over the words of a command do what its options mean, whatever the options
\* are and however many.
LEMMA Passes == \A options \in Seq(Flag) : PassesMeant(options)
<1> DEFINE T == {options \in Seq(Flag) : PassesMeant(options)}
<1>1. <<>> \in T
  <2>1. <<>> \in Seq(OptionWord) /\ Closed(<<>>) /\ <<>> \in Seq(Flag)
    BY EmptySeq DEF Closed
  <2>2. LanguagePieces(<<>>) = <<>>
    <3>1. <<>> \in Seq({})
      BY EmptySeq
    <3>2. LanguagePieces(<<>>) \in Seq(Seq({})) /\ Len(LanguagePieces(<<>>)) = 0
      BY <3>1, EmptySeq, LanguagePass
    <3> QED
      BY <3>2, EmptySeq
  <2>3. eat_conflicting_language_args(<<>>) = <<>>
    BY <2>1, <2>2, LanguagePass, FlattenEmpty
  <2>4. Rewritten(<<>>) = <<>>
    BY <2>3, AbsoluteEmpty DEF Rewritten
  <2>5. Meanings(<<>>) = <<>>
    <3>1. Meanings(<<>>) \in [1..0 -> {}]
      <4>1. DOMAIN <<>> = 1..0
        OBVIOUS
      <4> QED
        BY <4>1 DEF Meanings
    <3>2. Meanings(<<>>) \in Seq({}) /\ Len(Meanings(<<>>)) = 0
      BY <3>1, FunctionIsSeq
    <3> QED
      BY <3>2, EmptySeq
  <2> QED
    BY <2>1, <2>3, <2>4, <2>5, FlattenEmpty, WithoutEmpty DEF PassesMeant
<1>2. ASSUME NEW options \in T, NEW option \in Flag
      PROVE  Append(options, option) \in T
  <2>1. options \in Seq(Flag) /\ PassesMeant(options) /\ Append(options, option) \in Seq(Flag)
    OBVIOUS
  <2>2. PassesMeant(Append(options, option))
    BY <2>1, PassesStep
  <2> QED
    BY <2>1, <2>2
<1>3. T \subseteq Seq(Flag)
  OBVIOUS
<1> HIDE DEF T
<1>4. \A options \in Seq(Flag) : options \in T
  BY <1>1, <1>2, <1>3, SequenceInduction
<1> QED
  BY <1>4 DEF T

-----------------------------------------------------------------------------
\* An option and the argument after it, taken out of a list.
LEMMA EatNone ==
  ASSUME NEW S, NEW args \in Seq(S), NEW option,
         \A i \in 1..Len(args) : args[i] # option
  PROVE  Eat(option, args) = args
<1>1. {i \in 1..Len(args) : args[i] = option} = {}
  OBVIOUS
<1>2. SelectInSeq(args, LAMBDA a : a = option) = 0
  BY <1>1 DEF SelectInSeq
<1> QED
  BY <1>2 DEF Eat

\* An option is taken out where it is first found.
LEMMA EatAt ==
  ASSUME NEW S, NEW args \in Seq(S), NEW option, NEW n \in 1..Len(args),
         args[n] = option, \A i \in 1..n - 1 : args[i] # option
  PROVE  Eat(option, args) = SubSeq(args, 1, n - 1) \o SubSeq(args, n + 2, Len(args))
<1> DEFINE I == {i \in 1..Len(args) : args[i] = option}
<1>1. Len(args) \in Nat
  BY LenProperties
<1>2. n \in I /\ \A i \in I : n <= i
  <2>1. \A i \in 1..Len(args) : i < n => i \in 1..n - 1
    BY <1>1
  <2> QED
    BY <1>1, <2>1
<1>3. Min(I) = n
  <2>1. I \subseteq Nat
    BY <1>1
  <2> HIDE DEF I
  <2>2. \A m \in I : (\A i \in I : m <= i) => m = n
    BY <1>2, <2>1
  <2>3. Min(I) \in I /\ \A i \in I : Min(I) <= i
    BY <1>2 DEF Min
  <2> QED
    BY <2>2, <2>3
<1>4. SelectInSeq(args, LAMBDA a : a = option) = n
  BY <1>2, <1>3 DEF SelectInSeq
<1>5. n # 0
  BY <1>1
<1> QED
  BY <1>4, <1>5 DEF Eat

\* An option and its argument are taken out from between what is left.
LEMMA EatBetween ==
  ASSUME NEW S, NEW s \in Seq(S), NEW t \in Seq(S), NEW option \in S, NEW w \in S,
         \A i \in 1..Len(s) : s[i] # option
  PROVE  Eat(option, s \o (<<option, w>> \o t)) = s \o t
<1> DEFINE rest == <<option, w>> \o t
           args == s \o rest
           n == Len(s) + 1
<1>1. Len(s) \in Nat /\ Len(t) \in Nat
  BY LenProperties
<1>2. /\ rest \in Seq(S) /\ Len(rest) = Len(t) + 2
      /\ rest[1] = option /\ \A i \in 1..Len(t) : rest[i + 2] = t[i]
  <2>1. <<option, w>> \in Seq(S) /\ Len(<<option, w>>) = 2 /\ <<option, w>>[1] = option
    OBVIOUS
  <2>2. /\ rest \in Seq(S) /\ Len(rest) = 2 + Len(t)
        /\ \A i \in 1..2 + Len(t) :
             rest[i] = IF i <= 2 THEN <<option, w>>[i] ELSE t[i - 2]
    BY <2>1, ConcatProperties
  <2> HIDE DEF rest
  <2>3. \A i \in 1..Len(t) : /\ i + 2 \in 1..2 + Len(t) /\ ~(i + 2 <= 2)
                             /\ (i + 2) - 2 = i
    BY <1>1
  <2>4. \A i \in 1..Len(t) : rest[i + 2] = t[i]
    BY <2>2, <2>3
  <2>5. 1 \in 1..2 + Len(t) /\ 1 <= 2
    BY <1>1
  <2> QED
    BY <1>1, <2>1, <2>2, <2>4, <2>5
<1> HIDE DEF rest
<1>3. /\ args \in Seq(S) /\ Len(args) = Len(s) + (Len(t) + 2)
      /\ \A i \in 1..Len(s) : args[i] = s[i]
      /\ args[n] = option
      /\ \A i \in 1..Len(t) : args[Len(s) + (i + 2)] = t[i]
  <2>1. /\ args \in Seq(S) /\ Len(args) = Len(s) + Len(rest)
        /\ \A i \in 1..Len(s) + Len(rest) :
             args[i] = IF i <= Len(s) THEN s[i] ELSE rest[i - Len(s)]
    BY <1>2, ConcatProperties
  <2> HIDE DEF args
  <2>2. \A i \in 1..Len(s) : args[i] = s[i]
    BY <1>1, <1>2, <2>1
  <2>3. args[n] = option
    <3>1. n \in 1..Len(s) + Len(rest) /\ ~(n <= Len(s)) /\ n - Len(s) = 1
      BY <1>1, <1>2
    <3> QED
      BY <1>2, <2>1, <3>1
  <2>4. ASSUME NEW i \in 1..Len(t)
        PROVE  args[Len(s) + (i + 2)] = t[i]
    <3> DEFINE k == Len(s) + (i + 2)
    <3>1. k \in 1..Len(s) + Len(rest) /\ ~(k <= Len(s)) /\ k - Len(s) = i + 2
      BY <1>1, <1>2
    <3>2. args[k] = rest[i + 2]
      <4> HIDE DEF k
      <4> QED
        BY <2>1, <3>1
    <3> QED
      BY <1>2, <3>2
  <2> QED
    BY <1>2, <2>1, <2>2, <2>3, <2>4
<1> HIDE DEF args
<1>4. Eat(option, args) = SubSeq(args, 1, n - 1) \o SubSeq(args, n + 2, Len(args))
  <2>1. n \in 1..Len(args) /\ \A i \in 1..n - 1 : args[i] # option
    BY <1>1, <1>3
  <2> HIDE DEF n
  <2> QED
    BY <1>3, <2>1, EatAt
<1>5. SubSeq(args, 1, n - 1) = s
  <2> DEFINE u == SubSeq(args, 1, n - 1)
  <2>1. \A i \in 1..n - 1 : args[i] \in S
    BY <1>1, <1>3, ElementOfSeq
  <2>2. /\ u \in Seq(S) /\ Len(u) = Len(s)
        /\ \A i \in 1..Len(s) : u[i] = args[i]
    BY <1>1, <2>1, SubSeqProperties
  <2> HIDE DEF u
  <2>3. u = s
    BY <1>3, <2>2, SeqEqual
  <2> QED
    BY <2>3 DEF u
<1>6. SubSeq(args, n + 2, Len(args)) = t
  <2> DEFINE u == SubSeq(args, n + 2, Len(args))
  <2>1. \A i \in n + 2..Len(args) : args[i] \in S
    BY <1>1, <1>3, ElementOfSeq
  <2>2. /\ u \in Seq(S) /\ Len(u) = Len(t)
        /\ \A i \in 1..Len(t) : u[i] = args[Len(s) + (i + 2)]
    <3>1. n + 2 \in Int /\ Len(args) \in Int
      BY <1>1, <1>3
    <3>2. /\ u \in Seq(S)
          /\ Len(u) = IF n + 2 <= Len(args) THEN Len(args) - (n + 2) + 1 ELSE 0
          /\ \A i \in 1..Len(args) - (n + 2) + 1 : u[i] = args[(n + 2) + i - 1]
      BY <2>1, <3>1, SubSeqProperties
    <3>3. Len(u) = Len(t)
      BY <1>1, <1>3, <3>2
    <3>4. \A i \in 1..Len(t) : /\ i \in 1..Len(args) - (n + 2) + 1
                               /\ (n + 2) + i - 1 = Len(s) + (i + 2)
      BY <1>1, <1>3
    <3> HIDE DEF u, n
    <3> QED
      BY <3>2, <3>3, <3>4
  <2> HIDE DEF u
  <2>3. u = t
    BY <1>3, <2>2, SeqEqual
  <2> QED
    BY <2>3 DEF u
<1> QED
  BY <1>4, <1>5, <1>6 DEF args, rest

-----------------------------------------------------------------------------
\* A word that no pass changes.
LEMMA RewrittenOne ==
  ASSUME NEW w \in Word,
         w \notin Languages \cup GluedLanguages \cup DirOptions \cup Unsupported
                    \cup {"-x", "-Ibazel"}
  PROVE  /\ Rewritten(<<w>>) = <<w>> /\ eat_conflicting_language_args(<<w>>) = <<w>>
         /\ Closed(<<w>>) /\ <<w>> \in Seq(Word)
<1>1. eat_conflicting_language_args(<<w>>) = <<w>>
  BY LanguageOne
<1>2. Rewritten(<<w>>) = <<w>>
  BY <1>1, AbsoluteOne DEF Rewritten
<1>3. Closed(<<w>>)
  BY DEF Closed
<1>4. <<w>> \in Seq(Word)
  BY OneIsSeq
<1> QED
  BY <1>1, <1>2, <1>3, <1>4

\* Lists of words, word by word.
LEMMA Pairs ==
  ASSUME NEW S, NEW a \in S, NEW b \in S
  PROVE  <<a, b>> = <<a>> \o <<b>>
<1>1. <<a, b>> \in Seq(S) /\ <<a>> \in Seq(S)
  BY OneIsSeq, TwoIsSeq
<1>2. <<a, b>> = Append(<<a>>, b)
  BY <1>1, AppendIs
<1>3. Append(<<a>>, b) = <<a>> \o <<b>>
  BY <1>1, AppendIsConcat
<1> QED
  BY <1>2, <1>3

\* Four words are two and two.
LEMMA Fours ==
  ASSUME NEW S, NEW a \in S, NEW b \in S, NEW c \in S, NEW d \in S
  PROVE  /\ <<a, b, c, d>> = <<a, b>> \o <<c, d>> /\ <<a, b, c, d>> \in Seq(S)
<1> DEFINE p == <<a, b>>
           q == <<c, d>>
           r == <<a, b, c, d>>
<1>1. /\ p \in Seq(S) /\ Len(p) = 2 /\ p[1] = a /\ p[2] = b
      /\ q \in Seq(S) /\ Len(q) = 2 /\ q[1] = c /\ q[2] = d
      /\ r \in Seq(S) /\ Len(r) = 4 /\ r[1] = a /\ r[2] = b /\ r[3] = c /\ r[4] = d
  OBVIOUS
<1> HIDE DEF p, q, r
<1>2. \A i \in 1..2 : r[i] = p[i] /\ r[2 + i] = q[i]
  <2>1. \A i \in 1..2 : i = 1 \/ i = 2
    OBVIOUS
  <2>2. 2 + 1 = 3 /\ 2 + 2 = 4
    OBVIOUS
  <2> QED
    BY <1>1, <2>1, <2>2
<1>3. /\ \A i \in 1..Len(p) : r[i] = p[i]
      /\ \A i \in 1..Len(q) : r[Len(p) + i] = q[i]
      /\ Len(r) = Len(p) + Len(q)
  BY <1>1, <1>2
<1>4. r = p \o q
  BY <1>1, <1>3, ConcatIs
<1> QED
  BY <1>1, <1>4 DEF p, q, r

-----------------------------------------------------------------------------
\* The directory the database is for, which comes behind every command.
WorkingDir == <<"-working-directory", "/work">>

\* The command of a unit up to its files, and what of it is left to be rewritten.
Beginning(u) == <<"cc">> \o FlattenSeq(Options[u])

\* The arguments of a unit's entry.
Extracted(u) ==
  default_compiler_args \o (Rewritten(FlattenSeq(Options[u])) \o WorkingDir)

\* Names are no special words, and what is of options is among the words.
LEMMA WordsAre ==
  /\ \A f \in File : f \in Word /\ f \notin Special
  /\ \A u \in Unit : u \in File /\ Object[u] \in Word /\ Object[u] \notin Special
  /\ {"cc", "-c", "-o", "--", "-x", "c++", "c++-header", "-working-directory", "/work",
      "-I/usr/include"} \subseteq Word \cap Special
  /\ OptionWord \subseteq Word
<1>1. \A f \in File : f \in Word /\ f \notin Special
  BY NamesAssumption DEF Word, Special, IncludeForms
<1>2. \A u \in Unit : u \in File /\ Object[u] \in Word /\ Object[u] \notin Special
  BY NamesAssumption DEF File, Word
<1>3. {"cc", "-c", "-o", "--", "-x", "c++", "c++-header", "-working-directory", "/work",
       "-I/usr/include"} \subseteq Special \ {Parent}
  BY DEF Special, Keywords, Languages, OneWordForms, Parent
<1>4. Special \ {Parent} \subseteq Word /\ OptionWord \subseteq Word
  BY DEF Word, OptionWord
<1> QED
  BY <1>1, <1>2, <1>3, <1>4

\* The default arguments are words of any set that has the three they are made of.
LEMMA DefaultWords ==
  ASSUME NEW W, "-x" \in W, "c++" \in W, "-I/usr/include" \in W
  PROVE  default_compiler_args \in Seq(W) /\ Len(default_compiler_args) > 0
<1>1. <<"-x", "c++">> \in Seq(W) /\ Len(<<"-x", "c++">>) = 2
  BY TwoIsSeq
<1>2. SystemIncludes \in Seq(W) /\ Len(SystemIncludes) \in Nat
  <2>1. {"-I/usr/include"} \subseteq W
    OBVIOUS
  <2> QED
    BY <2>1, IncludesAssumption, SeqMonotonic, LenProperties
<1>3. /\ <<"-x", "c++">> \o SystemIncludes \in Seq(W)
      /\ Len(<<"-x", "c++">> \o SystemIncludes) = 2 + Len(SystemIncludes)
  BY <1>1, <1>2, ConcatProperties
<1> QED
  BY <1>2, <1>3 DEF default_compiler_args

\* The working directory is left alone, whatever comes before it.
LEMMA RewrittenWorkingDir ==
  /\ WorkingDir \in Seq(Word \ File) /\ WorkingDir \in Seq(Word)
  /\ Rewritten(WorkingDir) = WorkingDir
<1> DEFINE a == "-working-directory"
           b == "/work"
<1>1. a \in Word /\ b \in Word /\ a \notin File /\ b \notin File
  BY WordsAre, NamesAssumption
<1>2. /\ a \notin Languages \cup GluedLanguages \cup DirOptions \cup Unsupported
                    \cup {"-x", "-Ibazel"}
      /\ b \notin Languages \cup GluedLanguages \cup DirOptions \cup Unsupported
                    \cup {"-x", "-Ibazel"}
  BY DEF Languages, GluedLanguages, DirOptions, Unsupported
<1>3. WorkingDir = <<a, b>>
  BY DEF WorkingDir
<1> HIDE DEF a, b
<1>4. WorkingDir \in Seq(Word \ File) /\ WorkingDir \in Seq(Word)
  BY <1>1, <1>3, TwoIsSeq
<1>5. WorkingDir = <<a>> \o <<b>>
  BY <1>1, <1>3, Pairs
<1>6. /\ Rewritten(<<a>>) = <<a>> /\ eat_conflicting_language_args(<<a>>) = <<a>>
      /\ Closed(<<a>>) /\ <<a>> \in Seq(Word)
      /\ Rewritten(<<b>>) = <<b>> /\ <<b>> \in Seq(Word)
  BY <1>1, <1>2, RewrittenOne
<1>7. Rewritten(<<a>> \o <<b>>) = Rewritten(<<a>>) \o Rewritten(<<b>>)
  BY <1>6, RewrittenConcat
<1> QED
  BY <1>4, <1>5, <1>6, <1>7

\* What comes after the options of a command libclang makes up.
LEMMA RewrittenRest ==
  ASSUME NEW f \in File
  PROVE  /\ Rewritten(<<f>> \o WorkingDir) = <<f>> \o WorkingDir
         /\ Rewritten(<<"c++-header">> \o WorkingDir) = WorkingDir
<1>1. WorkingDir \in Seq(Word) /\ Rewritten(WorkingDir) = WorkingDir
  BY RewrittenWorkingDir
<1>2. Rewritten(<<f>> \o WorkingDir) = <<f>> \o WorkingDir
  <2>1. /\ f \in Word
        /\ f \notin Languages \cup GluedLanguages \cup DirOptions \cup Unsupported
                      \cup {"-x", "-Ibazel"}
    BY WordsAre DEF Special, Keywords, OneWordForms
  <2>2. /\ Rewritten(<<f>>) = <<f>> /\ eat_conflicting_language_args(<<f>>) = <<f>>
        /\ Closed(<<f>>) /\ <<f>> \in Seq(Word)
    BY <2>1, RewrittenOne
  <2>3. Rewritten(<<f>> \o WorkingDir) = Rewritten(<<f>>) \o Rewritten(WorkingDir)
    BY <1>1, <2>2, RewrittenConcat
  <2> QED
    BY <1>1, <2>2, <2>3
<1>3. Rewritten(<<"c++-header">> \o WorkingDir) = WorkingDir
  <2> DEFINE h == "c++-header"
  <2>1. h \in Word /\ h \in Languages /\ h \notin {"-x"} \cup DirOptions
    BY WordsAre DEF Languages, DirOptions
  <2> HIDE DEF h
  <2>2. eat_conflicting_language_args(<<h>>) = <<>>
    BY <2>1, LanguageOne
  <2>3. Rewritten(<<h>>) = <<>>
    BY <2>2, AbsoluteEmpty DEF Rewritten
  <2>4. Closed(<<h>>) /\ Closed(<<>>)
    BY <2>1, EmptySeq DEF Closed
  <2>5. <<h>> \in Seq(Word) /\ <<>> \in Seq(Word)
    BY <2>1, OneIsSeq, EmptySeq
  <2>6. Rewritten(<<h>> \o WorkingDir) = Rewritten(<<h>>) \o Rewritten(WorkingDir)
    BY <1>1, <2>2, <2>3, <2>4, <2>5, RewrittenConcat
  <2>7. <<>> \o WorkingDir = WorkingDir
    BY <1>1, ConcatEmptySeq
  <2> QED
    BY <1>1, <2>3, <2>6, <2>7 DEF h
<1> QED
  BY <1>2, <1>3

\* The rest of a command, once the compiler and the names of files are out of it, is
\* rewritten to the arguments of its unit: with another language, or with the name of
\* the file asked for, which is filtered out.
LEMMA ExtractFrom ==
  ASSUME NEW u \in Unit, NEW f \in File,
         NEW rest \in {WorkingDir, <<f>> \o WorkingDir, <<"c++-header">> \o WorkingDir}
  PROVE  Without({f}, default_compiler_args \o
                        AbsolutePaths(eat_conflicting_language_args(
                          FlattenSeq(Options[u]) \o rest))) = Extracted(u)
<1> DEFINE F == FlattenSeq(Options[u])
           W == Word \ File
<1>1. /\ F \in Seq(Word) /\ Closed(F) /\ Closed(eat_conflicting_language_args(F))
      /\ Rewritten(F) \in Seq(W) /\ Rewritten(F) \in Seq(Word)
  <2>1. PassesMeant(Options[u])
    BY OptionsAre, Passes
  <2>2. OptionWord \subseteq Word /\ OptionWord \subseteq W
    BY DEF OptionWord
  <2> QED
    BY <2>1, <2>2, SeqMonotonic DEF PassesMeant
<1>2. /\ WorkingDir \in Seq(W) /\ WorkingDir \in Seq(Word)
      /\ Rewritten(WorkingDir) = WorkingDir
  BY RewrittenWorkingDir
<1>3. /\ <<f>> \in Seq(Word) /\ <<"c++-header">> \in Seq(Word)
      /\ <<f>> \o WorkingDir \in Seq(Word) /\ <<"c++-header">> \o WorkingDir \in Seq(Word)
  <2>1. f \in Word /\ "c++-header" \in Word
    BY WordsAre
  <2>2. <<f>> \in Seq(Word) /\ <<"c++-header">> \in Seq(Word)
    BY <2>1, OneIsSeq
  <2> QED
    BY <1>2, <2>2, ConcatProperties
<1>4. rest \in Seq(Word) /\ Rewritten(rest) \in {WorkingDir, <<f>> \o WorkingDir}
  BY <1>2, <1>3, RewrittenRest
<1>5. Rewritten(rest) \in Seq(Word)
  BY <1>2, <1>3, <1>4
<1>6. Rewritten(F \o rest) = Rewritten(F) \o Rewritten(rest)
  BY <1>1, <1>4, <1>5, RewrittenConcat
<1> DEFINE X == {f}
<1>7. W \cap X = {} /\ \A s \in Seq(W) : Without(X, s) = s
  <2>1. W \cap X = {}
    OBVIOUS
  <2> HIDE DEF X, W
  <2> QED
    BY <2>1, WithoutNone
<1>8. \A s, t \in Seq(Word) : Without(X, s \o t) = Without(X, s) \o Without(X, t)
  <2> HIDE DEF X
  <2> QED
    BY WithoutConcat
<1>9. Without(X, Rewritten(rest)) = WorkingDir
  <2>1. CASE Rewritten(rest) = WorkingDir
    BY <1>2, <1>7, <2>1
  <2>2. CASE Rewritten(rest) = <<f>> \o WorkingDir
    <3>1. Without(X, <<f>>) = <<>>
      BY WithoutOne
    <3>2. Without(X, WorkingDir) = WorkingDir
      BY <1>2, <1>7
    <3>3. <<>> \o WorkingDir = WorkingDir
      BY <1>2, ConcatEmptySeq
    <3>4. Without(X, <<f>> \o WorkingDir) = Without(X, <<f>>) \o Without(X, WorkingDir)
      BY <1>2, <1>3, <1>8
    <3> QED
      BY <2>2, <3>1, <3>2, <3>3, <3>4
  <2> QED
    BY <1>4, <2>1, <2>2
<1>10. default_compiler_args \in Seq(W) /\ default_compiler_args \in Seq(Word)
  <2>1. "-x" \in W /\ "c++" \in W /\ "-I/usr/include" \in W
    BY WordsAre, NamesAssumption
  <2>2. W \subseteq Word
    OBVIOUS
  <2> HIDE DEF W
  <2>3. default_compiler_args \in Seq(W)
    BY <2>1, DefaultWords
  <2> QED
    BY <2>2, <2>3, SeqMonotonic
<1> HIDE DEF X
<1>11. Without(X, default_compiler_args \o Rewritten(F \o rest)) = Extracted(u)
  <2>1. Rewritten(F) \o Rewritten(rest) \in Seq(Word)
    BY <1>1, <1>5, ConcatProperties
  <2>2. Without(X, default_compiler_args \o (Rewritten(F) \o Rewritten(rest)))
          = Without(X, default_compiler_args) \o Without(X, Rewritten(F) \o Rewritten(rest))
    BY <1>8, <1>10, <2>1
  <2>3. Without(X, Rewritten(F) \o Rewritten(rest))
          = Without(X, Rewritten(F)) \o Without(X, Rewritten(rest))
    BY <1>1, <1>5, <1>8
  <2>4. /\ Without(X, default_compiler_args) = default_compiler_args
        /\ Without(X, Rewritten(F)) = Rewritten(F)
    BY <1>1, <1>7, <1>10
  <2>5. default_compiler_args \o (Rewritten(F) \o WorkingDir) = Extracted(u)
    BY DEF Extracted
  <2> HIDE DEF F
  <2> QED
    BY <1>6, <1>9, <2>2, <2>3, <2>4, <2>5
<1> QED
  BY <1>11 DEF X, Rewritten

-----------------------------------------------------------------------------
\* An option that is there once, with the argument after it, and one that is not there.
LEMMA EatOnce ==
  ASSUME NEW option \in Word, NEW w \in Word,
         NEW s \in Seq(Word \ {option}), NEW t \in Seq(Word)
  PROVE  Eat(option, s \o (<<option, w>> \o t)) = s \o t
<1>1. s \in Seq(Word) /\ \A i \in 1..Len(s) : s[i] # option
  <2>1. \A i \in 1..Len(s) : s[i] \in Word \ {option}
    BY ElementOfSeq
  <2>2. Word \ {option} \subseteq Word
    OBVIOUS
  <2> QED
    BY <2>1, <2>2, SeqMonotonic
<1> QED
  BY <1>1, EatBetween

\* An option that is not there is not taken out.
LEMMA EatNot ==
  ASSUME NEW option, NEW args \in Seq(Word \ {option})
  PROVE  Eat(option, args) = args
<1>1. \A i \in 1..Len(args) : args[i] \in Word \ {option}
  BY ElementOfSeq
<1> QED
  BY <1>1, EatNone

\* The compiler goes; the rest is left.
LEMMA TailOfConcat ==
  ASSUME NEW S, NEW e \in S, NEW s \in Seq(S)
  PROVE  Tail(<<e>> \o s) = s
<1> DEFINE t == <<e>> \o s
<1>1. <<e>> \in Seq(S) /\ Len(<<e>>) = 1
  BY OneIsSeq
<1>2. /\ t \in Seq(S) /\ Len(t) = 1 + Len(s)
      /\ \A i \in 1..1 + Len(s) : t[i] = IF i <= 1 THEN <<e>>[i] ELSE s[i - 1]
  BY <1>1, ConcatProperties
<1>3. Len(s) \in Nat
  BY LenProperties
<1> HIDE DEF t
<1>4. t # <<>>
  BY <1>2, <1>3, EmptySeq
<1>5. /\ Tail(t) \in Seq(S) /\ Len(Tail(t)) = Len(t) - 1
      /\ \A i \in 1..Len(Tail(t)) : Tail(t)[i] = t[i + 1]
  BY <1>2, <1>4, HeadTailProperties
<1>6. Len(Tail(t)) = Len(s)
  BY <1>2, <1>3, <1>5
<1>7. \A i \in 1..Len(s) : t[i + 1] = s[i]
  <2>1. \A i \in 1..Len(s) : i + 1 \in 1..1 + Len(s) /\ ~(i + 1 <= 1) /\ (i + 1) - 1 = i
    BY <1>3
  <2> QED
    BY <1>2, <2>1
<1>8. Tail(t) = s
  BY <1>5, <1>6, <1>7, SeqEqual
<1> QED
  BY <1>8 DEF t

\* A command up to its files: no option that announces a file is among it.
LEMMA BeginningIs ==
  ASSUME NEW u \in Unit
  PROVE  /\ Beginning(u) \in Seq(OptionWord) /\ Beginning(u) \in Seq(Word)
         /\ \A option \in FileOption : Beginning(u) \in Seq(Word \ {option})
         /\ \A t \in Seq(Word) : Tail(Beginning(u) \o t) = FlattenSeq(Options[u]) \o t
<1> DEFINE F == FlattenSeq(Options[u])
<1>1. F \in Seq(OptionWord)
  <2>1. PassesMeant(Options[u])
    BY OptionsAre, Passes
  <2> QED
    BY <2>1 DEF PassesMeant
<1>2. "cc" \in OptionWord
  BY SpecialWords DEF Special, Keywords, FileOption, Parent
<1>3. <<"cc">> \in Seq(OptionWord)
  BY <1>2, OneIsSeq
<1>4. Beginning(u) = <<"cc">> \o F
  BY DEF Beginning
<1>5. Beginning(u) \in Seq(OptionWord)
  BY <1>1, <1>3, <1>4, ConcatProperties
<1>6. /\ OptionWord \subseteq Word
      /\ \A option \in FileOption : OptionWord \subseteq Word \ {option}
  BY DEF OptionWord
<1>7. Beginning(u) \in Seq(Word) /\ F \in Seq(Word) /\ <<"cc">> \in Seq(Word)
  BY <1>1, <1>3, <1>5, <1>6, SeqMonotonic
<1>8. \A option \in FileOption : Beginning(u) \in Seq(Word \ {option})
  BY <1>5, <1>6, SeqMonotonic
<1> HIDE DEF F
<1>9. ASSUME NEW t \in Seq(Word)
      PROVE  Tail(Beginning(u) \o t) = F \o t
  <2>1. Beginning(u) \o t = <<"cc">> \o (F \o t)
    BY <1>4, <1>7, ConcatAssociative
  <2>2. F \o t \in Seq(Word)
    BY <1>7, ConcatProperties
  <2>3. "cc" \in Word
    BY <1>2, <1>6
  <2>4. Tail(<<"cc">> \o (F \o t)) = F \o t
    BY <2>2, <2>3, TailOfConcat
  <2> QED
    BY <2>1, <2>4
<1> QED
  BY <1>5, <1>7, <1>8, <1>9 DEF F

\* The passes that take out the names of files, and the compiler.
Passed(args) == Tail(Eat("--", Eat("-o", Eat("-c", args))))

\* Whatever the passes leave behind the options (nothing, the file, or a language that
\* lost its option), the arguments are those of the entry.
LEMMA ExtractPassed ==
  ASSUME NEW command, NEW u \in Unit, NEW f \in File,
         NEW rest \in {WorkingDir, <<f>> \o WorkingDir, <<"c++-header">> \o WorkingDir},
         Passed(command \o WorkingDir) = FlattenSeq(Options[u]) \o rest
  PROVE  extract_compiler_args(command, f) = Extracted(u)
<1>1. extract_compiler_args(command, f) =
        Without({f}, default_compiler_args \o
                       AbsolutePaths(eat_conflicting_language_args(
                         Passed(command \o WorkingDir))))
  BY DEF extract_compiler_args, Passed, WorkingDir
<1> QED
  BY <1>1, ExtractFrom

\* What of a file's name, an object or the working directory is not which option.
LEMMA FileOptionsAre ==
  /\ "-c" \in Word /\ "-o" \in Word /\ "--" \in Word /\ "-x" \in Word
  /\ "c++-header" \in Word
  /\ \A option \in FileOption :
       /\ \A f \in File : f \in Word \ {option}
       /\ \A u \in Unit : Object[u] \in Word \ {option}
       /\ WorkingDir \in Seq(Word \ {option})
       /\ "c++-header" \in Word \ {option}
  /\ FileOption = {"-c", "-o", "--"}
<1>1. FileOption \subseteq Special
  BY DEF FileOption, Special, Keywords
<1>2. \A option \in FileOption : /\ "-working-directory" \in Word \ {option}
                                 /\ "/work" \in Word \ {option}
                                 /\ "c++-header" \in Word \ {option}
  BY WordsAre DEF FileOption
<1>3. \A option \in FileOption : WorkingDir \in Seq(Word \ {option})
  BY <1>2, TwoIsSeq DEF WorkingDir
<1> QED
  BY <1>1, <1>2, <1>3, WordsAre DEF FileOption

\* The arguments of an entry, whatever the order of the files in its command.
LEMMA ExtractCommand ==
  ASSUME NEW u \in Unit
  PROVE  extract_compiler_args(Command(u), u) = Extracted(u)
<1> DEFINE B == Beginning(u)
           source == <<"-c", u>>
           object == <<"-o", Object[u]>>
<1>1. /\ u \in File /\ u \in Word /\ Object[u] \in Word
      /\ "-c" \in FileOption /\ "-o" \in FileOption /\ "--" \in FileOption
      /\ "-c" \in Word /\ "-o" \in Word /\ "--" \in Word
  BY FileOptionsAre, WordsAre
<1>2. /\ source \in Seq(Word) /\ object \in Seq(Word)
      /\ object \in Seq(Word \ {"-c"})
  <2>1. "-o" \in Word \ {"-c"} /\ Object[u] \in Word \ {"-c"}
    BY <1>1, FileOptionsAre
  <2> QED
    BY <1>1, <2>1, TwoIsSeq
<1>3. /\ WorkingDir \in Seq(Word)
      /\ \A option \in FileOption : WorkingDir \in Seq(Word \ {option})
  BY RewrittenWorkingDir, FileOptionsAre
<1>4. /\ B \in Seq(Word)
      /\ \A option \in FileOption : B \in Seq(Word \ {option})
      /\ \A t \in Seq(Word) : Tail(B \o t) = FlattenSeq(Options[u]) \o t
  BY BeginningIs
<1>5. Command(u) = B \o (IF u \in Bazel THEN source \o object ELSE object \o source)
  <2> DEFINE a == "-c"
             b == u
             c == "-o"
             d == Object[u]
  <2>0. a \in Word /\ b \in Word /\ c \in Word /\ d \in Word
    BY <1>1
  <2>1. /\ <<"-c", u, "-o", Object[u]>> = source \o object
        /\ <<"-o", Object[u], "-c", u>> = object \o source
    <3> HIDE DEF a, b, c, d
    <3>1. <<a, b, c, d>> = <<a, b>> \o <<c, d>>
      BY <2>0, Fours
    <3>2. <<c, d, a, b>> = <<c, d>> \o <<a, b>>
      BY <2>0, Fours
    <3> QED
      BY <3>1, <3>2, Zenon DEF a, b, c, d
  <2> HIDE DEF source, object
  <2> QED
    BY <2>1 DEF Command, Beginning
<1> HIDE DEF B
<1>6. Eat("-c", Command(u) \o WorkingDir) = B \o (object \o WorkingDir)
  <2>1. CASE u \in Bazel
    <3> HIDE DEF source, object
    <3>1. source \o object \in Seq(Word) /\ object \o WorkingDir \in Seq(Word)
      BY <1>2, <1>3, ConcatProperties
    <3>2. (B \o (source \o object)) \o WorkingDir = B \o ((source \o object) \o WorkingDir)
      BY <1>3, <1>4, <3>1, ConcatAssociative
    <3>3. (source \o object) \o WorkingDir = source \o (object \o WorkingDir)
      BY <1>2, <1>3, ConcatAssociative
    <3>4. Eat("-c", B \o (source \o (object \o WorkingDir))) = B \o (object \o WorkingDir)
      BY <1>1, <1>4, <3>1, EatOnce DEF source
    <3> QED
      BY <1>5, <2>1, <3>2, <3>3, <3>4
  <2>2. CASE u \notin Bazel
    <3> HIDE DEF source, object
    <3>1. /\ B \o object \in Seq(Word) /\ B \o object \in Seq(Word \ {"-c"})
          /\ B \in Seq(Word \ {"-c"})
      BY <1>1, <1>2, <1>4, ConcatProperties
    <3>2. B \o (object \o source) = (B \o object) \o source
      BY <1>2, <1>4, ConcatAssociative
    <3>3. ((B \o object) \o source) \o WorkingDir = (B \o object) \o (source \o WorkingDir)
      BY <1>2, <1>3, <3>1, ConcatAssociative
    <3>4. Eat("-c", (B \o object) \o (source \o WorkingDir)) = (B \o object) \o WorkingDir
      BY <1>1, <1>3, <3>1, EatOnce DEF source
    <3>5. (B \o object) \o WorkingDir = B \o (object \o WorkingDir)
      BY <1>2, <1>3, <1>4, ConcatAssociative
    <3> QED
      BY <1>5, <2>2, <3>2, <3>3, <3>4, <3>5
  <2> QED
    BY <2>1, <2>2
<1>7. Eat("-o", B \o (object \o WorkingDir)) = B \o WorkingDir
  BY <1>1, <1>3, <1>4, EatOnce
<1>8. Eat("--", B \o WorkingDir) = B \o WorkingDir
  <2>1. B \o WorkingDir \in Seq(Word \ {"--"})
    BY <1>1, <1>3, <1>4, ConcatProperties
  <2> QED
    BY <2>1, EatNot
<1>9. Passed(Command(u) \o WorkingDir) = FlattenSeq(Options[u]) \o WorkingDir
  BY <1>3, <1>4, <1>6, <1>7, <1>8 DEF Passed
<1> QED
  BY <1>1, <1>9, ExtractPassed

-----------------------------------------------------------------------------
\* What libclang makes up begins like the command without its object and its source.
LEMMA InferredFrom ==
  ASSUME NEW u \in Unit
  PROVE  Without({u}, Eat("-o", Command(u))) = Beginning(u) \o <<"-c">>
<1> DEFINE B == Beginning(u)
           c == <<"-c">>
           s == <<u>>
           source == <<"-c", u>>
           object == <<"-o", Object[u]>>
           Source == {u}
<1>1. /\ "-c" \in Word \ {"-o"} /\ u \in Word \ {"-o"} /\ u # "-c"
      /\ Object[u] \in Word /\ "-o" \in Word /\ "-c" \in Word \ Source
  <2>1. u \in File /\ "-c" \in FileOption /\ "-o" \in FileOption
    BY FileOptionsAre, WordsAre
  <2> QED
    BY <2>1, FileOptionsAre
<1>2. /\ source \in Seq(Word \ {"-o"}) /\ source \in Seq(Word) /\ object \in Seq(Word)
      /\ c \in Seq(Word) /\ s \in Seq(Word) /\ c \in Seq(Word \ Source)
  BY <1>1, OneIsSeq, TwoIsSeq
<1>3. B \in Seq(Word) /\ B \in Seq(Word \ {"-o"}) /\ B \in Seq(OptionWord)
  BY BeginningIs, FileOptionsAre
<1>4. /\ Command(u) = B \o (IF u \in Bazel THEN source \o object ELSE object \o source)
      /\ source = c \o s
  <2> DEFINE v == "-c"
             w == "-o"
             o == Object[u]
  <2>1. v \in Word /\ u \in Word /\ w \in Word /\ o \in Word
    BY <1>1
  <2> HIDE DEF v, w, o
  <2>2. <<v, u, w, o>> = <<v, u>> \o <<w, o>>
    BY <2>1, Fours
  <2>3. <<w, o, v, u>> = <<w, o>> \o <<v, u>>
    BY <2>1, Fours
  <2>4. <<v, u>> = <<v>> \o <<u>>
    BY <2>1, Pairs
  <2>5. /\ <<"-c", u, "-o", Object[u]>> = source \o object
        /\ <<"-o", Object[u], "-c", u>> = object \o source
    BY <2>2, <2>3, Zenon DEF v, w, o
  <2>6. source = c \o s
    BY <2>4, Zenon DEF v
  <2> HIDE DEF source, object
  <2> QED
    BY <2>5, <2>6 DEF Command, Beginning
<1> HIDE DEF B, c, s, Source
<1>5. Eat("-o", Command(u)) = B \o source
  <2>1. CASE u \in Bazel
    <3> DEFINE none == <<>>
    <3>1. B \o source \in Seq(Word \ {"-o"}) /\ B \o source \in Seq(Word)
      BY <1>2, <1>3, ConcatProperties
    <3>2. /\ none \in Seq(Word) /\ object \o none = object
          /\ (B \o source) \o none = B \o source
      BY <1>2, <3>1, EmptySeq, ConcatEmptySeq
    <3>3. Eat("-o", (B \o source) \o (object \o none)) = (B \o source) \o none
      <4> HIDE DEF none, source
      <4> QED
        BY <1>1, <3>1, <3>2, EatOnce
    <3>4. (B \o source) \o object = B \o (source \o object)
      BY <1>2, <1>3, ConcatAssociative
    <3> HIDE DEF source, object, none
    <3> QED
      BY <1>4, <2>1, <3>2, <3>3, <3>4
  <2>2. CASE u \notin Bazel
    <3>1. Eat("-o", B \o (object \o source)) = B \o source
      <4> HIDE DEF source
      <4> QED
        BY <1>1, <1>2, <1>3, EatOnce
    <3> HIDE DEF source, object
    <3> QED
      BY <1>4, <2>2, <3>1
  <2> QED
    BY <2>1, <2>2
<1>6. Without(Source, B) = B /\ Without(Source, c) = c /\ Without(Source, s) = <<>>
  <2>1. OptionWord \cap Source = {} /\ (Word \ Source) \cap Source = {}
    BY WordsAre DEF OptionWord, Source
  <2>2. Without(Source, B) = B
    BY <1>3, <2>1, WithoutNone
  <2>3. Without(Source, c) = c
    BY <1>2, <2>1, WithoutNone
  <2>4. Without(Source, <<u>>) = IF u \in Source THEN <<>> ELSE <<u>>
    BY WithoutOne
  <2>5. u \in Source
    BY DEF Source
  <2> QED
    BY <2>2, <2>3, <2>4, <2>5 DEF s
<1>7. Without(Source, B \o source) = B \o c
  <2> HIDE DEF source
  <2>1. Without(Source, B \o source) = Without(Source, B) \o Without(Source, source)
    BY <1>2, <1>3, WithoutConcat
  <2>2. Without(Source, source) = Without(Source, c) \o Without(Source, s)
    BY <1>2, <1>4, WithoutConcat
  <2>3. c \o <<>> = c
    BY <1>2, ConcatEmptySeq
  <2> QED
    BY <1>6, <2>1, <2>2, <2>3
<1> QED
  BY <1>5, <1>7 DEF Source, c, B

\* A command that libclang makes up has the arguments of the entry it comes from.
LEMMA ExtractInferred ==
  ASSUME NEW u \in Unit, NEW f \in File
  PROVE  extract_compiler_args(Inferred(f, u), f) = Extracted(u)
<1> DEFINE B == Beginning(u)
           F == FlattenSeq(Options[u])
           wd == WorkingDir
           vc == "-c"
           vx == "-x"
           vh == "c++-header"
           vd == "--"
           made == IF f \in Header THEN <<"-x", "c++-header">> ELSE <<>>
<1>1. /\ vc \in Word /\ vx \in Word /\ vh \in Word /\ vd \in Word /\ f \in Word
      /\ vh \in Word \ {"--"} /\ vh \in Word \ {"-o"} /\ f \in Word \ {"-o"}
      /\ f \in Word \ {"--"} /\ vd \in Word \ {"-o"}
      /\ vc \in Word \ {"-o"}
  <2>1. {"-c", "-o", "--"} = FileOption
    BY FileOptionsAre
  <2> QED
    BY <2>1, FileOptionsAre
<1>2. /\ wd \in Seq(Word) /\ wd \in Seq(Word \ {"--"}) /\ wd \in Seq(Word \ {"-o"})
      /\ B \in Seq(Word) /\ B \in Seq(Word \ {"--"}) /\ B \in Seq(Word \ {"-o"})
      /\ B \in Seq(Word \ {"-c"})
      /\ \A t \in Seq(Word) : Tail(B \o t) = F \o t
  BY RewrittenWorkingDir, FileOptionsAre, BeginningIs
<1>3. Inferred(f, u) = ((B \o <<vc>>) \o made) \o <<vd, f>>
  BY InferredFrom DEF Inferred
<1>4. vc = "-c" /\ vx = "-x" /\ vh = "c++-header" /\ vd = "--"
  OBVIOUS
<1>5. \A w \in {vc, vx, vh, vd, f} : <<w>> \in Seq(Word)
  BY <1>1, OneIsSeq
<1>6. <<f>> \in Seq(Word \ {"-o"}) /\ <<f>> \in Seq(Word \ {"--"})
  BY <1>1, OneIsSeq
<1>7. <<vh>> \in Seq(Word \ {"-o"}) /\ <<vh>> \in Seq(Word \ {"--"})
  BY <1>1, OneIsSeq
<1>8. <<vd, f>> \in Seq(Word) /\ <<vd, f>> \in Seq(Word \ {"-o"})
  BY <1>1, TwoIsSeq
<1>9. <<vd, f>> = <<vd>> \o <<f>> /\ <<vc, vd>> = <<vc>> \o <<vd>>
  <2> HIDE DEF vd, vc
  <2> QED
    BY <1>1, Pairs
<1>10. <<vx, vh>> = <<vx>> \o <<vh>> /\ <<vc, vx>> = <<vc>> \o <<vx>>
  <2> HIDE DEF vx, vh, vc
  <2> QED
    BY <1>1, Pairs
<1>13. \A a, b, c \in Seq(Word) : (a \o b) \o c = a \o (b \o c)
  BY ConcatAssociative
<1>14. /\ B \in Seq(Word \ {vc})
       /\ \A s \in Seq(Word \ {vc}), t \in Seq(Word), w \in Word :
            Eat(vc, s \o (<<vc, w>> \o t)) = s \o t
       /\ \A s \in Seq(Word \ {vd}), t \in Seq(Word), w \in Word :
            Eat(vd, s \o (<<vd, w>> \o t)) = s \o t
  <2>1. B \in Seq(Word \ {vc})
    BY <1>2
  <2> HIDE DEF vc, vd
  <2> QED
    BY <1>1, <2>1, EatOnce
<1>11. CASE f \notin Header
  <2>1. Inferred(f, u) = (B \o <<vc>>) \o <<vd, f>>
    <3>1. made = <<>>
      BY <1>11
    <3>2. B \o <<vc>> \in Seq(Word)
      BY <1>2, <1>5, ConcatProperties
    <3>3. (B \o <<vc>>) \o <<>> = B \o <<vc>>
      BY <3>2, ConcatEmptySeq
    <3> HIDE DEF made, B
    <3> QED
      BY <1>3, <3>1, <3>3
  <2> HIDE DEF vc, vd, vx, vh, B, F, wd
  <2>2. Inferred(f, u) \o wd = B \o (<<vc, vd>> \o (<<f>> \o wd))
    <3> DEFINE c == <<vc>>
               d == <<vd>>
               g == <<f>>
    <3>1. c \in Seq(Word) /\ d \in Seq(Word) /\ g \in Seq(Word)
      BY <1>5
    <3> HIDE DEF c, d, g
    <3>2. Inferred(f, u) = (B \o c) \o (d \o g)
      BY <1>9, <2>1 DEF c, d, g
    <3>3. d \o g \in Seq(Word) /\ c \o d \in Seq(Word)
      BY <3>1, ConcatProperties
    <3>4. ((B \o c) \o (d \o g)) \o wd = B \o (c \o ((d \o g) \o wd))
      <4>1. B \o c \in Seq(Word) /\ (d \o g) \o wd \in Seq(Word)
        BY <1>2, <3>1, <3>3, ConcatProperties
      <4>2. ((B \o c) \o (d \o g)) \o wd = (B \o c) \o ((d \o g) \o wd)
        BY <1>2, <1>13, <3>3, <4>1, Zenon
      <4>3. (B \o c) \o ((d \o g) \o wd) = B \o (c \o ((d \o g) \o wd))
        BY <1>2, <1>13, <3>1, <4>1, Zenon
      <4> QED
        BY <4>2, <4>3
    <3>5. (d \o g) \o wd = d \o (g \o wd)
      BY <1>2, <3>1, ConcatAssociative
    <3>6. g \o wd \in Seq(Word)
      BY <1>2, <3>1, ConcatProperties
    <3>7. (c \o d) \o (g \o wd) = c \o (d \o (g \o wd))
      BY <3>1, <3>6, ConcatAssociative
    <3>8. <<vc, vd>> = c \o d /\ <<f>> = g
      BY <1>9 DEF c, d, g
    <3> QED
      BY <3>2, <3>4, <3>5, <3>7, <3>8
  <2>3. /\ <<f>> \o wd \in Seq(Word) /\ <<f>> \o wd \in Seq(Word \ {"--"})
        /\ <<f>> \o wd \in Seq(Word \ {"-o"})
    BY <1>2, <1>5, <1>6, ConcatProperties
  <2>4. Eat("-c", B \o (<<vc, vd>> \o (<<f>> \o wd))) = B \o (<<f>> \o wd)
    BY <1>1, <1>4, <1>14, <2>3, Zenon
  <2>5. /\ B \o (<<f>> \o wd) \in Seq(Word \ {"--"})
        /\ B \o (<<f>> \o wd) \in Seq(Word \ {"-o"})
    BY <1>2, <2>3, ConcatProperties
  <2>6. /\ Eat("-o", B \o (<<f>> \o wd)) = B \o (<<f>> \o wd)
        /\ Eat("--", B \o (<<f>> \o wd)) = B \o (<<f>> \o wd)
    BY <2>5, EatNot
  <2>7. Passed(Inferred(f, u) \o wd) = F \o (<<f>> \o wd)
    BY <1>2, <2>2, <2>3, <2>4, <2>6 DEF Passed
  <2> QED
    BY <2>7, ExtractPassed DEF F, wd
<1>12. CASE f \in Header
  <2>1. Inferred(f, u) = ((B \o <<vc>>) \o <<vx, vh>>) \o <<vd, f>>
    <3>1. made = <<vx, vh>>
      BY <1>12
    <3> HIDE DEF made, B
    <3> QED
      BY <1>3, <3>1
  <2> HIDE DEF vc, vd, vx, vh, B, F, wd
  <2> DEFINE after == <<vd, f>> \o wd
             rest == <<vh>> \o after
  <2>2. /\ after \in Seq(Word) /\ rest \in Seq(Word)
        /\ after \in Seq(Word \ {"-o"}) /\ rest \in Seq(Word \ {"-o"})
    BY <1>2, <1>5, <1>7, <1>8, ConcatProperties
  <2>3. Inferred(f, u) \o wd = B \o (<<vc, vx>> \o rest)
    <3> DEFINE c == <<vc>>
               x == <<vx>>
               h == <<vh>>
               d == <<vd, f>>
    <3>1. c \in Seq(Word) /\ x \in Seq(Word) /\ h \in Seq(Word) /\ d \in Seq(Word)
      BY <1>5, <1>8
    <3>2. <<vx, vh>> = x \o h /\ <<vc, vx>> = c \o x
      BY <1>10
    <3> HIDE DEF c, x, h, d
    <3>3. Inferred(f, u) = ((B \o c) \o (x \o h)) \o d
      BY <2>1, <3>2 DEF c, d
    <3>4. x \o h \in Seq(Word) /\ c \o (x \o h) \in Seq(Word) /\ d \o wd \in Seq(Word)
      BY <1>2, <3>1, ConcatProperties
    <3>5. (B \o c) \o (x \o h) = B \o (c \o (x \o h))
      BY <1>2, <1>13, <3>1, <3>4, Zenon
    <3>6. ((B \o (c \o (x \o h))) \o d) \o wd = B \o ((c \o (x \o h)) \o (d \o wd))
      <4>1. B \o (c \o (x \o h)) \in Seq(Word)
        BY <1>2, <3>4, ConcatProperties
      <4>2. ((B \o (c \o (x \o h))) \o d) \o wd = (B \o (c \o (x \o h))) \o (d \o wd)
        BY <1>2, <1>13, <3>1, <4>1, Zenon
      <4>3. (B \o (c \o (x \o h))) \o (d \o wd) = B \o ((c \o (x \o h)) \o (d \o wd))
        BY <1>2, <1>13, <3>4, Zenon
      <4> QED
        BY <4>2, <4>3
    <3>7. c \o (x \o h) = (c \o x) \o h
      BY <3>1, ConcatAssociative
    <3>8. ((c \o x) \o h) \o (d \o wd) = (c \o x) \o (h \o (d \o wd))
      <4>1. c \o x \in Seq(Word)
        BY <3>1, ConcatProperties
      <4> QED
        BY <1>13, <3>1, <3>4, <4>1, Zenon
    <3>9. rest = h \o (d \o wd)
      BY DEF h, d
    <3> HIDE DEF rest
    <3> QED
      BY <3>2, <3>3, <3>5, <3>6, <3>7, <3>8, <3>9
  <2> HIDE DEF after, rest
  <2>4. Eat("-c", B \o (<<vc, vx>> \o rest)) = B \o rest
    BY <1>1, <1>4, <1>14, <2>2, Zenon
  <2>5. B \o rest \in Seq(Word \ {"-o"})
    BY <1>2, <2>2, ConcatProperties
  <2>6. Eat("-o", B \o rest) = B \o rest
    BY <2>5, EatNot
  <2>7. B \o rest = (B \o <<vh>>) \o after
    BY <1>2, <1>5, <2>2, ConcatAssociative DEF rest
  <2>8. B \o <<vh>> \in Seq(Word \ {"--"})
    BY <1>2, <1>7, ConcatProperties
  <2>9. Eat("--", (B \o <<vh>>) \o after) = (B \o <<vh>>) \o wd
    <3>1. B \o <<vh>> \in Seq(Word \ {vd})
      BY <1>4, <2>8
    <3> QED
      BY <1>1, <1>2, <1>4, <1>14, <3>1, Zenon DEF after
  <2>10. (B \o <<vh>>) \o wd = B \o (<<vh>> \o wd)
    BY <1>2, <1>5, ConcatAssociative
  <2>11. <<vh>> \o wd \in Seq(Word)
    BY <1>2, <1>5, ConcatProperties
  <2>12. Passed(Inferred(f, u) \o wd) = F \o (<<vh>> \o wd)
    BY <1>2, <2>3, <2>4, <2>6, <2>7, <2>9, <2>10, <2>11 DEF Passed
  <2> QED
    BY <1>4, <2>12, ExtractPassed DEF F, wd
<1> QED
  BY <1>11, <1>12

-----------------------------------------------------------------------------
\* The arguments of a file: words of options, of which there are always some.
Arguments == {args \in Seq(OptionWord) : Len(args) > 0}

\* What the default arguments consist of.
LEMMA DefaultIs ==
  /\ default_compiler_args \in Arguments
  /\ Without({"", Parent}, default_compiler_args) = default_compiler_args
<1> DEFINE Left == {"", Parent}
           S == OptionWord \ Left
           D == default_compiler_args
<1>1. "-x" \in S /\ "c++" \in S /\ "-I/usr/include" \in S
  BY SpecialWords DEF OptionWord, FileOption, Special, Keywords, OneWordForms, Languages, Parent
<1>2. S \cap Left = {} /\ S \subseteq OptionWord
  OBVIOUS
<1> HIDE DEF Left, S, D
<1>3. D \in Seq(S) /\ Len(D) > 0
  BY <1>1, DefaultWords DEF D
<1>4. Without(Left, D) = D
  BY <1>2, <1>3, WithoutNone
<1>5. D \in Seq(OptionWord)
  BY <1>2, <1>3, SeqMonotonic
<1> QED
  BY <1>3, <1>4, <1>5 DEF Arguments, Left, D

\* Arguments with others before or behind them are arguments.
LEMMA ArgumentsConcat ==
  ASSUME NEW s \in Arguments, NEW t \in Seq(OptionWord)
  PROVE  s \o t \in Arguments /\ t \o s \in Arguments
<1>1. /\ s \in Seq(OptionWord) /\ Len(s) > 0
      /\ Len(s) \in Nat /\ Len(t) \in Nat
  BY LenProperties DEF Arguments
<1>2. /\ s \o t \in Seq(OptionWord) /\ Len(s \o t) = Len(s) + Len(t)
      /\ t \o s \in Seq(OptionWord) /\ Len(t \o s) = Len(t) + Len(s)
  BY <1>1, ConcatProperties
<1> QED
  BY <1>1, <1>2 DEF Arguments

\* The arguments of an entry are made of words of options, and mean what the options do.
LEMMA ExtractedIs ==
  ASSUME NEW u \in Unit
  PROVE  /\ Extracted(u) \in Arguments
         /\ Without({"", Parent}, Extracted(u)) = Meant(u)
<1> DEFINE R == Rewritten(FlattenSeq(Options[u]))
           D == default_compiler_args
           wd == WorkingDir
           Left == {"", Parent}
           M == FlattenSeq(Meanings(Options[u]))
<1>1. PassesMeant(Options[u])
  BY OptionsAre, Passes
<1>2. R \in Seq(OptionWord) /\ Without(Left, R) = M
  BY <1>1 DEF PassesMeant
<1>3. wd \in Seq(OptionWord) /\ Without(Left, wd) = wd
  <2>1. /\ "-working-directory" \in OptionWord \ Left /\ "/work" \in OptionWord \ Left
    BY SpecialWords DEF OptionWord, FileOption, Special, Parent
  <2>2. (OptionWord \ Left) \cap Left = {}
    OBVIOUS
  <2> HIDE DEF Left
  <2>3. wd \in Seq(OptionWord \ Left) /\ wd \in Seq(OptionWord)
    BY <2>1, TwoIsSeq DEF WorkingDir
  <2> QED
    BY <2>2, <2>3, WithoutNone
<1>4. D \in Arguments /\ D \in Seq(OptionWord) /\ Without(Left, D) = D
  BY DefaultIs DEF Arguments
<1> HIDE DEF D, R, Left, M, wd
<1>5. R \o wd \in Seq(OptionWord)
  BY <1>2, <1>3, ConcatProperties
<1>6. Without(Left, D \o (R \o wd)) = D \o (M \o wd)
  <2>0. \A s, t \in Seq(OptionWord) :
          Without(Left, s \o t) = Without(Left, s) \o Without(Left, t)
    BY WithoutConcat
  <2>1. Without(Left, D \o (R \o wd)) = Without(Left, D) \o Without(Left, R \o wd)
    BY <1>4, <1>5, <2>0, Zenon
  <2>2. Without(Left, R \o wd) = Without(Left, R) \o Without(Left, wd)
    BY <1>2, <1>3, <2>0, Zenon
  <2> QED
    BY <1>2, <1>3, <1>4, <2>1, <2>2
<1>7. Meant(u) = D \o (M \o wd)
  <2>1. M \in Seq(OptionWord)
    <3>1. Without(Left, R) \in Seq(OptionWord \ Left)
      BY <1>2, WithoutType
    <3> QED
      BY <1>2, <3>1, SeqMonotonic
  <2>2. Meant(u) = (D \o M) \o wd
    BY DEF Meant, Meanings, D, M, wd, WorkingDir
  <2> QED
    BY <1>3, <1>4, <2>1, <2>2, ConcatAssociative
<1>8. Extracted(u) = D \o (R \o wd)
  BY DEF Extracted, D, R, wd
<1>9. Extracted(u) \in Arguments
  BY <1>4, <1>5, <1>8, ArgumentsConcat
<1> QED
  BY <1>6, <1>7, <1>8, <1>9 DEF Left

\* The flags of the other database.
LEMMA FlagsAre == FlagsArgs \in Arguments
<1> DEFINE a == "-working-directory=/work"
           b == "-DF"
           f == <<a>>
           t == <<b>>
           D == default_compiler_args
<1>1. a \in OptionWord /\ b \in OptionWord
  BY SpecialWords DEF FileOption, Special, Parent
<1>2. f \in Seq(OptionWord) /\ t \in Seq(OptionWord)
  BY <1>1, OneIsSeq
<1>3. D \in Arguments
  BY DefaultIs
<1>4. FlagsArgs = (f \o D) \o t
  BY DEF FlagsArgs
<1> HIDE DEF f, t, D
<1> QED
  BY <1>2, <1>3, <1>4, ArgumentsConcat

-----------------------------------------------------------------------------
\* The last include path of a list, if it has one.
LEMMA LastInclude ==
  ASSUME NEW args \in Arguments
  PROVE  \E n \in 0..Len(args) :
           /\ n = 0 \/ args[n] \in IncludeForms
           /\ \A i \in 1..Len(args) : args[i] \in IncludeForms => i <= n
           /\ transform_to_edited_file_form(args)
                = (SubSeq(args, 1, n) \o <<Parent>>) \o SubSeq(args, n + 1, Len(args))
<1> DEFINE I == {i \in 1..Len(args) : args[i] \in IncludeForms}
           K == {Len(args) - i : i \in I}
<1>1. args \in Seq(OptionWord) /\ Len(args) \in Nat
  BY LenProperties DEF Arguments
<1>2. I \subseteq Int
  BY <1>1
<1>3. I # {} => \E n \in I : \A i \in I : n >= i
  <2> SUFFICES ASSUME I # {} PROVE \E n \in I : \A i \in I : n >= i
    OBVIOUS
  <2>1. K \subseteq Nat /\ K # {}
    BY <1>1, <1>2
  <2> HIDE DEF K
  <2>2. PICK k \in K : \A l \in K : <<l, k>> \notin OpToRel(<, Nat)
    BY <2>1, WFMin, NatLessThanWellFounded, Zenon
  <2>3. \A l \in K : ~(l < k)
    BY <2>1, <2>2, Zenon DEF OpToRel
  <2>4. \A l \in K : k <= l
    BY <2>1, <2>3
  <2>5. PICK n \in I : k = Len(args) - n
    BY DEF K
  <2>6. \A i \in I : Len(args) - i \in K
    BY DEF K
  <2> HIDE DEF I
  <2>7. \A i \in I : n >= i
    BY <1>1, <1>2, <2>4, <2>5, <2>6
  <2> QED
    BY <2>7
<1> DEFINE n == IF I # {} THEN Max(I) ELSE 0
<1>4. (n \in I \/ n = 0) /\ \A i \in I : n >= i
  <2> HIDE DEF I
  <2>1. CASE I # {}
    <3>1. Max(I) \in I /\ \A i \in I : Max(I) >= i
      BY <1>3, <2>1 DEF Max
    <3> QED
      BY <2>1, <3>1
  <2>2. CASE I = {}
    BY <2>2
  <2> QED
    BY <2>1, <2>2
<1>5. SelectLastInSeq(args, LAMBDA a : a \in IncludeForms) = n
  BY DEF SelectLastInSeq
<1> HIDE DEF n
<1>6. transform_to_edited_file_form(args)
        = (SubSeq(args, 1, (n + 1) - 1) \o <<Parent>>) \o SubSeq(args, n + 1, Len(args))
  BY <1>5 DEF transform_to_edited_file_form, InsertAt
<1>7. n \in 0..Len(args) /\ (n + 1) - 1 = n
  BY <1>1, <1>4
<1> QED
  BY <1>1, <1>4, <1>6, <1>7

\* The form for edited files: the arguments and the directory of the file, which comes
\* once, behind the last include path, or in front where there is none.
LEMMA EditedForm ==
  ASSUME NEW args \in Arguments
  PROVE  LET edited == transform_to_edited_file_form(args)
         IN  /\ edited \in Seq(OptionWord \cup {Parent})
             /\ Without({"", Parent}, edited) = Without({"", Parent}, args)
             /\ \E n \in 1..Len(edited) :
                  /\ edited[n] = Parent /\ (n = 1 \/ edited[n - 1] \in IncludeForms)
                  /\ \A i \in 1..Len(edited) : edited[i] = Parent => i = n
                  /\ \A i \in 1..Len(edited) : edited[i] \in IncludeForms => i <= n
<1> DEFINE edited == transform_to_edited_file_form(args)
           W == OptionWord \cup {Parent}
           Left == {"", Parent}
           p == <<Parent>>
<1>1. PICK m \in 0..Len(args) :
        /\ m = 0 \/ args[m] \in IncludeForms
        /\ \A i \in 1..Len(args) : args[i] \in IncludeForms => i <= m
        /\ edited = (SubSeq(args, 1, m) \o p) \o SubSeq(args, m + 1, Len(args))
  BY LastInclude
<1> DEFINE s == SubSeq(args, 1, m)
           t == SubSeq(args, m + 1, Len(args))
<1>2. args \in Seq(OptionWord) /\ Len(args) \in Nat
  BY LenProperties DEF Arguments
<1>3. \A i \in 1..Len(args) : args[i] \in OptionWord
  BY <1>2, ElementOfSeq
<1>4. /\ s \in Seq(OptionWord) /\ t \in Seq(OptionWord)
      /\ Len(s) = m /\ Len(t) = Len(args) - m
      /\ \A i \in 1..m : s[i] = args[i]
      /\ \A i \in 1..Len(args) - m : t[i] = args[m + i]
  <2>1. m \in Int /\ m + 1 \in Int /\ Len(args) \in Int /\ 1 \in Int /\ m <= Len(args)
    BY <1>2
  <2>2. /\ \A i \in 1..m : args[i] \in OptionWord
        /\ \A i \in m + 1..Len(args) : args[i] \in OptionWord
    BY <1>2, <1>3
  <2>3. /\ s \in Seq(OptionWord) /\ Len(s) = IF 1 <= m THEN m - 1 + 1 ELSE 0
        /\ \A i \in 1..m - 1 + 1 : s[i] = args[1 + i - 1]
    BY <2>1, <2>2, SubSeqProperties
  <2>4. /\ t \in Seq(OptionWord)
        /\ Len(t) = IF m + 1 <= Len(args) THEN Len(args) - (m + 1) + 1 ELSE 0
        /\ \A i \in 1..Len(args) - (m + 1) + 1 : t[i] = args[m + 1 + i - 1]
    BY <2>1, <2>2, SubSeqProperties
  <2> HIDE DEF s, t
  <2>5. Len(s) = m /\ \A i \in 1..m : s[i] = args[i]
    BY <1>2, <2>3
  <2>6. Len(t) = Len(args) - m
    BY <1>2, <2>1, <2>4
  <2>7. \A i \in 1..Len(args) - m : t[i] = args[m + i]
    <3> SUFFICES ASSUME NEW i \in 1..Len(args) - m
                 PROVE  t[i] = args[m + i]
      OBVIOUS
    <3>1. i \in 1..Len(args) - (m + 1) + 1 /\ m + 1 + i - 1 = m + i
      BY <1>2
    <3> QED
      BY <2>4, <3>1
  <2> QED
    BY <2>3, <2>4, <2>5, <2>6, <2>7
<1>5. /\ p \in Seq(W) /\ Len(p) = 1 /\ p[1] = Parent
      /\ s \in Seq(W) /\ t \in Seq(W)
  <2>1. OptionWord \subseteq W /\ Parent \in W
    OBVIOUS
  <2> HIDE DEF s, t
  <2> QED
    BY <1>4, <2>1, OneIsSeq, SeqMonotonic
<1>6. args = s \o t
  <2> HIDE DEF s, t
  <2>1. Len(args) = Len(s) + Len(t)
    BY <1>2, <1>4
  <2>2. \A i \in 1..Len(s) : args[i] = s[i]
    BY <1>4
  <2>3. \A i \in 1..Len(t) : args[Len(s) + i] = t[i]
    BY <1>4
  <2> QED
    BY <1>2, <1>4, <2>1, <2>2, <2>3, ConcatIs
<1>7. edited = (s \o p) \o t
  BY <1>1
<1> HIDE DEF s, t, p, W, edited
<1>8. /\ s \o p \in Seq(W) /\ edited \in Seq(W)
      /\ Len(edited) = Len(args) + 1
      /\ \A i \in 1..Len(args) + 1 :
           edited[i] = IF i <= m THEN args[i] ELSE IF i = m + 1 THEN Parent ELSE args[i - 1]
  <2>1. /\ s \o p \in Seq(W) /\ Len(s \o p) = m + 1
        /\ \A i \in 1..m + 1 : (s \o p)[i] = IF i <= m THEN s[i] ELSE p[i - m]
    <3>1. /\ s \o p \in Seq(W) /\ Len(s \o p) = Len(s) + Len(p)
          /\ \A i \in 1..Len(s) + Len(p) :
               (s \o p)[i] = IF i <= Len(s) THEN s[i] ELSE p[i - Len(s)]
      BY <1>5, ConcatProperties
    <3>2. Len(s) = m /\ Len(p) = 1
      BY <1>4, <1>5
    <3> QED
      BY <3>1, <3>2
  <2>2. /\ edited \in Seq(W) /\ Len(edited) = Len(s \o p) + Len(t)
        /\ \A i \in 1..Len(s \o p) + Len(t) :
             edited[i] = IF i <= Len(s \o p) THEN (s \o p)[i] ELSE t[i - Len(s \o p)]
    BY <1>5, <1>7, <2>1, ConcatProperties
  <2>3. Len(edited) = Len(args) + 1
    BY <1>2, <1>4, <2>1, <2>2
  <2>4. ASSUME NEW i \in 1..Len(args) + 1
        PROVE  edited[i] =
                 IF i <= m THEN args[i] ELSE IF i = m + 1 THEN Parent ELSE args[i - 1]
    <3>1. i \in 1..Len(s \o p) + Len(t)
      BY <1>2, <1>4, <2>1
    <3>2. CASE i <= m
      <4>1. i \in 1..m + 1 /\ i \in 1..m /\ i <= Len(s \o p)
        BY <2>1, <3>2
      <4> QED
        BY <1>4, <2>1, <2>2, <3>1, <3>2, <4>1
    <3>3. CASE i = m + 1
      <4>1. i \in 1..m + 1 /\ ~(i <= m) /\ i <= Len(s \o p) /\ i - m = 1
        BY <2>1, <3>3
      <4> QED
        BY <1>5, <2>1, <2>2, <3>1, <3>3, <4>1
    <3>4. CASE i > m + 1
      <4>1. /\ ~(i <= m) /\ i # m + 1 /\ ~(i <= Len(s \o p))
            /\ i - Len(s \o p) \in 1..Len(args) - m
            /\ m + (i - Len(s \o p)) = i - 1
        <5>1. i \in Int /\ m \in Int /\ i <= Len(args) + 1 /\ Len(s \o p) = m + 1
          BY <1>2, <2>1
        <5> QED
          BY <1>2, <3>4, <5>1
      <4>2. edited[i] = t[i - Len(s \o p)]
        BY <2>2, <3>1, <4>1
      <4>3. t[i - Len(s \o p)] = args[m + (i - Len(s \o p))]
        BY <1>4, <4>1
      <4> QED
        BY <4>1, <4>2, <4>3
    <3> QED
      BY <3>2, <3>3, <3>4
  <2> QED
    BY <2>1, <2>2, <2>3, <2>4
<1>9. Without(Left, edited) = Without(Left, args)
  <2>1. Without(Left, <<Parent>>) = IF Parent \in Left THEN <<>> ELSE <<Parent>>
    BY WithoutOne
  <2>2. Parent \in Left
    OBVIOUS
  <2> HIDE DEF Left
  <2>3. Without(Left, p) = <<>>
    BY <2>1, <2>2 DEF p
  <2>4. Without(Left, s) \in Seq(W \ Left)
    BY <1>5, WithoutType
  <2>0. \A a, b \in Seq(W) : Without(Left, a \o b) = Without(Left, a) \o Without(Left, b)
    BY WithoutConcat
  <2>5. Without(Left, edited) = Without(Left, s \o p) \o Without(Left, t)
    BY <1>5, <1>7, <1>8, <2>0, Zenon
  <2>6. Without(Left, s \o p) = Without(Left, s) \o Without(Left, p)
    BY <1>5, <2>0, Zenon
  <2>7. Without(Left, s) \o <<>> = Without(Left, s)
    BY <2>4, ConcatEmptySeq
  <2>8. Without(Left, args) = Without(Left, s) \o Without(Left, t)
    BY <1>5, <1>6, WithoutConcat
  <2> QED
    BY <2>3, <2>5, <2>6, <2>7, <2>8
<1>10. \A i \in 1..Len(args) : args[i] # Parent
  BY <1>3 DEF OptionWord
<1>11. \E n \in 1..Len(edited) :
         /\ edited[n] = Parent /\ (n = 1 \/ edited[n - 1] \in IncludeForms)
         /\ \A i \in 1..Len(edited) : edited[i] = Parent => i = n
         /\ \A i \in 1..Len(edited) : edited[i] \in IncludeForms => i <= n
  <2> DEFINE n == m + 1
  <2>1. /\ n \in 1..Len(edited) /\ n \in 1..Len(args) + 1 /\ n - 1 = m
        /\ m # 0 => m \in 1..Len(args) + 1
        /\ m <= m /\ ~(n <= m)
    BY <1>2, <1>8
  <2>2. edited[n] = Parent /\ (m # 0 => edited[n - 1] = args[m])
    BY <1>8, <2>1
  <2>3. ASSUME NEW i \in 1..Len(edited), i # n
        PROVE  edited[i] # Parent /\ (edited[i] \in IncludeForms => i <= n)
    <3>1. i \in 1..Len(args) + 1
      BY <1>8
    <3>2. CASE i <= m
      <4>1. i \in 1..Len(args) /\ i <= n /\ edited[i] = args[i]
        BY <1>2, <1>8, <3>1, <3>2
      <4> QED
        BY <1>10, <4>1
    <3>3. CASE i > m
      <4>1. i > n /\ i - 1 \in 1..Len(args) /\ edited[i] = args[i - 1] /\ ~(i - 1 <= m)
        BY <1>2, <1>8, <2>3, <3>1, <3>3
      <4> QED
        BY <1>1, <1>10, <4>1
    <3> QED
      BY <3>1, <3>2, <3>3
  <2>4. n <= n
    BY <2>1
  <2>5. n = 1 \/ edited[n - 1] \in IncludeForms
    <3>1. CASE m = 0
      BY <3>1
    <3>2. CASE m # 0
      BY <1>1, <2>2, <3>2
    <3> QED
      BY <3>1, <3>2
  <2> HIDE DEF n
  <2> QED
    BY <2>1, <2>2, <2>3, <2>4, <2>5
<1> QED
  BY <1>8, <1>9, <1>11 DEF edited, W, Left

-----------------------------------------------------------------------------
(* 4. The parser *)

\* The arguments that f may be given from a database of kind k with these units.
Given(k, units, f, args) ==
  \/ k = "flags" /\ args = FlagsArgs
  \/ /\ k = "json"
     /\ IF f \in units THEN args = Extracted(f)
        ELSE IF units # {} THEN \E u \in units : args = Extracted(u)
        ELSE args = default_compiler_args

\* The answer to a parse of f, given args.
Answer(f, args, edited) ==
  [file |-> f, args |-> IF edited THEN transform_to_edited_file_form(args) ELSE args,
   edited |-> edited]

\* The parser has nothing before it has a database. What it remembers comes from an
\* entry, whatever file it was extracted for; so does what a unit was parsed with.
ArgsInv ==
  /\ kind \in {"none", "json", "flags", "broken"}
  /\ entries \subseteq Unit /\ infers \in BOOLEAN
  /\ kind # "json" => entries = {}
  /\ kind \notin {"json", "flags"} => answer = NoAnswer /\ \A f \in File : unit[f] = NoArgs
  /\ cached # NoArgs => \E u \in entries : cached = Extracted(u)
  /\ unit \in [File -> Seq(Word)]
  /\ \A f \in File : unit[f] # NoArgs => Given(kind, entries, f, unit[f])
  /\ answer # NoAnswer =>
       \E f \in File, args \in Arguments, edited \in BOOLEAN :
         Given(kind, entries, f, args) /\ answer = Answer(f, args, edited)

\* The parser has the database that its service loaded.
SameKind ==
  kind = (IF loaded["source_code_model"] = NoDatabase THEN "none"
          ELSE IF loaded["source_code_model"].version = 0 THEN "broken"
          ELSE loaded["source_code_model"].path.kind)

\* What is added to IInv to make an invariant of the composition.
ProjectInv == ArgsInv /\ SameKind

-----------------------------------------------------------------------------
\* Whatever a file is given is made of words of options, and not empty.
LEMMA GivenIs ==
  ASSUME ArgsInv, NEW f, NEW args, Given(kind, entries, f, args)
  PROVE  args \in Arguments /\ args \in Seq(Word) /\ args # NoArgs
<1>1. args \in Arguments
  <2>1. CASE kind = "flags" /\ args = FlagsArgs
    BY <2>1, FlagsAre
  <2>2. CASE args = default_compiler_args
    BY <2>2, DefaultIs
  <2>3. CASE \E u \in entries : args = Extracted(u)
    <3>1. PICK u \in Unit : args = Extracted(u)
      BY <2>3 DEF ArgsInv
    <3> QED
      BY <3>1, ExtractedIs
  <2>4. CASE f \in entries /\ args = Extracted(f)
    BY <2>3, <2>4
  <2> QED
    BY <2>1, <2>2, <2>3, <2>4, Zenon DEF Given
<1>2. args \in Seq(OptionWord) /\ OptionWord \subseteq Word
  BY <1>1, WordsAre DEF Arguments
<1>3. args # NoArgs
  <2>1. Len(args) > 0
    BY <1>1 DEF Arguments
  <2>2. Len(<<>>) = 0
    OBVIOUS
  <2> QED
    BY <2>1, <2>2 DEF NoArgs
<1> QED
  BY <1>1, <1>2, <1>3, SeqMonotonic

\* What get returns does not depend on who asked before: what is remembered was
\* extracted from an entry, and what libclang makes up has the arguments of one.
LEMMA GetGives ==
  ASSUME ArgsInv, kind = "json", NEW f \in File, NEW args, get(f, args)
  PROVE  /\ Given(kind, entries, f, args)
         /\ Cached(f, args) # NoArgs => \E u \in entries : Cached(f, args) = Extracted(u)
<1>1. entries \subseteq Unit /\ (cached # NoArgs => \E u \in entries : cached = Extracted(u))
  BY DEF ArgsInv
<1>2. CASE f \in entries
  <2>1. f \in Unit
    BY <1>1, <1>2
  <2>2. CompileCommands(f) = {Command(f)}
    BY <1>2 DEF CompileCommands
  <2>3. args = extract_compiler_args(Command(f), f)
    BY <2>2, Zenon DEF get
  <2>4. args = Extracted(f)
    BY <2>1, <2>3, ExtractCommand, Zenon
  <2>5. Cached(f, args) = args
    BY <1>2, Zenon DEF Cached
  <2> QED
    BY <1>2, <2>4, <2>5, Zenon DEF Given
<1>3. CASE f \notin entries /\ infers /\ entries # {}
  <2>1. CompileCommands(f) = {Inferred(f, u) : u \in entries}
    BY <1>3, Zenon DEF CompileCommands
  <2>2. CompileCommands(f) # {}
    BY <1>3, <2>1
  <2>3. PICK u \in entries : args = extract_compiler_args(Inferred(f, u), f)
    BY <2>1, <2>2, Zenon DEF get
  <2>4. args = Extracted(u)
    BY <1>1, <2>3, ExtractInferred
  <2>5. Cached(f, args) = args
    BY <1>3, Zenon DEF Cached
  <2> QED
    BY <1>3, <2>4, <2>5, Zenon DEF Given
<1>4. CASE f \notin entries /\ ~infers /\ entries # {}
  <2>1. CompileCommands(f) = {}
    BY <1>4, Zenon DEF CompileCommands
  <2>2. \E u \in entries : args = Extracted(u)
    <3>1. CASE cached # NoArgs
      <4>1. args = cached
        BY <2>1, <3>1, Zenon DEF get
      <4> QED
        BY <1>1, <3>1, <4>1
    <3>2. CASE cached = NoArgs
      <4>1. PICK u \in entries : args = extract_compiler_args(Command(u), u)
        BY <1>4, <2>1, <3>2, Zenon DEF get
      <4>2. args = Extracted(u)
        BY <1>1, <4>1, ExtractCommand
      <4> QED
        BY <4>2
    <3> QED
      BY <3>1, <3>2
  <2>3. Cached(f, args) = args
    BY <1>4, Zenon DEF Cached
  <2> QED
    BY <1>4, <2>2, <2>3, Zenon DEF Given
<1>5. CASE f \notin entries /\ entries = {}
  <2>1. CompileCommands(f) = {}
    <3>1. {Inferred(f, u) : u \in entries} = {}
      BY <1>5
    <3> QED
      BY <1>5, <3>1, Zenon DEF CompileCommands
  <2>2. cached = NoArgs
    BY <1>1, <1>5
  <2>3. args = default_compiler_args
    BY <1>5, <2>1, <2>2, Zenon DEF get
  <2>4. Cached(f, args) = cached
    BY <1>5, <2>1, Zenon DEF Cached
  <2> QED
    BY <1>5, <2>2, <2>3, <2>4, Zenon DEF Given
<1> QED
  BY <1>2, <1>3, <1>4, <1>5 DEF ArgsInv

-----------------------------------------------------------------------------
\* A parse of a file that is not cached keeps the invariant.
LEMMA MissKeepsArgs ==
  ASSUME ArgsInv, NEW f \in File, Miss(f)
  PROVE  ArgsInv'
<1>1. PICK args : /\ args \in IF kind = "json" THEN Candidates(f) ELSE {FlagsArgs}
                  /\ kind = "json" => get(f, args)
                  /\ cached' = IF kind = "json" THEN Cached(f, args) ELSE cached
                  /\ \/ /\ unit' = [unit EXCEPT ![f] = args]
                        /\ answer' = [file |-> f, args |-> args, edited |-> FALSE]
                     \/ UNCHANGED <<unit, answer>>
  BY DEF Miss
<1>2. kind \in {"json", "flags"} /\ UNCHANGED <<kind, entries, infers>>
  BY DEF Miss
<1>3. Given(kind, entries, f, args)
  BY <1>1, <1>2, GetGives DEF Given
<1>4. args \in Arguments /\ args \in Seq(Word)
  BY <1>3, GivenIs
<1>5. cached' # NoArgs => \E u \in entries' : cached' = Extracted(u)
  <2>1. CASE kind = "json"
    BY <1>1, <1>2, <2>1, GetGives
  <2>2. CASE kind # "json"
    BY <1>1, <1>2, <2>2 DEF ArgsInv
  <2> QED
    BY <2>1, <2>2
<1>6. /\ unit' \in [File -> Seq(Word)]
      /\ \A g \in File : unit'[g] # NoArgs => Given(kind', entries', g, unit'[g])
  <2>1. CASE unit' = [unit EXCEPT ![f] = args]
    <3>1. /\ unit' \in [File -> Seq(Word)]
          /\ \A g \in File : unit'[g] = IF g = f THEN args ELSE unit[g]
      BY <1>4, <2>1 DEF ArgsInv
    <3> QED
      BY <1>2, <1>3, <3>1 DEF ArgsInv
  <2>2. CASE unit' = unit
    BY <1>2, <2>2 DEF ArgsInv
  <2> QED
    BY <1>1, <2>1, <2>2
<1>7. answer' # NoAnswer =>
        \E g \in File, a \in Arguments, edited \in BOOLEAN :
          Given(kind', entries', g, a) /\ answer' = Answer(g, a, edited)
  <2>1. CASE answer' = [file |-> f, args |-> args, edited |-> FALSE]
    <3>1. answer' = Answer(f, args, FALSE)
      BY <2>1 DEF Answer
    <3>2. Given(kind', entries', f, args)
      BY <1>2, <1>3
    <3> QED
      BY <1>4, <3>1, <3>2
  <2>2. CASE answer' = answer
    BY <1>2, <2>2 DEF ArgsInv
  <2> QED
    BY <1>1, <2>1, <2>2
<1> QED
  BY <1>2, <1>5, <1>6, <1>7 DEF ArgsInv

\* So does one of a cached unit: what is kept with it is not transformed.
LEMMA ReparseKeepsArgs ==
  ASSUME ArgsInv, NEW f \in File, Reparse(f)
  PROVE  ArgsInv'
<1>1. /\ UNCHANGED <<kind, entries, infers, cached, unit>>
      /\ answer' = Answer(f, unit[f], TRUE) /\ unit[f] # NoArgs
  BY DEF Reparse, Answer
<1>2. Given(kind, entries, f, unit[f]) /\ unit[f] \in Arguments
  BY <1>1, GivenIs DEF ArgsInv
<1>3. \E g \in File, a \in Arguments, edited \in BOOLEAN :
        Given(kind, entries, g, a) /\ answer' = Answer(g, a, edited)
  BY <1>1, <1>2
<1> QED
  BY <1>1, <1>3 DEF ArgsInv

\* And a unit that makes room.
LEMMA EvictKeepsArgs ==
  ASSUME ArgsInv, NEW f \in File, Evict(f)
  PROVE  ArgsInv'
<1>1. /\ UNCHANGED <<kind, entries, infers, cached, answer>>
      /\ unit' = [unit EXCEPT ![f] = NoArgs]
  BY DEF Evict
<1>2. NoArgs \in Seq(Word)
  BY EmptySeq DEF NoArgs
<1>3. /\ unit' \in [File -> Seq(Word)]
      /\ \A g \in File : unit'[g] = IF g = f THEN NoArgs ELSE unit[g]
  BY <1>1, <1>2 DEF ArgsInv
<1> QED
  BY <1>1, <1>3 DEF ArgsInv

\* Opening the database, once.
LEMMA OpenKeepsArgs ==
  ASSUME ArgsInv, kind = "none", NEW k \in {"json", "flags", "broken"}, Open(k)
  PROVE  ArgsInv' /\ kind' = k
<1>1. /\ kind' = k /\ UNCHANGED <<cached, unit, answer>>
      /\ entries' \subseteq Unit /\ infers' \in BOOLEAN
      /\ kind' # "json" => entries' = {}
  BY DEF Open
<1>2. /\ answer = NoAnswer /\ cached = NoArgs /\ \A f \in File : unit[f] = NoArgs
  BY DEF ArgsInv
<1> QED
  BY <1>1, <1>2 DEF ArgsInv

\* What leaves the parser alone.
LEMMA UnchangedKeepsArgs ==
  ASSUME ArgsInv, UNCHANGED argsVars
  PROVE  ArgsInv' /\ kind' = kind
<1>1. UNCHANGED <<kind, entries, infers, cached, unit, answer>>
  BY DEF argsVars
<1> QED
  BY <1>1 DEF ArgsInv

\* The parser has no database at first.
LEMMA InitProjectInv == ProjectInit => ProjectInv
<1> SUFFICES ASSUME ProjectInit
             PROVE  ProjectInv
  OBVIOUS
<1>1. /\ kind = "none" /\ entries = {} /\ infers = FALSE /\ cached = NoArgs
      /\ unit = [f \in File |-> NoArgs] /\ answer = NoAnswer
  BY DEF ProjectInit, ArgsInit
<1>2. NoArgs \in Seq(Word)
  BY EmptySeq DEF NoArgs
<1>3. ArgsInv
  BY <1>1, <1>2 DEF ArgsInv
<1>4. loaded["source_code_model"] = NoDatabase
  BY ReadersAre DEF ProjectInit, Init
<1> QED
  BY <1>1, <1>3, <1>4 DEF ProjectInv, SameKind

\* The database is loaded into the parser when its service is constructed.
LEMMA LoadKeepsProjectInv ==
  ASSUME IInv, ProjectInv, LoadDatabase
  PROVE  ProjectInv'
<1> DEFINE s == "source_code_model"
<1>1. /\ Load /\ Service \in Reader /\ s \in Reader /\ TypeOK
      /\ loaded \in [Reader -> Database \cup {NoDatabase}]
      /\ reader \in 1..4 /\ pc = "load" /\ (Service = s => reader = 1)
      /\ s = Readers[1]
  BY ReadersAre DEF LoadDatabase, Load, IInv, TypeOK, Service
<1>2. CASE Service = s /\ pc' # "raised"
  <2>1. /\ ~Raises(s) /\ loaded' = [loaded EXCEPT ![s] = Loaded(s)]
    BY <1>1, <1>2 DEF Load
  <2>2. found[s] \in Path /\ found[s].kind \in Kind
    BY <1>1, <2>1, PathType DEF Raises, TypeOK
  <2>3. loaded'[s] = Loaded(s) /\ Loaded(s).path = found[s]
    BY <1>1, <2>1, <2>2, PathType DEF Loaded
  <2>4. loaded[s] = NoDatabase /\ kind = "none"
    BY <1>1, <1>2 DEF IInv, ProgressInv, ProjectInv, SameKind
  <2>5. loaded'[s] # NoDatabase
    <3>1. NoDatabase.path = NoPath
      BY DEF NoDatabase
    <3> QED
      BY <2>2, <2>3, <3>1, PathType
  <2> DEFINE k == IF loaded'[s].version = 0 THEN "broken" ELSE found[s].kind
  <2>6. Open(k)
    BY <1>2, Zenon DEF LoadDatabase
  <2>7. k \in {"json", "flags", "broken"}
    BY <2>2 DEF Kind
  <2>8. ArgsInv' /\ kind' = k
    <3> HIDE DEF k
    <3> QED
      BY <2>4, <2>6, <2>7, OpenKeepsArgs DEF ProjectInv
  <2>9. SameKind'
    BY <2>3, <2>5, <2>8 DEF SameKind
  <2> QED
    BY <2>8, <2>9 DEF ProjectInv
<1>3. CASE ~(Service = s /\ pc' # "raised")
  <2>1. UNCHANGED argsVars
    BY <1>3, Zenon DEF LoadDatabase
  <2>2. loaded'[s] = loaded[s]
    BY <1>1, <1>3 DEF Load
  <2>3. ArgsInv' /\ kind' = kind
    BY <2>1, UnchangedKeepsArgs DEF ProjectInv
  <2> QED
    BY <2>2, <2>3 DEF ProjectInv, SameKind
<1> QED
  BY <1>2, <1>3

\* Requests for arguments do not change the database.
LEMMA ParseKeepsProjectInv ==
  ASSUME ProjectInv, Parse
  PROVE  ProjectInv'
<1>1. ArgsStep /\ UNCHANGED vars
  BY DEF Parse
<1>2. PICK f \in File : Miss(f) \/ Reparse(f) \/ Evict(f)
  BY <1>1 DEF ArgsStep
<1>3. ArgsInv'
  BY <1>2, MissKeepsArgs, ReparseKeepsArgs, EvictKeepsArgs DEF ProjectInv
<1>4. kind' = kind
  BY <1>2 DEF Miss, Reparse, Evict
<1>5. loaded' = loaded
  BY <1>1 DEF vars, server
<1> QED
  BY <1>3, <1>4, <1>5 DEF ProjectInv, SameKind

\* No other step of the server reaches the parser, nor the database it has loaded.
LEMMA ConfigurationStepKeepsProjectInv ==
  ASSUME IInv, ProjectInv, ConfigurationStep, UNCHANGED argsVars
  PROVE  ProjectInv'
<1> DEFINE s == "source_code_model"
<1>1. loaded'[s] = loaded[s]
  <2>1. CASE Construct
    BY <2>1 DEF Construct, Discover, AutoConfigure, Retry, Find, Configure
  <2>2. CASE StartCodeCompletion
    BY <2>2, ReadersAre DEF StartCodeCompletion, IInv, TypeOK
  <2>3. CASE \E d \in Dir, k \in Kind : Change(d, k)
    BY <2>3 DEF Change, server
  <2> QED
    BY <2>1, <2>2, <2>3 DEF ConfigurationStep
<1>2. ArgsInv' /\ kind' = kind
  BY UnchangedKeepsArgs DEF ProjectInv
<1> QED
  BY <1>1, <1>2 DEF ProjectInv, SameKind

\* Every step of the composition keeps the invariant of the parser.
LEMMA StepKeepsProjectInv == IInv /\ ProjectInv /\ [ProjectNext]_projectVars => ProjectInv'
<1> SUFFICES ASSUME IInv, ProjectInv, [ProjectNext]_projectVars
             PROVE  ProjectInv'
  OBVIOUS
<1>1. CASE UNCHANGED projectVars
  <2>1. UNCHANGED argsVars /\ loaded' = loaded
    BY <1>1 DEF projectVars, vars, server
  <2>2. ArgsInv' /\ kind' = kind
    BY <2>1, UnchangedKeepsArgs DEF ProjectInv
  <2> QED
    BY <2>1, <2>2 DEF ProjectInv, SameKind
<1> QED
  BY <1>1, LoadKeepsProjectInv, ParseKeepsProjectInv, ConfigurationStepKeepsProjectInv
     DEF ProjectNext

\* The invariants of the construction and of the parser.
LEMMA ProjectInvariant == ProjectSpec => [](IInv /\ ProjectInv)
<1>1. Spec => []IInv
  BY InitIInv, StepKeepsIInv, PTL DEF Spec
<1>2. ProjectSpec => []IInv
  BY <1>1, ProjectImplementsConfiguration, PTL
<1>3. IInv /\ ProjectInv /\ [ProjectNext]_projectVars => ProjectInv'
  BY StepKeepsProjectInv
<1> QED
  BY <1>2, <1>3, InitProjectInv, PTL DEF ProjectSpec

-----------------------------------------------------------------------------
\* The state of the construction and of the parser keeps its types, arguments are lists
\* of the words of the commands, and the parser has the database its service loaded.
THEOREM ProjectTypeCorrect == ProjectSpec => []ProjectTypeOK
<1>1. IInv /\ ProjectInv => ProjectTypeOK
  <2> SUFFICES ASSUME IInv, ProjectInv
               PROVE  ProjectTypeOK
    OBVIOUS
  <2>1. TypeOK /\ ArgsInv /\ SameKind
    BY DEF IInv, ProjectInv
  <2>2. cached \in Seq(Word)
    <3>1. CASE cached = NoArgs
      BY <3>1, EmptySeq DEF NoArgs
    <3>2. CASE cached # NoArgs
      <4>1. PICK u \in Unit : cached = Extracted(u)
        BY <2>1, <3>2 DEF ArgsInv
      <4>2. cached \in Seq(OptionWord) /\ OptionWord \subseteq Word
        BY <4>1, ExtractedIs, WordsAre DEF Arguments
      <4> QED
        BY <4>2, SeqMonotonic
    <3> QED
      BY <3>1, <3>2
  <2>3. answer \in {NoAnswer} \cup
          [file : File, args : Seq(Word \cup {Parent}), edited : BOOLEAN]
    <3>1. CASE answer = NoAnswer
      BY <3>1
    <3>2. CASE answer # NoAnswer
      <4>1. PICK f \in File, args \in Arguments, edited \in BOOLEAN :
              answer = Answer(f, args, edited)
        BY <2>1, <3>2 DEF ArgsInv
      <4>2. /\ OptionWord \subseteq Word \cup {Parent}
            /\ OptionWord \cup {Parent} \subseteq Word \cup {Parent}
        BY WordsAre
      <4>3. /\ args \in Seq(OptionWord)
            /\ transform_to_edited_file_form(args) \in Seq(OptionWord \cup {Parent})
        BY EditedForm DEF Arguments
      <4>4. /\ args \in Seq(Word \cup {Parent})
            /\ transform_to_edited_file_form(args) \in Seq(Word \cup {Parent})
        BY <4>2, <4>3, SeqMonotonic
      <4> QED
        BY <4>1, <4>4 DEF Answer
    <3> QED
      BY <3>1, <3>2
  <2>4. ArgsTypeOK
    BY <2>1, <2>2, <2>3 DEF ArgsInv, ArgsTypeOK
  <2> QED
    BY <2>1, <2>4 DEF ProjectTypeOK, SameKind
<1> QED
  BY <1>1, ProjectInvariant, PTL

\* Whatever was asked for before, and whether libclang makes up commands or not: a file is
\* parsed with the flags its entry means, or with those of some entry, or, when there is
\* no entry, with the default.
THEOREM FlagsAlwaysMeant == ProjectSpec => []FlagsMeant
<1>1. IInv /\ ProjectInv => FlagsMeant
  <2> DEFINE got == Without({"", Parent}, answer.args)
  <2> SUFFICES ASSUME ArgsInv, answer # NoAnswer, kind = "json"
               PROVE  IF answer.file \in entries THEN got = Meant(answer.file)
                      ELSE IF entries # {} THEN \E u \in entries : got = Meant(u)
                      ELSE got = default_compiler_args
    BY DEF ProjectInv, FlagsMeant
  <2>1. PICK f \in File, args \in Arguments, edited \in BOOLEAN :
          Given(kind, entries, f, args) /\ answer = Answer(f, args, edited)
    BY DEF ArgsInv
  <2>2. answer.file = f
    BY <2>1 DEF Answer
  <2>3. got = Without({"", Parent}, args)
    <3>1. answer.args = IF edited THEN transform_to_edited_file_form(args) ELSE args
      BY <2>1 DEF Answer
    <3>2. Without({"", Parent}, transform_to_edited_file_form(args))
            = Without({"", Parent}, args)
      BY EditedForm
    <3> QED
      BY <3>1, <3>2
  <2> HIDE DEF got
  <2>4. \A u \in entries : Without({"", Parent}, Extracted(u)) = Meant(u)
    BY ExtractedIs DEF ArgsInv
  <2>5. Without({"", Parent}, default_compiler_args) = default_compiler_args
    BY DefaultIs
  <2>6. CASE f \in entries
    <3>1. args = Extracted(f)
      BY <2>1, <2>6 DEF Given
    <3> QED
      BY <2>2, <2>3, <2>4, <2>6, <3>1
  <2>7. CASE f \notin entries /\ entries # {}
    <3>1. PICK u \in entries : args = Extracted(u)
      BY <2>1, <2>7 DEF Given
    <3>2. got = Meant(u)
      BY <2>3, <2>4, <3>1
    <3> QED
      BY <2>2, <2>7, <3>2
  <2>8. CASE f \notin entries /\ entries = {}
    <3>1. args = default_compiler_args
      BY <2>1, <2>8 DEF Given
    <3> QED
      BY <2>2, <2>3, <2>5, <2>8, <3>1
  <2> QED
    BY <2>6, <2>7, <2>8
<1> QED
  BY <1>1, ProjectInvariant, PTL

\* A unit that is parsed again has the directory of its file as an include path, once,
\* behind the last of the others, or in front where there is none; one that is parsed for
\* the first time does not.
THEOREM ParentIsIncluded == ProjectSpec => []IncludesParent
<1>1. IInv /\ ProjectInv => IncludesParent
  <2> SUFFICES ASSUME ArgsInv
               PROVE  IncludesParent
    BY DEF ProjectInv
  <2> DEFINE Positions == {i \in DOMAIN answer.args : answer.args[i] = Parent}
  <2>1. CASE answer = NoAnswer
    <3>1. answer.edited = FALSE /\ answer.args = <<>>
      BY <2>1 DEF NoAnswer, NoArgs
    <3>2. Positions = {}
      BY <3>1
    <3> QED
      BY <3>1, <3>2 DEF IncludesParent
  <2>2. CASE answer # NoAnswer
    <3>1. PICK f \in File, args \in Arguments, edited \in BOOLEAN :
            answer = Answer(f, args, edited)
      BY <2>2 DEF ArgsInv
    <3>2. CASE edited
      <4> DEFINE form == transform_to_edited_file_form(args)
      <4>1. answer.edited /\ answer.args = form
        BY <3>1, <3>2 DEF Answer
      <4>2. form \in Seq(OptionWord \cup {Parent})
        BY EditedForm
      <4>3. PICK n \in 1..Len(form) :
              /\ form[n] = Parent /\ (n = 1 \/ form[n - 1] \in IncludeForms)
              /\ \A i \in 1..Len(form) : form[i] = Parent => i = n
              /\ \A i \in 1..Len(form) : form[i] \in IncludeForms => i <= n
        BY EditedForm
      <4> HIDE DEF form
      <4>4. DOMAIN form = 1..Len(form)
        BY <4>2, LenProperties
      <4>5. n \in Positions /\ Positions = {n}
        BY <4>1, <4>3, <4>4
      <4> QED
        BY <4>1, <4>3, <4>4, <4>5 DEF IncludesParent
    <3>3. CASE ~edited
      <4>1. answer.edited = FALSE /\ answer.args = args
        BY <3>1, <3>3 DEF Answer
      <4>2. args \in Seq(OptionWord)
        BY DEF Arguments
      <4>3. \A i \in DOMAIN args : args[i] \in OptionWord
        BY <4>2, ElementOfSeq, LenProperties
      <4>4. Positions = {}
        BY <4>1, <4>3 DEF OptionWord
      <4> QED
        BY <4>1, <4>4 DEF IncludesParent
    <3> QED
      BY <3>2, <3>3
  <2> QED
    BY <2>1, <2>2
<1> QED
  BY <1>1, ProjectInvariant, PTL
=================================================================================
