----------------------------- MODULE Configuration -----------------------------
(***************************************************************************)
(* How a server finds the compilation database of its project (server.py,  *)
(* Server.__init__, and cxxd_config_parser.py), and which database each of *)
(* its services ends up with.                                              *)
(*                                                                         *)
(* The server looks for a database, has the project configured when there  *)
(* is none, and constructs its services.  The path is not handed on: every *)
(* service looks for the database again, on a disk that may have changed.  *)
(***************************************************************************)
EXTENDS Naturals, Sequences

CONSTANTS
  NumDirs,   \* directories, numbered in the order in which they are looked at
  MaxChanges \* bound on the number of times somebody writes or removes a file

ASSUME DirsAssumption == NumDirs \in Nat \ {0}
ASSUME ChangesAssumption == MaxChanges \in Nat

Dir == 1..NumDirs
BuildDir == 1 \* that of the target, when the configuration has one for it

\* The configuration types: the two that give a directory per target, the two
\* that search, and one the parser rejects.
Types == {"target", "auto-discovery", "try-harder", "invalid"}

\* compile_commands.json and compile_flags.txt
Kind == {"json", "flags"}

\* What discovery returns.
Path == [dir : Dir, kind : Kind]
NoPath == [dir |-> 0, kind |-> "none"]

\* The services that look for a database, in the order they are constructed.
Readers == <<"source_code_model", "clang_tidy", "disassembly", "code_completion">>
Reader == {Readers[i] : i \in 1..4}

\* A database as it was loaded; version 0: the file was not there by then.
Database == [path : Path, version : Nat]
NoDatabase == [path |-> NoPath, version |-> 0]

VARIABLES
  type,          \* the configuration type
  target,        \* whether the configuration has a directory for the target
  paths,         \* the directories to be looked at
  configure_cmd, \* whether the target has a configure command
  version,       \* version[d][k]: the last change of that file; 0: not there
  changes,       \* the number of changes so far
  configuration, \* the path the server found
  failed,        \* whether the configure command ran and failed
  pc,            \* where the constructor stands
  reader,        \* the service being constructed
  found,         \* found[s]: the path service s found
  loaded         \* loaded[s]: the database it has loaded

config == <<type, target, paths, configure_cmd>>
disk == <<version, changes>>
server == <<configuration, failed, pc, reader, found, loaded>>
vars == <<config, disk, server>>

\* The type invariant. That a service with a database has found a path first is
\* part of it.
TypeOK ==
  /\ type \in Types /\ target \in BOOLEAN /\ configure_cmd \in BOOLEAN
  /\ paths \subseteq Dir
  /\ version \in [Dir -> [Kind -> Nat]] /\ changes \in Nat
  /\ configuration \in Path \cup {NoPath}
  /\ failed \in BOOLEAN
  /\ pc \in {"discover", "auto_configure", "configure", "retry", "find", "load",
             "serve", "shutdown", "raised"}
  /\ reader \in 1..4
  /\ found \in [Reader -> Path \cup {NoPath}]
  /\ loaded \in [Reader -> Database \cup {NoDatabase}]
  /\ \A s \in Reader : loaded[s] # NoDatabase => loaded[s].path = found[s]

\* The directory that belongs to the target is known in one type only.
BuildDirKnown == type = "target" /\ target

\* Where each type looks: auto-discovery at the paths it is given, if any.
Init ==
  /\ type \in Types /\ target \in BOOLEAN /\ configure_cmd \in BOOLEAN
  /\ paths \in SUBSET Dir
  /\ type = "target" => paths = IF target THEN {BuildDir} ELSE {}
  /\ type = "try-harder" => paths = Dir
  /\ type = "invalid" => paths = {}
  /\ version \in [Dir -> [Kind -> {0, 1}]]
  /\ changes = 0
  /\ configuration = NoPath /\ failed = FALSE /\ pc = "discover"
  /\ reader = 1
  /\ found = [s \in Reader |-> NoPath]
  /\ loaded = [s \in Reader |-> NoDatabase]

-----------------------------------------------------------------------------
(* CxxdConfigParser *)

Present(d, k) == version[d][k] # 0

\* The file of the first directory that has one; the JSON database goes first.
Discovered ==
  LET candidates == {d \in paths : \E k \in Kind : Present(d, k)}
      first == CHOOSE d \in candidates : \A e \in candidates : d <= e
  IN  IF candidates = {} THEN NoPath
      ELSE [dir |-> first,
            kind |-> IF Present(first, "json") THEN "json" ELSE "flags"]

-----------------------------------------------------------------------------
(* Server.__init__ *)

Discover ==
  /\ pc = "discover"
  /\ configuration' = Discovered
  /\ pc' = IF Discovered = NoPath THEN "auto_configure" ELSE "find"
  /\ UNCHANGED <<config, disk, failed, reader, found, loaded>>

\* Nothing was found. A build directory without either file is configured, if
\* there is a command for it; otherwise the server bails out.
AutoConfigure ==
  /\ pc = "auto_configure"
  /\ LET should_run == BuildDirKnown /\ \A k \in Kind : ~Present(BuildDir, k)
     IN  pc' = IF should_run /\ configure_cmd THEN "configure" ELSE "shutdown"
  /\ UNCHANGED <<config, disk, configuration, failed, reader, found, loaded>>

\* The command runs in the build directory. Whatever it leaves there, a server
\* whose command failed bails out.
Configure(made, ok) ==
  /\ pc = "configure"
  /\ version' = [version EXCEPT ![BuildDir] =
                  [k \in Kind |-> IF k \in made /\ @[k] = 0 THEN 1 ELSE @[k]]]
  /\ failed' = ~ok
  /\ pc' = IF ok THEN "retry" ELSE "shutdown"
  /\ UNCHANGED <<config, changes, configuration, reader, found, loaded>>

\* Mutant of Retry: the new database waits for the next start of the server.
RetryNot ==
  /\ pc = "retry"
  /\ pc' = "shutdown"
  /\ UNCHANGED <<config, disk, configuration, failed, reader, found, loaded>>

Retry ==
  /\ pc = "retry"
  /\ configuration' = Discovered
  /\ pc' = IF Discovered = NoPath THEN "shutdown" ELSE "find"
  /\ UNCHANGED <<config, disk, failed, reader, found, loaded>>

Service == Readers[reader]

\* Mutant of Find: a service is told which kind to use, and looks for its place.
FindFlags ==
  /\ pc = "find"
  /\ LET path == IF Service = "disassembly" /\ Present(BuildDir, "flags")
                   THEN [dir |-> BuildDir, kind |-> "flags"] ELSE Discovered
     IN  found' = [found EXCEPT ![Service] = path]
  /\ pc' = IF Service = "code_completion" THEN "serve" ELSE "load"
  /\ UNCHANGED <<config, disk, configuration, failed, reader, loaded>>

\* A service's constructor looks for the database again. Code completion leaves
\* the rest to its startup, and it is the last.
Find ==
  /\ pc = "find"
  /\ found' = [found EXCEPT ![Service] = Discovered]
  /\ pc' = IF Service = "code_completion" THEN "serve" ELSE "load"
  /\ UNCHANGED <<config, disk, configuration, failed, reader, loaded>>

\* The database of service s as it is now. For clang-tidy a JSON database stays a
\* path, which clang-tidy itself reads at every request.
Loaded(s) ==
  IF found[s] = NoPath THEN NoDatabase
  ELSE [path |-> found[s], version |-> version[found[s].dir][found[s].kind]]

\* Flags that have gone cannot be opened. A JSON database that has gone is logged.
CannotOpen(s) == Loaded(s).path.kind = "flags" /\ Loaded(s).version = 0

\* A parser cannot be made without a path, and disassembly asks for the build
\* directory; clang-tidy only logs that it has nothing.
Raises(s) ==
  \/ CannotOpen(s)
  \/ s # "clang_tidy" /\ found[s] = NoPath
  \/ s = "disassembly" /\ ~BuildDirKnown

\* A service that raises in its constructor ends the process of the server.
Load ==
  /\ pc = "load"
  /\ \/ /\ Raises(Service)
        /\ pc' = "raised"
        /\ UNCHANGED <<reader, loaded>>
     \/ /\ ~Raises(Service)
        /\ loaded' = [loaded EXCEPT ![Service] = Loaded(Service)]
        /\ reader' = reader + 1
        /\ pc' = "find"
  /\ UNCHANGED <<config, disk, configuration, failed, found>>

\* Code completion makes its parser each time it is started, with the path it
\* found when it was constructed. An exception is logged: it has no parser then.
StartCodeCompletion ==
  LET s == "code_completion"
  IN  /\ pc = "serve"
      /\ loaded' = [loaded EXCEPT ![s] = IF Raises(s) THEN NoDatabase ELSE Loaded(s)]
      /\ UNCHANGED <<config, disk, configuration, failed, pc, reader, found>>

-----------------------------------------------------------------------------
\* Somebody writes or removes a file, also while the server is constructed.
Change(d, k) ==
  /\ changes < MaxChanges
  /\ changes' = changes + 1
  /\ \E v \in {0, changes' + 1} :
       version' = [version EXCEPT ![d] = [@ EXCEPT ![k] = v]]
  /\ UNCHANGED <<config, server>>

Construct ==
  \/ Discover \/ AutoConfigure \/ Retry \/ Find
  \/ \E made \in SUBSET Kind, ok \in BOOLEAN : Configure(made, ok)

Next ==
  \/ Construct \/ Load \/ StartCodeCompletion
  \/ \E d \in Dir, k \in Kind : Change(d, k)

Spec == Init /\ [][Next]_vars

-----------------------------------------------------------------------------
\* What a service uses: see Loaded for clang-tidy.
InUse(s) ==
  IF s = "clang_tidy" /\ found[s].kind = "json" THEN Loaded(s) ELSE loaded[s]

\* Although every service looks for the database itself, they all use the one the
\* server found, and it is the one on the disk, unless the disk was changed after
\* the server began; after any number of starts of code completion.
AgreeUnlessChanged ==
  pc = "serve" /\ changes = 0 =>
    /\ configuration \in Path /\ Present(configuration.dir, configuration.kind)
    /\ \A s \in Reader :
         /\ found[s] = configuration
         /\ InUse(s) # NoDatabase => InUse(s) = Loaded("source_code_model")
         /\ s # "code_completion" => InUse(s) # NoDatabase

\* The server bails out only if there is no database where it is configured to look, or the
\* project could not be configured, or it was changed while it looked. Once a database was
\* found, constructing the services raises only where the target has no build directory
\* (disassembly asks for one), or the disk was changed.
FailsWithCause ==
  /\ pc = "shutdown" => failed \/ changes > 0 \/ Discovered = NoPath
  /\ pc = "raised" => changes > 0 \/ ~BuildDirKnown
=============================================================================
