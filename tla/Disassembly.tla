------------------------------ MODULE Disassembly ------------------------------
(***************************************************************************)
(* disassembly_service.py: the output of objdump is kept and reused while  *)
(* the target and its mtime are those of the last run. A target is built,  *)
(* and removed, by others at any time.                                     *)
(***************************************************************************)
EXTENDS Naturals

CONSTANTS
  Targets,   \* binaries that can be disassembled
  None,      \* no target
  MaxBuilds  \* bound on the number of builds, of all targets

ASSUME NoneAssumption == None \notin Targets
ASSUME BuildsAssumption == MaxBuilds \in Nat

VARIABLES
  built,     \* built[t]: the build that t is of, which is its mtime; 0: there is no t
  builds     \* builds so far

VARIABLES
  symbols,   \* candidates: the target in which symbols were found, or None
  output,    \* disassembly_output: the target, and its build; 0: objdump failed
  last,      \* last_disassembled_binary and last_disassembled_timestamp
  pc,        \* of _disassemble: idle, objdump, stamp (last is assigned next)
  call,      \* the target of the request, and its build when it was taken
  answer,    \* of the last request: the target and the output, if it has been answered
  raced      \* builds of the target after objdump read it, before its mtime was read

world == <<built, builds>>
vars == <<world, symbols, output, last, pc, call, answer, raced>>

Builds == 0..MaxBuilds
Build == [target : Targets \cup {None}, built : Builds]
NoBuild == [target |-> None, built |-> 0]
Answers == [given : BOOLEAN, target : Targets \cup {None}, output : Build]
NoAnswer == [given |-> FALSE, target |-> None, output |-> NoBuild]

\* The type invariant: the target that is recorded is the one in the output, except
\* while a request is about to record it.
TypeOK ==
  /\ built \in [Targets -> Builds] /\ builds \in Builds
  /\ \A t \in Targets : built[t] <= builds
  /\ symbols \in Targets \cup {None}
  /\ output \in Build /\ last \in Build /\ call \in Build
  /\ pc \in {"idle", "objdump", "stamp"}
  /\ pc # "idle" => call.target \in Targets
  /\ output.target = IF pc = "stamp" THEN call.target ELSE last.target
  /\ answer \in Answers
  /\ raced \in SUBSET Builds

Init ==
  /\ built \in [Targets -> {0}] /\ builds = 0
  /\ symbols = None /\ output = NoBuild /\ last = NoBuild
  /\ pc = "idle" /\ call = NoBuild /\ answer = NoAnswer /\ raced = {}

-----------------------------------------------------------------------------
(* The build *)

\* Its mtime will be recorded with the output of the build before, if t is in work.
Races(t) ==
  raced' = IF pc = "stamp" /\ t = call.target THEN raced \cup {builds'} ELSE raced

Compile(t) ==
  /\ builds < MaxBuilds
  /\ builds' = builds + 1
  /\ built' = [built EXCEPT ![t] = builds']
  /\ Races(t)
  /\ UNCHANGED <<symbols, output, last, pc, call, answer>>

Clean(t) ==
  /\ built[t] # 0
  /\ built' = [built EXCEPT ![t] = 0]
  /\ UNCHANGED <<builds, symbols, output, last, pc, call, answer, raced>>

-----------------------------------------------------------------------------
(* The service *)

\* Candidates are found, or not, or the source file cannot be parsed, which leaves
\* those of an earlier request.
ListSymbolCandidates(t) ==
  /\ pc = "idle" /\ answer' = NoAnswer
  /\ \/ UNCHANGED symbols
     \/ symbols' = None
     \/ built[t] # 0 /\ symbols' = t
  /\ UNCHANGED <<world, output, last, pc, call, raced>>

Reply == answer' = [given |-> TRUE, target |-> call'.target, output |-> output']

\* Mutant of UpToDate: a target that was built again is not disassembled again.
UpToDateForEver(t) == last.target = t

\* What a request for t finds: nothing to disassemble, an output that is up to date, or
\* none.
Unlisted == symbols = None
Missing(t) == last.target = t /\ built[t] = 0
UpToDate(t) == last = [target |-> t, built |-> built[t]]

\* self.candidates[...] or os.path.getmtime raises.
RaiseAtOnce(t) ==
  /\ pc = "idle" /\ (Unlisted \/ Missing(t))
  /\ answer' = NoAnswer
  /\ UNCHANGED <<world, symbols, output, last, pc, call, raced>>

Disassemble(t) ==
  /\ pc = "idle" /\ ~Unlisted /\ ~Missing(t)
  /\ call' = [target |-> t, built |-> built[t]]
  /\ UNCHANGED output
  /\ IF UpToDate(t) THEN Reply /\ UNCHANGED pc
                    ELSE answer' = NoAnswer /\ pc' = "objdump"
  /\ UNCHANGED <<world, symbols, last, raced>>

\* Mutant of Objdump: the last output is kept when objdump fails.
ObjdumpKeeps ==
  /\ pc = "objdump" /\ pc' = "stamp" /\ raced' = {}
  /\ \/ UNCHANGED output
     \/ output' = [target |-> call.target, built |-> built[call.target]]
  /\ UNCHANGED <<world, symbols, last, call, answer>>

\* The output is emptied, then written by objdump, whose status is not looked at.
Objdump ==
  /\ pc = "objdump" /\ pc' = "stamp" /\ raced' = {}
  /\ \/ output' = [target |-> call.target, built |-> 0]
     \/ output' = [target |-> call.target, built |-> built[call.target]]
  /\ UNCHANGED <<world, symbols, last, call, answer>>

\* Mutant of Stamp: nothing is recorded if the mtime cannot be read.
StampAtOnce ==
  /\ pc = "stamp" /\ pc' = "idle"
  /\ IF built[call.target] = 0
       THEN UNCHANGED <<last, answer, output, call>>
       ELSE /\ last' = [target |-> call.target, built |-> built[call.target]]
            /\ UNCHANGED <<output, call>> /\ Reply
  /\ UNCHANGED <<world, symbols, raced>>

\* The binary is recorded, then its mtime; a binary that is gone has none, and what was
\* recorded of the one before stays.
Stamp ==
  /\ pc = "stamp" /\ pc' = "idle"
  /\ UNCHANGED <<output, call>>
  /\ IF built[call.target] = 0
       THEN /\ last' = [target |-> call.target, built |-> last.built]
            /\ UNCHANGED answer
       ELSE /\ last' = [target |-> call.target, built |-> built[call.target]]
            /\ Reply
  /\ UNCHANGED <<world, symbols, raced>>

\* The listener ends, at any point, and another is forked from the server, whose
\* service has never been asked for anything.
Restart ==
  /\ symbols' = None /\ output' = NoBuild /\ last' = NoBuild
  /\ pc' = "idle" /\ call' = NoBuild /\ answer' = NoAnswer /\ raced' = {}
  /\ UNCHANGED world

Next ==
  \/ \E t \in Targets : \/ Compile(t) \/ Clean(t)
                        \/ ListSymbolCandidates(t) \/ RaiseAtOnce(t) \/ Disassemble(t)
  \/ Objdump \/ Stamp \/ Restart

Spec == Init /\ [][Next]_vars

-----------------------------------------------------------------------------
\* An answer names an output of the target that was asked for, whatever became of the
\* requests before, some of which overwrote the output and then raised.
OutputOfTarget == answer.given => answer.output.target = answer.target

\* "(3) we disassembled it already and kept the same target but have recompiled it": the
\* output of a successful objdump is of the build that the request found, or a later one.
\* The one exception is a build made between objdump and the reading of the mtime.
OutputFresh ==
  answer.given /\ answer.output.built # 0
    => answer.output.built >= call.built \/ call.built \in raced
================================================================================
