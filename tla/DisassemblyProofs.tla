-------------------------- MODULE DisassemblyProofs --------------------------
(***************************************************************************)
(* Proofs about Disassembly.tla, for any number of targets and builds.     *)
(***************************************************************************)
EXTENDS Disassembly, TLAPS

\* The target is of the build the request found, of a later one, or gone; builds to come
\* are later.
CallInv ==
  /\ call.built <= builds
  /\ pc = "objdump" => built[call.target] = 0 \/ built[call.target] >= call.built
  /\ pc = "stamp" /\ output.built # 0 => output.built >= call.built

\* If objdump did not fail and the recorded build is still there, it is the one in the
\* output or one that raced; so is the build that is about to be recorded.
OutputInv ==
  /\ last.built <= builds
  /\ output.built # 0 =>
       /\ pc = "idle" /\ last.built # 0 /\ last.target \in Targets /\ built[last.target] = last.built
            => last.built \in {output.built} \cup raced
       /\ pc = "stamp" => built[call.target] \in {0, output.built} \cup raced

AnsweredIdle == answer.given => pc = "idle"

IInv == TypeOK /\ CallInv /\ OutputInv /\ AnsweredIdle /\ OutputOfTarget /\ OutputFresh

\* The records of the model, by their fields.
LEMMA BuildType ==
  /\ \A b \in Build : b.target \in Targets \cup {None} /\ b.built \in Builds
  /\ \A t \in Targets \cup {None}, n \in Builds :
       /\ [target |-> t, built |-> n] \in Build
       /\ [target |-> t, built |-> n].target = t
       /\ [target |-> t, built |-> n].built = n
BY DEF Build

LEMMA AnswersType ==
  ASSUME NEW t \in Targets \cup {None}, NEW o \in Build, NEW g \in BOOLEAN
  PROVE  [given |-> g, target |-> t, output |-> o] \in Answers
BY DEF Answers

LEMMA NoBuildType ==
  /\ NoBuild \in Build /\ NoBuild.target = None /\ NoBuild.built = 0
  /\ NoAnswer \in Answers /\ ~NoAnswer.given
<1>1. NoBuild \in Build /\ NoBuild.target = None /\ NoBuild.built = 0
  BY BuildsAssumption DEF NoBuild, Build, Builds
<1> QED
  BY <1>1, AnswersType DEF NoAnswer

USE NoneAssumption, BuildsAssumption, NoBuildType DEF Builds, world

LEMMA InitIInv == Init => IInv
<1> SUFFICES ASSUME Init
             PROVE  IInv
  OBVIOUS
<1>1. TypeOK
  <2>1. built \in [Targets -> Builds] /\ \A t \in Targets : built[t] = 0
    BY DEF Init
  <2>2. output.target = last.target /\ builds = 0 /\ pc = "idle"
    BY DEF Init
  <2>3. raced \in SUBSET Builds /\ symbols \in Targets \cup {None}
    BY DEF Init
  <2>4. output \in Build /\ last \in Build /\ call \in Build /\ answer \in Answers
    BY DEF Init
  <2> QED
    BY <2>1, <2>2, <2>3, <2>4 DEF TypeOK
<1>2. CallInv /\ OutputInv /\ AnsweredIdle /\ OutputOfTarget /\ OutputFresh
  BY DEF Init, CallInv, OutputInv, AnsweredIdle, OutputOfTarget, OutputFresh
<1> QED
  BY <1>1, <1>2 DEF IInv

\* Nothing is asked of a binary that changes but that a build is newer than all before.
LEMMA CompileKeepsIInv ==
  ASSUME IInv, NEW t \in Targets, Compile(t)
  PROVE  IInv'
<1> USE DEF IInv, Compile, Races
<1>1. TypeOK'
  <2>1. builds \in Nat /\ builds' \in Builds /\ builds' = builds + 1
    BY DEF TypeOK
  <2>2. built' \in [Targets -> Builds]
    BY <2>1 DEF TypeOK
  <2>3. \A u \in Targets : built'[u] <= builds'
    BY <2>1 DEF TypeOK
  <2>4. raced' \in SUBSET Builds
    BY <2>1 DEF TypeOK
  <2> QED
    BY <2>1, <2>2, <2>3, <2>4 DEF TypeOK
<1>2. CallInv'
  BY BuildType DEF TypeOK, CallInv
<1>3. OutputInv'
  <2>1. builds \in Nat /\ last.built <= builds /\ raced \subseteq raced'
    BY DEF TypeOK, OutputInv
  <2>2. \A u \in Targets : u # t => built'[u] = built[u]
    BY DEF TypeOK
  <2>3. built'[t] = builds + 1 /\ builds' = builds + 1
    BY DEF TypeOK
  <2>4. last'.built <= builds'
    BY <2>1, <2>3, BuildType DEF TypeOK
  <2>5. ASSUME output.built # 0, pc = "idle", last.built # 0, last.target \in Targets,
               built'[last.target] = last.built
        PROVE  last.built \in {output.built} \cup raced'
    <3>1. last.target # t
      BY <2>1, <2>3, <2>5 DEF TypeOK, Build
    <3> QED
      BY <2>1, <2>2, <2>5, <3>1 DEF OutputInv
  <2>6. ASSUME output.built # 0, pc = "stamp"
        PROVE  built'[call.target] \in {0, output.built} \cup raced'
    <3>1. CASE t = call.target
      BY <2>3, <2>6, <3>1
    <3>2. CASE t # call.target
      BY <2>1, <2>2, <2>6, <3>2 DEF OutputInv, TypeOK
    <3> QED
      BY <3>1, <3>2
  <2> QED
    BY <2>4, <2>5, <2>6 DEF OutputInv
<1>4. AnsweredIdle' /\ OutputOfTarget' /\ OutputFresh'
  BY DEF AnsweredIdle, OutputOfTarget, OutputFresh
<1> QED
  BY <1>1, <1>2, <1>3, <1>4

LEMMA CleanKeepsIInv ==
  ASSUME IInv, NEW t \in Targets, Clean(t)
  PROVE  IInv'
<1> USE DEF IInv, Clean
<1>1. TypeOK'
  BY DEF TypeOK
<1>2. CallInv'
  BY DEF TypeOK, CallInv
<1>3. OutputInv'
  BY DEF TypeOK, OutputInv
<1>4. AnsweredIdle' /\ OutputOfTarget' /\ OutputFresh'
  BY DEF AnsweredIdle, OutputOfTarget, OutputFresh
<1> QED
  BY <1>1, <1>2, <1>3, <1>4

\* Listing, and a request that raises at once, leave all but the symbols alone.
LEMMA ListKeepsIInv ==
  ASSUME IInv, NEW t \in Targets, ListSymbolCandidates(t) \/ RaiseAtOnce(t)
  PROVE  IInv'
<1>1. /\ symbols' \in Targets \cup {None} /\ pc = "idle" /\ answer' = NoAnswer
      /\ UNCHANGED <<world, output, last, pc, call, raced>>
  BY DEF IInv, TypeOK, ListSymbolCandidates, RaiseAtOnce
<1>2. TypeOK'
  <2>1. answer' \in Answers
    BY <1>1
  <2> QED
    BY <1>1, <2>1 DEF IInv, TypeOK
<1>3. CallInv' /\ OutputInv' /\ AnsweredIdle' /\ OutputOfTarget' /\ OutputFresh'
  BY <1>1 DEF IInv, CallInv, OutputInv, AnsweredIdle, OutputOfTarget, OutputFresh
<1> QED
  BY <1>2, <1>3 DEF IInv

\* A target that is reused is the one in the output, and of the build that it is of now.
LEMMA DisassembleKeepsIInv ==
  ASSUME IInv, NEW t \in Targets, Disassemble(t)
  PROVE  IInv'
<1> USE DEF IInv, Disassemble
<1>1. CASE UpToDate(t)
  <2>1. /\ pc' = "idle" /\ last.target = t /\ last.built = built[t]
        /\ answer'.target = t /\ answer'.output = output
    BY <1>1 DEF UpToDate, Reply
  <2>2. TypeOK'
    <3>1. call' \in Build /\ UNCHANGED <<world, symbols, output, last, raced>>
      BY BuildType DEF TypeOK
    <3>2. answer' \in Answers
      <4>1. answer' = [given |-> TRUE, target |-> t, output |-> output]
        BY <1>1 DEF Reply
      <4> QED
        BY <4>1, AnswersType DEF TypeOK
    <3> QED
      BY <2>1, <3>1, <3>2 DEF TypeOK
  <2>3. CallInv' /\ OutputInv' /\ AnsweredIdle'
    BY <2>1 DEF TypeOK, CallInv, OutputInv, AnsweredIdle
  <2>4. OutputOfTarget'
    BY <2>1 DEF OutputOfTarget, TypeOK
  <2>5. OutputFresh'
    <3>1. call'.built = built[t] /\ built[t] # 0 /\ pc = "idle" /\ raced' = raced
      BY <2>1 DEF Missing
    <3>2. output.built # 0 => built[t] \in {output.built} \cup raced
      BY <2>1, <3>1 DEF OutputInv
    <3>3. built[t] \in Nat
      BY DEF TypeOK
    <3> QED
      BY <2>1, <3>1, <3>2, <3>3 DEF OutputFresh
  <2> QED
    BY <2>2, <2>3, <2>4, <2>5
<1>2. CASE ~UpToDate(t)
  <2>1. TypeOK'
    <3>1. call' \in Build /\ call'.target = t /\ output' = output
      BY BuildType DEF TypeOK
    <3>2. answer' \in Answers
      BY <1>2
    <3>3. /\ pc' = "objdump" /\ call'.target \in Targets
          /\ output'.target = last'.target /\ UNCHANGED <<world, symbols, last, raced>>
      BY <1>2, <3>1 DEF TypeOK
    <3> QED
      BY <3>1, <3>2, <3>3 DEF TypeOK
  <2>2. CallInv' /\ OutputInv' /\ AnsweredIdle' /\ OutputOfTarget' /\ OutputFresh'
    BY <1>2 DEF TypeOK, CallInv, OutputInv, AnsweredIdle, OutputOfTarget, OutputFresh
  <2> QED
    BY <2>1, <2>2
<1> QED
  BY <1>1, <1>2

LEMMA ObjdumpKeepsIInv ==
  ASSUME IInv, Objdump
  PROVE  IInv'
<1> USE DEF IInv, Objdump
<1>1. TypeOK'
  <2>1. output' \in Build /\ output'.target = call.target
    BY BuildType DEF TypeOK
  <2> QED
    BY <2>1 DEF TypeOK
<1>2. CallInv' /\ OutputInv'
  BY DEF TypeOK, CallInv, OutputInv
<1>3. AnsweredIdle' /\ OutputOfTarget' /\ OutputFresh'
  BY DEF AnsweredIdle, OutputOfTarget, OutputFresh
<1> QED
  BY <1>1, <1>2, <1>3

\* The mtime that is recorded is that of the output, or of a build that raced; a target that
\* is gone leaves the mtime recorded before, which is not that of any binary.
LEMMA StampKeepsIInv ==
  ASSUME IInv, Stamp
  PROVE  IInv'
<1> USE DEF IInv, Stamp
<1>1. TypeOK'
  <2>1. CASE built[call.target] = 0
    BY <2>1, BuildType DEF TypeOK
  <2>2. CASE built[call.target] # 0
    <3>1. last' \in Build /\ last'.target = call.target /\ UNCHANGED <<output, call, world>>
      BY <2>2, BuildType DEF TypeOK
    <3>2. answer' \in Answers
      <4>1. answer' = [given |-> TRUE, target |-> call.target, output |-> output]
        BY <2>2 DEF Reply
      <4> QED
        BY <4>1, AnswersType DEF TypeOK
    <3> QED
      BY <2>2, <3>1, <3>2 DEF TypeOK
  <2> QED
    BY <2>1, <2>2
<1>2. CallInv' /\ OutputInv'
  BY DEF TypeOK, CallInv, OutputInv
<1>3. AnsweredIdle' /\ OutputOfTarget' /\ OutputFresh'
  BY DEF TypeOK, CallInv, AnsweredIdle, OutputOfTarget, OutputFresh, Reply
<1> QED
  BY <1>1, <1>2, <1>3

LEMMA RestartKeepsIInv ==
  ASSUME IInv, Restart
  PROVE  IInv'
<1> USE DEF IInv, Restart
<1>1. TypeOK'
  <2>1. NoBuild \in Build /\ None \in Targets \cup {None}
    OBVIOUS
  <2>2. answer' \in Answers
    BY <2>1
  <2> QED
    BY <2>1, <2>2 DEF TypeOK
<1>2. CallInv' /\ OutputInv' /\ AnsweredIdle' /\ OutputOfTarget' /\ OutputFresh'
  BY DEF TypeOK, CallInv, OutputInv, AnsweredIdle, OutputOfTarget, OutputFresh
<1> QED
  BY <1>1, <1>2

LEMMA StepKeepsIInv == IInv /\ [Next]_vars => IInv'
<1> SUFFICES ASSUME IInv, [Next]_vars
             PROVE  IInv'
  OBVIOUS
<1>1. CASE UNCHANGED vars
  BY <1>1 DEF vars, IInv, TypeOK, CallInv, OutputInv, AnsweredIdle, OutputOfTarget, OutputFresh
<1>2. CASE Next
  BY <1>2, CompileKeepsIInv, CleanKeepsIInv, ListKeepsIInv, DisassembleKeepsIInv,
     ObjdumpKeepsIInv, StampKeepsIInv, RestartKeepsIInv
     DEF Next
<1> QED
  BY <1>1, <1>2

\* The state keeps its types, and the recorded target is the one in the output: also when
\* the mtime of a target that is gone could not be read.
THEOREM TypeCorrect == Spec => []TypeOK
<1>1. IInv => TypeOK
  BY DEF IInv
<1> QED
  BY <1>1, InitIInv, StepKeepsIInv, PTL DEF Spec

\* No answer hands out the disassembly of another target than the one asked for.
THEOREM OutputIsOfTarget == Spec => []OutputOfTarget
<1>1. IInv => OutputOfTarget
  BY DEF IInv
<1> QED
  BY <1>1, InitIInv, StepKeepsIInv, PTL DEF Spec

\* A target that was compiled again is disassembled again.
THEOREM OutputIsFresh == Spec => []OutputFresh
<1>1. IInv => OutputFresh
  BY DEF IInv
<1> QED
  BY <1>1, InitIInv, StepKeepsIInv, PTL DEF Spec
================================================================================
