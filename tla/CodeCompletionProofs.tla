------------------------- MODULE CodeCompletionProofs -------------------------
(***************************************************************************)
(* Proofs about CodeCompletion.tla: the list kept between keystrokes is    *)
(* worth a new one from libclang, whatever libclang offers; and lists and  *)
(* text keep their types.                                                  *)
(***************************************************************************)
EXTENDS CodeCompletion, SequenceTheorems, TLAPS

\* A list is kept only for the word it was asked for. It may be another's while the
\* request about a separator, which drops or replaces it, is not served yet.
KeptForWord ==
  left = "no" /\ candidates # {} /\ (pc = "request" => word # <<>>)
    => cache = Candidates(file, prefix)

\* A request has no answer before it is served.
AnsweredIdle == pc = "request" => ~answer.given

ListInv == KeptForWord /\ AnsweredIdle /\ WordAnsweredFresh

LEMMA InitListInv == Init => ListInv
BY DEF Init, ListInv, KeptForWord, AnsweredIdle, WordAnsweredFresh, NoAnswer

\* The user's changes keep the prefix while they stay in the word.
LEMMA TextKeepsListInv ==
  ASSUME ListInv,
         (\E c \in Characters : Type(c)) \/ Backspace \/ (\E f \in Files : Move(f))
  PROVE  ListInv'
<1> USE DEF ListInv, KeptForWord, AnsweredIdle, WordAnsweredFresh, NoAnswer, service
<1>1. ASSUME NEW c \in Characters, Type(c)
      PROVE  ListInv'
  BY <1>1 DEF Type
<1>2. CASE Backspace
  BY <1>2 DEF Backspace
<1>3. ASSUME NEW f \in Files, Move(f)
      PROVE  ListInv'
  BY <1>3 DEF Move
<1> QED
  BY <1>1, <1>2, <1>3

\* The text stays as it is while a request is served.
LEMMA ServeKeepsListInv ==
  ASSUME ListInv, Serve
  PROVE  ListInv'
<1> USE DEF ListInv, KeptForWord, AnsweredIdle, WordAnsweredFresh, NoAnswer, text, service
<1>1. ASSUME UNCHANGED text
      PROVE  Fresh' = Fresh
  BY <1>1 DEF Fresh, AtMember, AtIdentifier, InComment, Filter, Occurs
<1>2. CASE Drop
  <2>1. Fresh = {}
    BY <1>2 DEF Drop, Fresh
  <2>2. candidates' = {} /\ pc' = "idle" /\ (answer'.given => answer'.names = candidates')
    BY <1>2 DEF Drop, Reply
  <2>3. Fresh' = {}
    BY <1>1, <1>2, <2>1 DEF Drop
  <2> QED
    BY <2>2, <2>3
<1>3. CASE CompleteMember
  <2>1. Fresh = Candidates(file, prefix)
    BY <1>3 DEF CompleteMember, Fresh
  <2> QED
    BY <1>1, <1>3, <2>1 DEF CompleteMember, Reply, Raise
<1>4. CASE CompleteIdentifier
  <2>1. Fresh = Filter(Candidates(file, prefix), word)
    BY <1>4 DEF CompleteIdentifier, Fresh, AtMember, AtIdentifier
  <2> QED
    BY <1>1, <1>4, <2>1 DEF CompleteIdentifier, Reply, Raise
<1>5. CASE Refine
  <2>1. Fresh = Filter(Candidates(file, prefix), word)
    BY <1>5 DEF Refine, Fresh, AtMember, AtIdentifier
  <2>2. word # <<>>
    BY <1>5 DEF Refine, AtIdentifier
  <2> QED
    BY <1>1, <1>5, <2>1, <2>2 DEF Refine, Reply
<1>6. CASE Missed
  BY <1>6 DEF Missed
<1> QED
  BY <1>2, <1>3, <1>4, <1>5, <1>6 DEF Serve

\* Whatever libclang offers, fails to offer or the sorting makes of it, the answers given
\* while a word is typed and corrected are those of a completion without a memory.
THEOREM WordAnsweredFreshAlways == Spec => []WordAnsweredFresh
<1>1. ASSUME ListInv, [Next]_vars
      PROVE  ListInv'
  <2>1. CASE Next
    BY <1>1, <2>1, TextKeepsListInv, ServeKeepsListInv DEF Next
  <2>2. CASE UNCHANGED vars
    BY <1>1, <2>2
       DEF vars, text, service, ListInv, KeptForWord, AnsweredIdle, WordAnsweredFresh,
           Fresh, AtMember, AtIdentifier, InComment, Filter, Occurs
  <2> QED
    BY <1>1, <2>1, <2>2
<1>2. ListInv => WordAnsweredFresh
  BY DEF ListInv
<1> QED
  BY <1>1, <1>2, InitListInv, PTL DEF Spec

-----------------------------------------------------------------------------
(***************************************************************************)
(* The types. The line never gets longer than MaxLength, so libclang is    *)
(* only asked about lines its assumption speaks of.                        *)
(***************************************************************************)
LengthInv == Len(prefix) + Len(word) <= MaxLength

LEMMA LinesAreShort ==
  ASSUME NEW line
  PROVE  line \in Lines <=> line \in Seq(Characters) /\ Len(line) <= MaxLength
<1>1. ASSUME line \in Lines
      PROVE  line \in Seq(Characters) /\ Len(line) <= MaxLength
  <2>1. PICK n \in 0..MaxLength : line \in [1..n -> Characters]
    BY <1>1 DEF Lines
  <2>2. line \in Seq(Characters) /\ Len(line) = n
    BY <2>1, LengthAssumption
  <2> QED
    BY <2>1, <2>2, LengthAssumption
<1>2. ASSUME line \in Seq(Characters), Len(line) <= MaxLength
      PROVE  line \in Lines
  <2>1. Len(line) \in 0..MaxLength /\ line \in [1..Len(line) -> Characters]
    BY <1>2, LengthAssumption
  <2> QED
    BY <2>1 DEF Lines
<1> QED
  BY <1>1, <1>2

LEMMA EmptyIsLine == <<>> \in Lines
<1>1. <<>> \in [1..0 -> Characters]
  BY EmptySeq
<1>2. 0 \in 0..MaxLength
  BY LengthAssumption
<1> QED
  BY <1>1, <1>2 DEF Lines

\* The text, as a reader of the proofs below wants it.
LEMMA TextType ==
  ASSUME TypeOK, LengthInv
  PROVE  /\ prefix \in Seq(Characters) /\ word \in Seq(Letters)
         /\ word \in Seq(Characters)
         /\ Len(prefix) \in Nat /\ Len(word) \in Nat
<1>1. prefix \in Seq(Characters) /\ word \in Seq(Letters)
  BY LinesAreShort DEF TypeOK
<1>2. \A i \in 1..Len(word) : word[i] \in Characters
  BY <1>1 DEF Characters
<1> QED
  BY <1>1, <1>2

LEMMA InitType == Init => TypeOK /\ LengthInv
<1> SUFFICES ASSUME Init PROVE TypeOK /\ LengthInv
  OBVIOUS
<1>1. prefix = <<>> /\ word = <<>> /\ <<>> \in Seq(Characters) /\ <<>> \in Seq(Letters)
  BY DEF Init
<1>2. prefix \in Lines
  BY <1>1, EmptyIsLine
<1> QED
  BY <1>1, <1>2, LengthAssumption DEF Init, TypeOK, LengthInv, NoAnswer

LEMMA TypeKeepsType ==
  ASSUME TypeOK, LengthInv, NEW c \in Characters, Type(c)
  PROVE  TypeOK' /\ LengthInv'
<1> USE TextType, LengthAssumption
<1>1. /\ file' = file /\ UNCHANGED service /\ pc' = "request" /\ answer' = NoAnswer
      /\ Len(prefix) + Len(word) < MaxLength
  BY DEF Type
<1>2. CASE c \in Letters
  <2>1. word' = Append(word, c) /\ prefix' = prefix /\ left' = left
    BY <1>2 DEF Type
  <2>2. word' \in Seq(Letters) /\ Len(word') = Len(word) + 1
    BY <1>2, <2>1, AppendProperties
  <2>3. LengthInv'
    BY <1>1, <2>1, <2>2 DEF LengthInv
  <2> QED
    BY <1>1, <2>1, <2>2, <2>3 DEF TypeOK, service, NoAnswer
<1>3. CASE c \notin Letters
  <2>1. prefix' = Append(prefix \o word, c) /\ word' = <<>> /\ left' = "no"
    BY <1>3 DEF Type
  <2>2. prefix \o word \in Seq(Characters)
        /\ Len(prefix \o word) = Len(prefix) + Len(word)
    BY ConcatProperties
  <2>3. prefix' \in Seq(Characters) /\ Len(prefix') = Len(prefix) + Len(word) + 1
    BY <2>1, <2>2, AppendProperties
  <2>4. Len(prefix') <= MaxLength
    BY <1>1, <2>3
  <2>5. prefix' \in Lines
    BY <2>3, <2>4, LinesAreShort
  <2>6. word' \in Seq(Letters) /\ Len(word') = 0
    BY <2>1
  <2>7. LengthInv'
    BY <2>3, <2>4, <2>6 DEF LengthInv
  <2> QED
    BY <1>1, <2>1, <2>5, <2>6, <2>7 DEF TypeOK, service, NoAnswer
<1> QED
  BY <1>2, <1>3

LEMMA BackspaceKeepsType ==
  ASSUME TypeOK, LengthInv, Backspace
  PROVE  TypeOK' /\ LengthInv'
<1> USE TextType, LengthAssumption
<1>1. file' = file /\ UNCHANGED service /\ pc' = "request" /\ answer' = NoAnswer
  BY DEF Backspace
<1>2. CASE /\ word # <<>>
           /\ word' = SubSeq(word, 1, Len(word) - 1)
           /\ UNCHANGED <<prefix, left>>
  <2>1. Len(word) >= 1
    BY <1>2
  <2>2. /\ 1 \in Int /\ Len(word) - 1 \in Int
        /\ \A i \in 1..(Len(word) - 1) : word[i] \in Letters
    OBVIOUS
  <2>3. /\ word' \in Seq(Letters)
        /\ Len(word') = (IF 1 <= Len(word) - 1 THEN Len(word) - 1 - 1 + 1 ELSE 0)
    BY <1>2, <2>2, SubSeqProperties
  <2>4. Len(word') = Len(word) - 1
    <3>1. \A n \in Nat : n >= 1 =>
            (IF 1 <= n - 1 THEN n - 1 - 1 + 1 ELSE 0) = n - 1
      OBVIOUS
    <3> QED
      BY <2>1, <2>3, <3>1
  <2>5. LengthInv'
    BY <1>2, <2>4 DEF LengthInv
  <2> QED
    BY <1>1, <1>2, <2>3, <2>5 DEF TypeOK, service, NoAnswer
<1>3. ASSUME word = <<>>, prefix # <<>>, NEW i \in 0..(Len(prefix) - 1),
             \A j \in (i + 1)..(Len(prefix) - 1) : prefix[j] \in Letters,
             prefix' = SubSeq(prefix, 1, i),
             word' = SubSeq(prefix, i + 1, Len(prefix) - 1),
             left' \in {"moved", "backspace"}
      PROVE  TypeOK' /\ LengthInv'
  <2>1. /\ i \in Int /\ 1 \in Int /\ i + 1 \in Int /\ Len(prefix) - 1 \in Int
        /\ \A j \in 1..i : prefix[j] \in Characters
    BY <1>3
  <2>2. prefix' \in Seq(Characters) /\ Len(prefix') = i
    BY <1>3, <2>1, SubSeqProperties
  <2>3. word' \in Seq(Letters) /\ Len(word') = Len(prefix) - 1 - i
    BY <1>3, <2>1, SubSeqProperties
  <2>4. Len(prefix) <= MaxLength /\ Len(prefix) >= 1
    <3>1. Len(word) = 0 /\ Len(prefix) # 0
      BY <1>3
    <3> QED
      BY <3>1 DEF LengthInv
  <2>5. LengthInv' /\ Len(prefix') <= MaxLength
    <3>1. Len(prefix') + Len(word') <= MaxLength /\ Len(prefix') <= MaxLength
      BY <2>1, <2>2, <2>3, <2>4
    <3> QED
      BY <3>1 DEF LengthInv
  <2>6. prefix' \in Lines
    BY <2>2, <2>5, LinesAreShort
  <2> QED
    BY <1>1, <1>3, <2>3, <2>5, <2>6 DEF TypeOK, service, NoAnswer
<1>4. CASE word = <<>> /\ prefix # <<>>
  <2>1. left' \in {"moved", "backspace"}
    BY <1>4 DEF Backspace
  <2>2. PICK i \in 0..(Len(prefix) - 1) :
             /\ \A j \in (i + 1)..(Len(prefix) - 1) : prefix[j] \in Letters
             /\ prefix' = SubSeq(prefix, 1, i)
             /\ word' = SubSeq(prefix, i + 1, Len(prefix) - 1)
    BY <1>4 DEF Backspace
  <2> QED
    BY <1>3, <1>4, <2>1, <2>2
<1> QED
  BY <1>2, <1>4 DEF Backspace

LEMMA OthersKeepType ==
  ASSUME TypeOK, LengthInv,
         Serve \/ (\E f \in Files : Move(f)) \/ UNCHANGED vars
  PROVE  TypeOK' /\ LengthInv'
<1>1. Candidates(file, prefix) \subseteq Names
  BY CandidatesAssumption DEF TypeOK
<1>2. ASSUME NEW f \in Files, Move(f) PROVE TypeOK' /\ LengthInv'
  <2>1. /\ file' = f /\ prefix' = <<>> /\ word' = <<>> /\ left' = "moved"
        /\ answer' = NoAnswer /\ UNCHANGED <<pc, service>>
    BY <1>2 DEF Move
  <2>2. prefix' \in Lines /\ word' \in Seq(Letters)
    BY <2>1, EmptyIsLine
  <2> QED
    BY <2>1, <2>2, LengthAssumption DEF TypeOK, LengthInv, service, NoAnswer
<1>3. ASSUME UNCHANGED text, left' \in {"no", "backspace", "moved"},
             pc' \in {"idle", "request"}, cache' \subseteq Names,
             candidates' \subseteq cache',
             answer' = NoAnswer \/ answer' = [given |-> TRUE, names |-> candidates']
               \/ answer' = answer
      PROVE  TypeOK' /\ LengthInv'
  <2>1. file' = file /\ prefix' = prefix /\ word' = word
    BY <1>3 DEF text
  <2>2. answer' \in [given : BOOLEAN, names : SUBSET Names]
    <3>1. NoAnswer \in [given : BOOLEAN, names : SUBSET Names]
      BY DEF NoAnswer
    <3>2. [given |-> TRUE, names |-> candidates'] \in [given : BOOLEAN, names : SUBSET Names]
      BY <1>3
    <3> QED
      BY <1>3, <3>1, <3>2 DEF TypeOK
  <2> QED
    BY <1>3, <2>1, <2>2 DEF TypeOK, LengthInv
<1>4. CASE Drop
  <2>1. /\ candidates' = {} /\ cache' = cache /\ UNCHANGED text /\ left' = left
        /\ pc' = "idle"
        /\ answer' = NoAnswer \/ answer' = [given |-> TRUE, names |-> candidates']
    BY <1>4 DEF Drop, Reply
  <2> QED
    BY <1>3, <2>1 DEF TypeOK
<1>5. CASE CompleteMember \/ CompleteIdentifier \/ Refine
  <2>1. UNCHANGED text /\ left' = left /\ pc' = "idle"
    BY <1>5 DEF CompleteMember, CompleteIdentifier, Refine, Reply, Raise
  <2>2. cache' \in {cache, Candidates(file, prefix)}
    BY <1>5 DEF CompleteMember, CompleteIdentifier, Refine, Raise
  <2>3. candidates' \subseteq cache'
    BY <1>5
       DEF CompleteMember, CompleteIdentifier, Refine, Raise, Filter, TypeOK
  <2>4. answer' = NoAnswer \/ answer' = [given |-> TRUE, names |-> candidates']
    BY <1>5 DEF CompleteMember, CompleteIdentifier, Refine, Reply, Raise
  <2> QED
    BY <1>1, <1>3, <2>1, <2>2, <2>3, <2>4 DEF TypeOK
<1>6. CASE Missed
  <2>1. /\ UNCHANGED text /\ left' = "moved" /\ pc' = "idle"
        /\ cache' = cache /\ candidates' = candidates
        /\ answer' = NoAnswer \/ answer' = [given |-> TRUE, names |-> candidates']
    BY <1>6 DEF Missed, service
  <2> QED
    BY <1>3, <2>1 DEF TypeOK
<1>7. CASE UNCHANGED vars
  BY <1>3, <1>7 DEF vars, service, TypeOK
<1> QED
  BY <1>2, <1>4, <1>5, <1>6, <1>7 DEF Serve

\* The state keeps its types; the list that is shown never has a candidate that is not
\* in the cache it is filtered from, whichever requests fail between two letters.
THEOREM TypeCorrect == Spec => []TypeOK
<1>1. TypeOK /\ LengthInv /\ [Next]_vars => TypeOK' /\ LengthInv'
  BY TypeKeepsType, BackspaceKeepsType, OthersKeepType DEF Next
<1> QED
  BY <1>1, InitType, PTL DEF Spec
===============================================================================
