---------------------------- MODULE CodeCompletion ----------------------------
(***************************************************************************)
(* The candidate list of code_completion.py.  A frontend asks for          *)
(* completion at the cursor after every change of the text; libclang is    *)
(* asked only where a word may begin, and the list is kept and filtered    *)
(* while the word is typed.                                                *)
(*                                                                         *)
(* The text before the cursor is cut into `word`, the identifier that ends *)
(* at the cursor, and `prefix`, what is before it on the line.             *)
(***************************************************************************)
EXTENDS Naturals, Sequences

CONSTANTS
  Files,           \* files that are edited
  Letters,         \* characters of identifiers: is_identifier
  Names,           \* the texts of completion candidates, sequences of letters
  Candidates(_,_), \* Candidates(f, p): what libclang offers in file f after p. The
                   \* other lines of f are left out
  MaxLength        \* bound on the length of a line

\* Characters that are not of identifiers: "." is a member access or scope operator,
\* "/" opens a comment, which goes on to the end of the line; ";" is any other.
Separators == {".", ";", "/"}
Characters == Letters \cup Separators
Lines == UNION {[1..n -> Characters] : n \in 0..MaxLength}

ASSUME LettersAssumption == Letters \cap Separators = {}
ASSUME LengthAssumption == MaxLength \in Nat
ASSUME CandidatesAssumption ==
  \A f \in Files, p \in Lines : Candidates(f, p) \subseteq Names

VARIABLES
  file,       \* the file that is edited
  prefix,     \* the line up to the word under the cursor
  word,       \* that word
  left,       \* since the last separator was typed and looked at, the user has: "no",
              \* "backspace": deleted across the beginning of a word, "moved"
  pc,         \* idle, request: the change has been made, the service is asked
  candidates, \* completion_candidates
  cache,      \* all_candidates_cache
  answer      \* the last answer, if the request had one

text == <<file, prefix, word>>
service == <<candidates, cache>>
vars == <<text, left, pc, service, answer>>

NoAnswer == [given |-> FALSE, names |-> {}]

\* The type invariant: the list never has a candidate that is not in the cache.
TypeOK ==
  /\ file \in Files /\ prefix \in Lines /\ word \in Seq(Letters)
  /\ left \in {"no", "backspace", "moved"}
  /\ pc \in {"idle", "request"}
  /\ cache \subseteq Names /\ candidates \subseteq cache
  /\ answer \in [given : BOOLEAN, names : SUBSET Names]

Init ==
  /\ file \in Files /\ prefix = <<>> /\ word = <<>> /\ left = "no"
  /\ pc = "idle" /\ candidates = {} /\ cache = {} /\ answer = NoAnswer

-----------------------------------------------------------------------------
(* The user *)

\* A letter makes the word longer, a separator ends it.
Type(c) ==
  /\ pc = "idle" /\ Len(prefix) + Len(word) < MaxLength
  /\ IF c \in Letters
       THEN word' = Append(word, c) /\ UNCHANGED <<prefix, left>>
       ELSE prefix' = Append(prefix \o word, c) /\ word' = <<>> /\ left' = "no"
  /\ pc' = "request" /\ answer' = NoAnswer
  /\ UNCHANGED <<file, service>>

\* The last letter of the word is deleted, or, before the word has begun, the
\* separator: the cursor is at the end of an earlier word then, or of none.
Backspace ==
  /\ pc = "idle"
  /\ \/ /\ word # <<>>
        /\ word' = SubSeq(word, 1, Len(word) - 1)
        /\ UNCHANGED <<prefix, left>>
     \/ /\ word = <<>> /\ prefix # <<>>
        /\ \E i \in 0..(Len(prefix) - 1) :
             /\ i > 0 => prefix[i] \in Separators
             /\ \A j \in (i + 1)..(Len(prefix) - 1) : prefix[j] \in Letters
             /\ prefix' = SubSeq(prefix, 1, i)
             /\ word' = SubSeq(prefix, i + 1, Len(prefix) - 1)
        /\ left' = IF left = "moved" THEN "moved" ELSE "backspace"
  /\ <<prefix', word'>> # <<<<>>, <<>>>>
  /\ pc' = "request" /\ answer' = NoAnswer
  /\ UNCHANGED <<file, service>>

\* The cursor is put on a new line, of any file. That changes no text.
Move(f) ==
  /\ pc = "idle"
  /\ file' = f /\ prefix' = <<>> /\ word' = <<>>
  /\ left' = "moved" /\ answer' = NoAnswer
  /\ UNCHANGED <<pc, service>>

-----------------------------------------------------------------------------
(* The service *)

InComment == \E i \in DOMAIN prefix : prefix[i] = "/"
AtMember == word = <<>> /\ prefix # <<>> /\ prefix[Len(prefix)] = "." /\ ~InComment
AtIdentifier == word # <<>> /\ ~InComment

Occurs(pattern, name) ==
  \E i \in 0..Len(name) :
    i + Len(pattern) <= Len(name) /\ SubSeq(name, i + 1, i + Len(pattern)) = pattern

\* __filter_completion_candidates
Filter(names, pattern) == {name \in names : Occurs(pattern, name)}

\* The list is sorted in place and is the answer; two candidates that cannot be
\* compared make sort() raise, and the request has none.
Reply ==
  /\ pc' = "idle"
  /\ \/ answer' = [given |-> TRUE, names |-> candidates']
     \/ /\ \E m, n \in candidates' : m # n
        /\ answer' = NoAnswer

\* parser.code_complete raises: there is no translation unit, or no result.
Raise ==
  /\ pc' = "idle" /\ answer' = NoAnswer
  /\ UNCHANGED cache

\* Mutant of Drop: the list outlives the separator.
DropNothing ==
  /\ pc = "request" /\ ~AtMember /\ ~AtIdentifier
  /\ UNCHANGED <<candidates, cache>>
  /\ Reply
  /\ UNCHANGED <<text, left>>

\* A separator, or a comment: __drop_completion_candidate_list.
Drop ==
  /\ pc = "request" /\ ~AtMember /\ ~AtIdentifier
  /\ candidates' = {} /\ UNCHANGED cache
  /\ Reply
  /\ UNCHANGED <<text, left>>

\* The list is dropped before libclang is asked for a new one.
CompleteMember ==
  /\ pc = "request" /\ AtMember
  /\ \/ candidates' = {} /\ Raise
     \/ /\ cache' = Candidates(file, prefix)
        /\ candidates' = cache'
        /\ Reply
  /\ UNCHANGED <<text, left>>

\* Mutant of CompleteIdentifier: the new candidates are not kept for the letters
\* that follow.
CompleteIdentifierKeepsCache ==
  /\ pc = "request" /\ AtIdentifier /\ candidates = {}
  /\ \/ UNCHANGED candidates /\ Raise
     \/ /\ candidates' = Filter(Candidates(file, prefix), word)
        /\ UNCHANGED cache
        /\ Reply
  /\ UNCHANGED <<text, left>>

\* An identifier, and no list: libclang is asked for one.
CompleteIdentifier ==
  /\ pc = "request" /\ AtIdentifier /\ candidates = {}
  /\ \/ UNCHANGED candidates /\ Raise
     \/ /\ cache' = Candidates(file, prefix)
        /\ candidates' = Filter(cache', word)
        /\ Reply
  /\ UNCHANGED <<text, left>>

\* An identifier, and a list: all that was in it is filtered again.
Refine ==
  /\ pc = "request" /\ AtIdentifier /\ candidates # {}
  /\ candidates' = Filter(cache, word)
  /\ UNCHANGED cache
  /\ Reply
  /\ UNCHANGED <<text, left>>

\* The line cannot be read, or ends before the cursor by now: nothing is looked at, and
\* in the second case the list is the answer as it is.
Missed ==
  /\ pc = "request"
  /\ pc' = "idle" /\ left' = "moved"
  /\ answer' \in {NoAnswer, [given |-> TRUE, names |-> candidates]}
  /\ UNCHANGED <<text, service>>

Serve ==
  Drop \/ CompleteMember \/ CompleteIdentifier \/ Refine \/ Missed

Next ==
  \/ Serve
  \/ \E c \in Characters : Type(c)
  \/ Backspace
  \/ \E f \in Files : Move(f)

Spec == Init /\ [][Next]_vars

-----------------------------------------------------------------------------
\* What a completion without a memory offers.
Fresh ==
  IF AtMember THEN Candidates(file, prefix)
  ELSE IF AtIdentifier THEN Filter(Candidates(file, prefix), word)
  ELSE {}

\* While a word is typed, with deletions inside it and requests that fail, the kept
\* list gives what libclang would be asked for again.
WordAnsweredFresh == answer.given /\ left = "no" => answer.names = Fresh

\* "to support backspace correctly": so it does when deletions go back to the word
\* before.
BackspaceAnsweredFresh == answer.given /\ left # "moved" => answer.names = Fresh
=============================================================================
