--------------------------- MODULE MCCodeCompletion ---------------------------
(***************************************************************************)
(* An instance of CodeCompletion.tla for TLC: names over two letters, some *)
(* of which are offered as members, some elsewhere, and one depends on the *)
(* file.                                                                   *)
(***************************************************************************)
EXTENDS CodeCompletion

CONSTANTS f1, f2

MCLetters == {"a", "b"}
MCNames == {<<"a">>, <<"a", "b">>, <<"b", "a">>, <<"b", "b">>}

\* Members are offered right after the operator.
MCCandidates(f, p) ==
  (IF p # <<>> /\ p[Len(p)] = "." THEN {<<"a", "b">>, <<"b", "b">>}
                                  ELSE {<<"a">>, <<"b", "a">>})
  \cup (IF f = f1 THEN {} ELSE {<<"b", "b">>})
=============================================================================
