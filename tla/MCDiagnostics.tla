---------------------------- MODULE MCDiagnostics ----------------------------
(* Two translation units and a header they include; one note explains diagnostics *)
(* of two files.                                                                  *)
EXTENDS Diagnostics

MCDiag == {"a1", "a2", "b1", "h1"}
MCFileOf == [d \in MCDiag |->
  IF d \in {"a1", "a2"} THEN "a.cpp" ELSE IF d = "b1" THEN "b.cpp" ELSE "h.hpp"]
MCNotes == [d \in MCDiag |->
  IF d = "a1" THEN {"n1"} ELSE IF d = "a2" THEN {} ELSE {"n2"}]
=============================================================================
