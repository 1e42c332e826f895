------------------------------- MODULE MCProject -------------------------------
(* Two commands, in the forms CMake and Bazel write them, and a header. *)
EXTENDS Project

MCUnit == {"a.cpp", "b.cpp"}
MCHeader == {"h.hpp"}
MCOptions ==
  [u \in MCUnit |->
     IF u = "a.cpp"
       THEN << <<"-xc++">>, <<"-isystem", "include">>, <<"-DA">>, <<"-Ibazel">> >>
     ELSE << <<"-x", "c++">>, <<"-I", "include">>, <<"-Wformat-truncation">> >>]
MCObject == [u \in MCUnit |-> IF u = "a.cpp" THEN "a.o" ELSE "b.o"]
MCBazel == {"b.cpp"}

\* There is no compiler to ask: a command may then be without any include path.
MCSystemIncludes == <<>>
=============================================================================
