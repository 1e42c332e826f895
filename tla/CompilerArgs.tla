------------------------------ MODULE CompilerArgs ------------------------------
(***************************************************************************)
(* The compiler arguments a parser gives to libclang (compiler_args.py,    *)
(* and parse of clang_parser.py): those of a file's entry in the database, *)
(* rewritten, or, for a file without an entry, those of another file.      *)
(* Which other depends on what was asked for before; and a unit that stays *)
(* in the cache is parsed again with the arguments it was first parsed     *)
(* with.                                                                   *)
(*                                                                         *)
(* An argument is a string that is compared, never taken apart: a set of   *)
(* constants says which arguments are of which form.                       *)
(***************************************************************************)
EXTENDS Naturals, Sequences, FiniteSets, SequencesExt

CONSTANTS
  Unit,     \* translation units
  Header,   \* headers, which are in no database
  Options,  \* Options[u]: the options of u's command, each the list of its words
  Object,   \* Object[u]: the object file of u's command
  Bazel,    \* the units whose command Bazel writes, the others being CMake's
  SystemIncludes \* get_system_includes(): none where there is neither g++ nor clang++

File == Unit \cup Header

Languages == {"c++", "c++-header"}      \* -x <language>, or a word left over
GluedLanguages == {"-xc++"}
Unsupported == {"-Wformat-truncation"}
DirOptions == {"-I", "-isystem"}        \* followed by a directory
Joined == [d \in {"include", "bazel"} |->
             IF d = "include" THEN "/work/include" ELSE "/work/bazel"]
Parent == "-I/parent"                   \* the directory of the file asked for
IncludeForms == {"-I", "-I/usr/include", "-Ibazel", "-I/work/bazel", Parent}

\* One path stands for all that the compilers search.
ASSUME IncludesAssumption == SystemIncludes \in Seq({"-I/usr/include"})

default_compiler_args == <<"-x", "c++">> \o SystemIncludes

\* The words that are no names, and those of them an option may consist of alone.
Keywords == {"", "cc", "-c", "-o", "--", "-x"} \cup Languages \cup DirOptions
OneWordForms == GluedLanguages \cup Unsupported \cup {"-Ibazel", "-I/usr/include"}
Special == Keywords \cup OneWordForms \cup IncludeForms \cup DOMAIN Joined
             \cup {"/work/include", "/work/bazel", "/work", "-working-directory",
                   "-working-directory=/work", "-DF"}

\* Files are called like no other argument.
ASSUME NamesAssumption ==
  /\ File \subseteq STRING /\ File \cap Special = {}
  /\ Object \in [Unit -> STRING] /\ \A u \in Unit : Object[u] \notin Special

\* A language, a directory, or one word, of the forms above or of none.
IsOption(option) ==
  \/ option \in {<<"-x", language>> : language \in Languages}
  \/ option \in {<<d, directory>> : d \in DirOptions, directory \in DOMAIN Joined}
  \/ /\ Len(option) = 1
     /\ option[1] \notin Keywords \cup {Parent} \cup File

ASSUME OptionsAssumption ==
  \A u \in Unit : /\ Options[u] \in Seq(Seq(STRING))
                  /\ \A i \in DOMAIN Options[u] : IsOption(Options[u][i])

\* The command of an entry begins with the compiler and ends with its files, the object
\* first or the source first.
Command(u) ==
  <<"cc">> \o FlattenSeq(Options[u]) \o
    (IF u \in Bazel THEN <<"-c", u, "-o", Object[u]>> ELSE <<"-o", Object[u], "-c", u>>)

\* The words of the arguments; the directory of the file asked for is not kept.
Word ==
  ((Special \cup File) \ {Parent})
    \cup {Object[u] : u \in Unit}
    \cup UNION {{option[i] : i \in DOMAIN option} : option \in UNION {Range(Options[u]) : u \in Unit}}

NoArgs == <<>>
NoAnswer == [file |-> "", args |-> NoArgs, edited |-> FALSE]

VARIABLES
  kind,     \* the database the parser has: "none", "json", "flags" or "broken"
  entries,  \* the units that have an entry in the JSON database
  infers,   \* whether libclang makes up commands for the others
  cached,   \* cached_compiler_args
  unit,     \* unit[f]: build flags of the cached unit of f, or NoArgs
  answer    \* the last parse: the file, its arguments, and whether for edited contents

argsVars == <<kind, entries, infers, cached, unit, answer>>

ArgsTypeOK ==
  /\ kind \in {"none", "json", "flags", "broken"}
  /\ entries \subseteq Unit /\ infers \in BOOLEAN
  /\ cached \in Seq(Word) /\ unit \in [File -> Seq(Word)]
  /\ answer \in {NoAnswer} \cup
       [file : File, args : Seq(Word \cup {Parent}), edited : BOOLEAN]

ArgsInit ==
  /\ kind = "none" /\ entries = {} /\ infers = FALSE
  /\ cached = NoArgs
  /\ unit = [f \in File |-> NoArgs]
  /\ answer = NoAnswer

-----------------------------------------------------------------------------
(* JSONCompilationDatabase.get *)

\* The arguments that are not in words.
Without(words, args) ==
  FlattenSeq([i \in DOMAIN args |-> IF args[i] \in words THEN <<>> ELSE <<args[i]>>])

\* An option and the argument after it are taken out, once.
Eat(option, args) ==
  LET i == SelectInSeq(args, LAMBDA a : a = option)
  IN  IF i = 0 THEN args ELSE SubSeq(args, 1, i - 1) \o SubSeq(args, i + 2, Len(args))

\* The language is given by the default arguments.
eat_conflicting_language_args(args) ==
  LET Next(i) == IF i < Len(args) THEN args[i + 1] ELSE ""
      Kept(i) == /\ args[i] \notin Languages \cup GluedLanguages
                 /\ ~(args[i] = "-x" /\ Next(i) \in Languages)
  IN  FlattenSeq([i \in DOMAIN args |-> IF Kept(i) THEN <<args[i]>> ELSE <<>>])

\* Directories are made absolute; an unsupported flag becomes an empty argument.
AbsolutePaths(args) ==
  [i \in DOMAIN args |->
     IF i > 1 /\ args[i - 1] \in DirOptions THEN Joined[args[i]]
     ELSE IF args[i] = "-Ibazel" THEN "-I/work/bazel"
     ELSE IF args[i] \in Unsupported THEN "" ELSE args[i]]

\* The command of an entry, rewritten; file is the one the entry names. An argument
\* that is the base name of that file, or a path to it, goes as well: all of them are the
\* one name the command has for its file.
extract_compiler_args(command, file) ==
  LET args == command \o <<"-working-directory", "/work">>
      eaten == Tail(Eat("--", Eat("-o", Eat("-c", args))))
  IN  Without({file}, default_compiler_args \o
                        AbsolutePaths(eat_conflicting_language_args(eaten)))

\* What libclang makes up for f from the entry of u: the command without its files,
\* the language if it is another one, and f after "--".
Inferred(f, u) ==
  Without({u}, Eat("-o", Command(u)))
    \o (IF f \in Header THEN <<"-x", "c++-header">> ELSE <<>>) \o <<"--", f>>

\* getCompileCommands, as the set of answers libclang may give; none: no entry.
CompileCommands(f) ==
  IF f \in entries THEN {Command(f)}
  ELSE IF infers THEN {Inferred(f, u) : u \in entries} ELSE {}

\* Mutant of get: the arguments of the file before are as good.
GetCached(f, args) ==
  IF cached # NoArgs THEN args = cached
  ELSE IF CompileCommands(f) # {}
    THEN \E command \in CompileCommands(f) : args = extract_compiler_args(command, f)
  ELSE IF entries # {}
    THEN \E u \in entries : args = extract_compiler_args(Command(u), u)
  ELSE args = default_compiler_args

\* The arguments of f: of its entry, real or made up; else those that were last
\* extracted; else those of the first entry; else the default. A parser asks for the
\* first entry once at most, for it remembers what it is given, and a database may have
\* any of its entries first.
get(f, args) ==
  IF CompileCommands(f) # {}
    THEN \E command \in CompileCommands(f) : args = extract_compiler_args(command, f)
  ELSE IF cached # NoArgs THEN args = cached
  ELSE IF entries # {}
    THEN \E u \in entries : args = extract_compiler_args(Command(u), u)
  ELSE args = default_compiler_args

\* The arguments that get may return.
Candidates(f) ==
  {cached, default_compiler_args}
    \cup {extract_compiler_args(command, f) : command \in CompileCommands(f)}
    \cup {extract_compiler_args(Command(u), u) : u \in entries}

\* What it remembers: every extracted list, not the default.
Cached(f, args) ==
  IF CompileCommands(f) = {} /\ entries = {} THEN cached ELSE args

-----------------------------------------------------------------------------
(* The other database, and the form for edited files *)

\* The lines of compile_flags.txt, as they are.
FlagsArgs == <<"-working-directory=/work">> \o default_compiler_args \o <<"-DF">>

\* The directory of the file goes after the last -I.
transform_to_edited_file_form(args) ==
  LET last == SelectLastInSeq(args, LAMBDA a : a \in IncludeForms)
  IN  InsertAt(args, last + 1, Parent)

-----------------------------------------------------------------------------
\* The database is loaded: any entries, by a libclang that infers the others or not.
Open(k) ==
  /\ kind' = k
  /\ entries' \in IF k = "json" THEN SUBSET Unit ELSE {{}}
  /\ infers' \in IF k = "json" THEN BOOLEAN ELSE {FALSE}
  /\ UNCHANGED <<cached, unit, answer>>

\* parse of a file that is not cached: the arguments are not those of an edited file,
\* whatever the contents are. When the parse fails there is no unit to keep. A
\* database that could not be loaded raises.
Miss(f) ==
  /\ kind \in {"json", "flags"} /\ unit[f] = NoArgs
  /\ \E args \in IF kind = "json" THEN Candidates(f) ELSE {FlagsArgs} :
       /\ kind = "json" => get(f, args)
       /\ cached' = IF kind = "json" THEN Cached(f, args) ELSE cached
       /\ \/ /\ unit' = [unit EXCEPT ![f] = args]
             /\ answer' = [file |-> f, args |-> args, edited |-> FALSE]
          \/ UNCHANGED <<unit, answer>>
  /\ UNCHANGED <<kind, entries, infers>>

\* Mutant of Reparse: the transformed arguments are kept with the unit.
ReparseKeeps(f) ==
  /\ unit[f] # NoArgs
  /\ LET args == transform_to_edited_file_form(unit[f])
     IN  /\ unit' = [unit EXCEPT ![f] = args]
         /\ answer' = [file |-> f, args |-> args, edited |-> TRUE]
  /\ UNCHANGED <<kind, entries, infers, cached>>

\* parse of a cached unit that is out of date.
Reparse(f) ==
  /\ unit[f] # NoArgs
  /\ answer' = [file |-> f, args |-> transform_to_edited_file_form(unit[f]),
                edited |-> TRUE]
  /\ UNCHANGED <<kind, entries, infers, cached, unit>>

\* The unit makes room for another.
Evict(f) ==
  /\ unit[f] # NoArgs
  /\ unit' = [unit EXCEPT ![f] = NoArgs]
  /\ UNCHANGED <<kind, entries, infers, cached, answer>>

ArgsStep == \E f \in File : Miss(f) \/ Reparse(f) \/ Evict(f)

-----------------------------------------------------------------------------
\* What an option of a command means to libclang, word for word; nothing, if it is
\* about the language or not supported.
Meaning(option) ==
  IF option[1] \in {"-x"} \cup GluedLanguages \cup Unsupported THEN <<>>
  ELSE IF option[1] \in DirOptions THEN <<option[1], Joined[option[2]]>>
  ELSE IF option = <<"-Ibazel">> THEN <<"-I/work/bazel">>
  ELSE option

Meant(u) ==
  default_compiler_args
    \o FlattenSeq([i \in DOMAIN Options[u] |-> Meaning(Options[u][i])])
    \o <<"-working-directory", "/work">>

\* A file with an entry is parsed with the flags of that entry, a file without one
\* with those of some entry, never with less while there is one; whatever was asked
\* for before, was evicted or parsed again in between, and whether libclang makes up
\* commands or not. (The additional include path is left to IncludesParent.)
FlagsMeant ==
  answer # NoAnswer /\ kind = "json" =>
    LET got == Without({"", Parent}, answer.args)
    IN  IF answer.file \in entries THEN got = Meant(answer.file)
        ELSE IF entries # {} THEN \E u \in entries : got = Meant(u)
        ELSE got = default_compiler_args

\* "For edited files, we need to append additional include path": a unit that is
\* parsed again gets it once, however often that happens, right behind the last of the
\* others, or in front of everything where there is none; a unit that is parsed for the
\* first time does not get it. (A last -I in a word by
\* itself takes what follows it for its directory, be it this one.)
IncludesParent ==
  LET At(i) == answer.args[i] = Parent
      Positions == {i \in DOMAIN answer.args : At(i)}
  IN  IF answer.edited
        THEN \E i \in Positions :
               /\ Positions = {i}
               /\ \A j \in DOMAIN answer.args : answer.args[j] \in IncludeForms => j <= i
               /\ i = 1 \/ answer.args[i - 1] \in IncludeForms
        ELSE Positions = {}
=============================================================================
