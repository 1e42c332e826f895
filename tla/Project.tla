-------------------------------- MODULE Project --------------------------------
(***************************************************************************)
(* A server's way to the compiler arguments of a file: Configuration finds *)
(* and loads the database, and CompilerArgs is the parser of the service   *)
(* source_code_model, which reads it once, when that service is            *)
(* constructed, and is asked for arguments when the server serves.         *)
(***************************************************************************)
EXTENDS Configuration, CompilerArgs

projectVars == <<vars, argsVars>>

ProjectInit == Init /\ ArgsInit

\* Mutant of LoadDatabase: the name of the file says what there is to load.
LoadDatabaseByName ==
  /\ Load
  /\ IF Service = "source_code_model" /\ pc' # "raised"
       THEN Open(found["source_code_model"].kind)
       ELSE UNCHANGED argsVars

\* The constructor of source_code_model makes the parser with the path it found.
\* A JSON database that has gone leaves a parser without one.
LoadDatabase ==
  /\ Load
  /\ LET path == found["source_code_model"]
     IN  IF Service = "source_code_model" /\ pc' # "raised"
           THEN Open(IF loaded'["source_code_model"].version = 0 THEN "broken"
                     ELSE path.kind)
           ELSE UNCHANGED argsVars

\* Requests are served when the server is constructed, and starting another service
\* again, or a change on the disk, does not reach the parser.
Parse == pc = "serve" /\ ArgsStep /\ UNCHANGED vars

ConfigurationStep ==
  \/ Construct \/ StartCodeCompletion
  \/ \E d \in Dir, k \in Kind : Change(d, k)

ProjectNext ==
  \/ LoadDatabase
  \/ Parse
  \/ ConfigurationStep /\ UNCHANGED argsVars

ProjectSpec == ProjectInit /\ [][ProjectNext]_projectVars

-----------------------------------------------------------------------------
\* The type invariants of both, and that the parser has the database its service
\* loaded.
ProjectTypeOK ==
  /\ TypeOK /\ ArgsTypeOK
  /\ kind = (IF loaded["source_code_model"] = NoDatabase THEN "none"
             ELSE IF loaded["source_code_model"].version = 0 THEN "broken"
             ELSE loaded["source_code_model"].path.kind)
=============================================================================
