----------------------------- MODULE IndexerProofs -----------------------------
(***************************************************************************)
(* Theorems about IndexerScheduler.tla, for every number of workers and    *)
(* files and any number of deaths: its types, that the event loop is left  *)
(* only when no worker has work in hand, that the merge reads databases    *)
(* nobody writes, that no file is handed out twice, that a death costs one *)
(* file at most, and that the pool implements DirectoryIndexing.tla.       *)
(***************************************************************************)
EXTENDS IndexerScheduler, SequenceTheorems, FiniteSetTheorems, TLAPS

(***************************************************************************)
(* The types are inductive together with the fact that a worker parses a   *)
(* file, never the placeholder 0.                                          *)
(***************************************************************************)
FileInHand == \A w \in Worker : state[w] = "parsing" => file[w] \in File

TypeInv == TypeOK /\ FileInHand

LEMMA InitType == Init => TypeInv
<1> SUFFICES ASSUME Init PROVE TypeInv
  OBVIOUS
<1>1. <<>> \in Seq(File)
  OBVIOUS
<1>2. stdin \in [Worker -> Seq(File)] /\ db \in [Worker -> SUBSET File]
  BY <1>1 DEF Init
<1>3. QED
  BY <1>2, WorkersAssumption, FilesAssumption, CountsAssumption
  DEF Init, TypeOK, TypeInv, FileInHand

\* A worker's step, or its death, keeps the types.
LEMMA WorkerType ==
  ASSUME TypeInv, NEW w \in Worker, WorkerStep(w) \/ Die(w)
  PROVE  TypeInv'
<1> USE DEF TypeInv, TypeOK, FileInHand, masterVars, pipeVars
<1>1. CASE Read(w)
  <2>1. Head(stdin[w]) \in File /\ Tail(stdin[w]) \in Seq(File)
    BY <1>1, HeadTailProperties DEF Read
  <2>2. QED
    BY <1>1, <2>1 DEF Read
<1>2. CASE Index(w)
  <2>1. file[w] \in File
    BY <1>2 DEF Index
  <2>2. unparsed' \subseteq File
    BY <1>2, <2>1 DEF Index
  <2>3. db' \in [Worker -> SUBSET File]
    <3>1. db[w] \cup {file[w]} \in SUBSET File
      BY <2>1
    <3>2. db' = db \/ db' = [db EXCEPT ![w] = db[w] \cup {file[w]}]
      BY <1>2 DEF Index
    <3>3. QED
      BY <3>1, <3>2
  <2>4. QED
    BY <1>2, <2>2, <2>3 DEF Index
<1>3. CASE Report(w)
  BY <1>3 DEF Report
<1>4. CASE Quit(w)
  BY <1>4 DEF Quit
<1>5. CASE Die(w)
  <2>1. <<>> \in Seq(File)
    OBVIOUS
  <2>2. QED
    BY <1>5, <2>1 DEF Die
<1>6. QED
  BY <1>1, <1>2, <1>3, <1>4, <1>5 DEF WorkerStep

\* What sending a file does to the types, given that there is one to send.
LEMMA SendNextType ==
  ASSUME TypeOK, Pending, NEW w \in Worker, NEW tracked \in SUBSET Worker,
         SendNext(w, tracked)
  PROVE  /\ next_file \in File /\ next_file' = next_file + 1
         /\ next_file' \in 1..(found + 1)
         /\ active' \subseteq active /\ worker_state' \subseteq Worker
         /\ stdin' \in [Worker -> Seq(File)]
<1>1. next_file \in File /\ next_file' = next_file + 1
      /\ next_file' \in 1..(found + 1)
  BY FilesAssumption DEF SendNext, Pending, TypeOK, File
<1>2. Append(stdin[w], next_file) \in Seq(File)
  BY <1>1, AppendProperties DEF TypeOK
<1>3. QED
  BY <1>1, <1>2 DEF SendNext, TypeOK

LEMMA MasterType == ASSUME TypeInv, MasterStep PROVE TypeInv'
<1> USE DEF TypeInv, TypeOK
<1>1. ASSUME NEW w \in Worker, Fill(w) PROVE TypeInv'
  <2>1. SendNext(w, worker_state) /\ Pending
    BY <1>1 DEF Fill
  <2>2. idle' \subseteq Worker
    BY <1>1 DEF Fill
  <2>3. QED
    BY <1>1, <2>1, <2>2, SendNextType DEF Fill, FileInHand, workerVars
<1>2. ASSUME NEW w \in Worker, Done(w) PROVE TypeInv'
  <2>1. stdout' \in [Worker -> Nat]
    BY <1>2 DEF Done
  <2>2. pc' \in {"loop", "ready"} /\ ready' \subseteq Worker
    BY <1>2 DEF Done, Served
  <2>3. CASE Pending /\ SendNext(w, worker_state \ {w}) /\ UNCHANGED stdin_open
    BY <1>2, <2>1, <2>2, <2>3, SendNextType DEF Done, FileInHand, workerVars
  <2>4. CASE UNCHANGED <<next_file, stdin>>
    BY <1>2, <2>1, <2>2, <2>4 DEF Done, SendNext, FileInHand, workerVars
  <2>5. QED
    BY <1>2, <2>3, <2>4 DEF Done
<1>3. ASSUME NEW w \in Worker, Disconnected(w) PROVE TypeInv'
  BY <1>3 DEF Disconnected, Served, FileInHand, workerVars, pipeVars
<1>4. ASSUME NEW w \in Worker, CloseStdin(w) PROVE TypeInv'
  BY <1>4 DEF CloseStdin, FileInHand, workerVars, masterVars
<1>5. ASSUME NEW w \in Worker, Wait(w) PROVE TypeInv'
  <2>1. w \in 0..NumWorkers
    BY WorkersAssumption DEF Worker
  <2>2. QED
    BY <1>5, <2>1 DEF Wait, FileInHand, workerVars, pipeVars
<1>6. CASE Filled \/ Select \/ LeaveLoop
  BY <1>6 DEF Filled, Select, LeaveLoop, FileInHand, workerVars, pipeVars
<1>7. CASE Merge
  BY <1>7 DEF Merge, FileInHand, workerVars, pipeVars
<1>8. QED
  BY <1>1, <1>2, <1>3, <1>4, <1>5, <1>6, <1>7 DEF MasterStep

LEMMA NextType == TypeInv /\ [Next]_vars => TypeInv'
<1> SUFFICES ASSUME TypeInv, [Next]_vars PROVE TypeInv'
  OBVIOUS
<1>1. CASE UNCHANGED vars
  BY <1>1 DEF vars, masterVars, workerVars, pipeVars, TypeInv, TypeOK, FileInHand
<1>2. QED
  BY <1>1, MasterType, WorkerType DEF Next, Finished

LEMMA TypeInvariant == Spec => []TypeInv
BY InitType, NextType, PTL DEF Spec

\* Every variable of master, workers and pipes keeps to its type.
THEOREM TypeCorrect == Spec => []TypeOK
BY TypeInvariant, PTL DEF TypeInv

-----------------------------------------------------------------------------
(***************************************************************************)
(* The loop is left when no worker has work in hand.  The loop's condition *)
(* looks at active_workers and worker_state, not at the workers: what      *)
(* makes it right is that every busy worker is in both (Tracked), which    *)
(* holds because a worker has at most one file or answer under way         *)
(* (OneOutstanding) and a worker without an answer is removed only after   *)
(* it has ended (ReadyReadable).                                           *)
(***************************************************************************)
Busy(w) == stdin[w] # <<>> \/ state[w] \in {"parsing", "reporting"}

OneOutstanding ==
  \A w \in Worker :
    /\ stdin[w] # <<>> => state[w] = "idle" /\ stdout[w] = 0 /\ Len(stdin[w]) = 1
    /\ state[w] \in {"parsing", "reporting"} => stdout[w] = 0
    /\ stdout[w] \in {0, 1}

Tracked ==
  pc \in {"fill", "loop", "ready"} =>
    \A w \in Worker : Busy(w) => w \in worker_state /\ w \in active

\* During the fill, the workers not served yet have nothing to do.
FreshIdle ==
  pc = "fill" =>
    \A w \in idle : ~Busy(w) /\ stdout[w] = 0 /\ w \in active

ReadyReadable ==
  /\ pc # "ready" => ready = {}
  /\ \A w \in ready : w \in active /\ Readable(w)

\* What the master has waited for has ended.
ReapedEnded ==
  /\ \A w \in 1..reaped : state[w] = "ended"
  /\ pc \in {"merge", "done"} => reaped = NumWorkers

QuietInv ==
  /\ OneOutstanding /\ Tracked /\ FreshIdle /\ ReadyReadable /\ ReapedEnded
  /\ LeftWhenQuiet

LEMMA InitQuiet == Init => QuietInv
BY WorkersAssumption
DEF Init, QuietInv, OneOutstanding, Tracked, FreshIdle, ReadyReadable,
    ReapedEnded, LeftWhenQuiet, Busy, Worker

\* A worker's own steps leave the master's bookkeeping true.
LEMMA WorkerQuiet ==
  ASSUME TypeInv, QuietInv, NEW w \in Worker, WorkerStep(w) \/ Die(w)
  PROVE  QuietInv'
<1> USE DEF TypeInv, TypeOK, QuietInv
<1>1. UNCHANGED masterVars
  BY DEF WorkerStep, Read, Index, Report, Quit, Die
<1>2. \A v \in Worker \ {w} : UNCHANGED <<stdin[v], stdout[v], state[v]>>
  BY DEF WorkerStep, Read, Index, Report, Quit, Die, pipeVars
<1>3. \/ Busy(w)
      \/ stdin'[w] = <<>> /\ stdout'[w] = stdout[w] /\ state'[w] = "ended"
  BY DEF WorkerStep, Read, Index, Report, Quit, Die, pipeVars, Busy
<1>4. state[w] # "ended" /\ (stdout[w] > 0 => stdout'[w] > 0)
  BY DEF WorkerStep, Read, Index, Report, Quit, Die, pipeVars
<1>5. /\ stdin'[w] # <<>> =>
           state'[w] = "idle" /\ stdout'[w] = 0 /\ Len(stdin'[w]) = 1
      /\ state'[w] \in {"parsing", "reporting"} => stdout'[w] = 0
      /\ stdout'[w] \in {0, 1}
  <2>1. CASE Read(w)
    <3>1. stdin[w] \in Seq(File) /\ stdin[w] # <<>> /\ Len(stdin[w]) = 1
          /\ stdout[w] = 0
      BY <2>1 DEF Read, OneOutstanding
    <3>2. Tail(stdin[w]) \in Seq(File) /\ Len(Tail(stdin[w])) = 0
      BY <3>1, HeadTailProperties
    <3>3. Tail(stdin[w]) = <<>>
      BY <3>2, EmptySeq
    <3>4. QED
      BY <2>1, <3>1, <3>3 DEF Read
  <2>2. CASE Index(w)
    BY <2>2 DEF Index, OneOutstanding, pipeVars
  <2>3. CASE Report(w)
    BY <2>3 DEF Report, OneOutstanding
  <2>4. CASE Quit(w)
    BY <2>4 DEF Quit, OneOutstanding, pipeVars
  <2>5. CASE Die(w)
    BY <2>5 DEF Die, OneOutstanding
  <2>6. QED
    BY <2>1, <2>2, <2>3, <2>4, <2>5 DEF WorkerStep
<1>6. OneOutstanding'
  BY <1>2, <1>5 DEF OneOutstanding
<1>7. Tracked'
  BY <1>1, <1>2, <1>3 DEF Tracked, Busy, masterVars
<1>8. FreshIdle'
  BY <1>1, <1>2, <1>3 DEF FreshIdle, Busy, masterVars
<1>9. ReadyReadable'
  <2>1. \A v \in Worker : Readable(v) => Readable(v)'
    BY <1>2, <1>4 DEF Readable
  <2>2. QED
    BY <1>1, <2>1 DEF ReadyReadable, masterVars
<1>10. ReapedEnded'
  <2>1. \A v \in Worker : state[v] = "ended" => state'[v] = "ended"
    BY <1>2, <1>4
  <2>2. \A v \in 1..reaped : v \in Worker
    BY WorkersAssumption DEF Worker
  <2>3. UNCHANGED <<pc, reaped>>
    BY <1>1 DEF masterVars
  <2>4. QED
    BY <2>1, <2>2, <2>3 DEF ReapedEnded
<1>11. LeftWhenQuiet'
  BY <1>1, <1>2, <1>3 DEF LeftWhenQuiet, masterVars, Busy
<1>12. QED
  BY <1>6, <1>7, <1>8, <1>9, <1>10, <1>11

\* Sending a file to w, which has nothing to do, keeps the pipes in order.
LEMMA SendNextQuiet ==
  ASSUME TypeInv, QuietInv, Pending, NEW w \in Worker,
         NEW tracked \in SUBSET Worker, SendNext(w, tracked),
         ~Busy(w), stdout'[w] = 0, w \in active,
         \A v \in Worker \ {w} : stdout'[v] = stdout[v]
                                 /\ (v \in worker_state => v \in tracked),
         pc \in {"fill", "loop", "ready"}, UNCHANGED workerVars
  PROVE  /\ OneOutstanding'
         /\ \A v \in Worker : Busy(v)' => v \in worker_state' /\ v \in active'
<1> USE DEF TypeInv, TypeOK, QuietInv
<1>1. \A v \in Worker \ {w} : UNCHANGED <<stdin[v], state[v]>>
  BY DEF SendNext, workerVars
<1>2. \A v \in Worker \ {w} :
        (Busy(v)' <=> Busy(v)) /\ (v \in active' <=> v \in active)
        /\ (v \in tracked => v \in worker_state')
  BY <1>1 DEF Busy, SendNext
<1>3. stdin[w] = <<>> /\ state'[w] = state[w]
      /\ state[w] \in {"idle", "ended"}
  BY DEF Busy, workerVars
<1>4. OneOutstanding' /\ (Busy(w)' => w \in worker_state' /\ w \in active')
  <2>1. \A v \in Worker \ {w} :
          /\ stdin'[v] # <<>> =>
               state'[v] = "idle" /\ stdout'[v] = 0 /\ Len(stdin'[v]) = 1
          /\ state'[v] \in {"parsing", "reporting"} => stdout'[v] = 0
          /\ stdout'[v] \in {0, 1}
    BY <1>1 DEF OneOutstanding
  <2>2. CASE state[w] = "ended"
    <3>1. stdin' = stdin
      BY <2>2 DEF SendNext
    <3>2. QED
      BY <1>3, <2>1, <2>2, <3>1 DEF OneOutstanding, Busy
  <2>3. CASE state[w] = "idle"
    <3>1. stdin'[w] = Append(stdin[w], next_file)
          /\ w \in worker_state' /\ active' = active
      BY <2>3 DEF SendNext
    <3>2. next_file \in File /\ stdin[w] \in Seq(File)
      BY SendNextType
    <3>3. Len(stdin'[w]) = 1
      BY <1>3, <3>1, <3>2, AppendProperties, EmptySeq
    <3>4. QED
      BY <1>3, <2>1, <2>3, <3>1, <3>3 DEF OneOutstanding
  <2>4. QED
    BY <1>3, <2>2, <2>3
<1>5. QED
  BY <1>2, <1>4 DEF Tracked

LEMMA MasterQuiet == ASSUME TypeInv, QuietInv, MasterStep PROVE QuietInv'
<1> USE DEF TypeInv, TypeOK, QuietInv
<1>1. ASSUME NEW w \in Worker, Fill(w) PROVE QuietInv'
  <2>1. /\ SendNext(w, worker_state) /\ Pending /\ pc = "fill" /\ pc' = "fill"
        /\ ~Busy(w) /\ stdout[w] = 0 /\ w \in active /\ idle' = idle \ {w}
        /\ UNCHANGED <<ready, reaped, stdout>> /\ UNCHANGED workerVars
    BY <1>1 DEF Fill, IsLeast, FreshIdle
  <2>2. /\ OneOutstanding'
        /\ \A v \in Worker : Busy(v)' => v \in worker_state' /\ v \in active'
    BY <2>1, SendNextQuiet
  <2>3. FreshIdle'
    BY <2>1 DEF FreshIdle, SendNext, Busy, workerVars
  <2>4. ReadyReadable' /\ ReapedEnded' /\ LeftWhenQuiet'
    BY <2>1 DEF ReadyReadable, ReapedEnded, LeftWhenQuiet, workerVars
  <2>5. QED
    BY <2>2, <2>3, <2>4 DEF Tracked
<1>2. ASSUME NEW w \in Worker, Done(w) PROVE QuietInv'
  <2>1. /\ w \in ready /\ w \in active /\ stdout[w] = 1 /\ stdout'[w] = 0
        /\ \A v \in Worker \ {w} : stdout'[v] = stdout[v]
        /\ ~Busy(w) /\ pc = "ready" /\ pc' \in {"loop", "ready"}
        /\ ready' = ready \ {w} /\ (pc' # "ready" => ready' = {})
        /\ reaped' = reaped /\ UNCHANGED workerVars
    BY <1>2 DEF Done, Served, IsLeast, ReadyReadable, OneOutstanding, Busy
  <2>2. /\ OneOutstanding'
        /\ \A v \in Worker : Busy(v)' => v \in worker_state' /\ v \in active'
        /\ \A v \in Worker \ {w} : v \in active => v \in active'
    <3>1. CASE Pending
      <4>1. SendNext(w, worker_state \ {w})
        BY <1>2, <3>1 DEF Done
      <4>2. worker_state \ {w} \in SUBSET Worker
        OBVIOUS
      <4>3. \A v \in Worker \ {w} : v \in active => v \in active'
        BY <4>1 DEF SendNext
      <4>4. QED
        BY <2>1, <3>1, <4>1, <4>2, <4>3, SendNextQuiet
    <3>2. CASE ~Pending
      <4>1. /\ active' = active \ {w} /\ worker_state' = worker_state \ {w}
            /\ stdin' = stdin
        BY <1>2, <3>2 DEF Done
      <4>2. QED
        BY <2>1, <4>1 DEF OneOutstanding, Tracked, Busy, workerVars
    <3>3. QED
      BY <3>1, <3>2
  <2>3. ReadyReadable'
    BY <2>1, <2>2 DEF ReadyReadable, Readable, workerVars
  <2>4. FreshIdle' /\ ReapedEnded' /\ LeftWhenQuiet'
    BY <2>1 DEF FreshIdle, ReapedEnded, LeftWhenQuiet, workerVars
  <2>5. QED
    BY <2>2, <2>3, <2>4 DEF Tracked
<1>3. ASSUME NEW w \in Worker, Disconnected(w) PROVE QuietInv'
  <2>1. /\ state[w] = "ended" /\ stdin[w] = <<>>
        /\ pc = "ready" /\ pc' \in {"loop", "ready"}
        /\ ready' = ready \ {w} /\ (pc' # "ready" => ready' = {})
        /\ active' = active \ {w} /\ worker_state' = worker_state \ {w}
        /\ reaped' = reaped /\ UNCHANGED <<workerVars, pipeVars>>
    BY <1>3
    DEF Disconnected, Served, IsLeast, ReadyReadable, Readable, OneOutstanding
  <2>2. OneOutstanding' /\ FreshIdle' /\ ReapedEnded' /\ LeftWhenQuiet'
    BY <2>1 DEF OneOutstanding, FreshIdle, ReapedEnded, LeftWhenQuiet,
       workerVars, pipeVars
  <2>3. Tracked'
    BY <2>1 DEF Tracked, Busy, workerVars, pipeVars
  <2>4. ReadyReadable'
    BY <2>1 DEF ReadyReadable, Readable, workerVars, pipeVars
  <2>5. QED
    BY <2>2, <2>3, <2>4
<1>4. ASSUME NEW w \in Worker, CloseStdin(w) PROVE QuietInv'
  BY <1>4 DEF CloseStdin, OneOutstanding, Tracked, FreshIdle, ReadyReadable,
     Readable, ReapedEnded, LeftWhenQuiet, Busy, workerVars, masterVars
<1>5. ASSUME NEW w \in Worker, Wait(w) PROVE QuietInv'
  <2>1. OneOutstanding' /\ Tracked' /\ FreshIdle' /\ ReadyReadable'
        /\ LeftWhenQuiet'
    BY <1>5 DEF Wait, OneOutstanding, Tracked, FreshIdle, ReadyReadable,
       Readable, LeftWhenQuiet, Busy, workerVars, pipeVars
  <2>2. \A v \in 1..w : v = w \/ v \in 1..reaped
    BY <1>5 DEF Wait, Worker
  <2>3. ReapedEnded'
    BY <1>5, <2>2 DEF Wait, ReapedEnded, workerVars
  <2>4. QED
    BY <2>1, <2>3
<1>6. CASE Filled \/ Select
  BY <1>6 DEF Filled, Select, OneOutstanding, Tracked, FreshIdle, ReadyReadable,
     Readable, ReapedEnded, LeftWhenQuiet, Busy, workerVars, pipeVars
<1>7. CASE LeaveLoop
  <2>1. \A w \in Worker : ~Busy(w)
    BY <1>7 DEF LeaveLoop, Continue, Tracked
  <2>2. LeftWhenQuiet'
    BY <1>7, <2>1 DEF LeaveLoop, LeftWhenQuiet, Busy, workerVars, pipeVars
  <2>3. QED
    BY <1>7, <2>2 DEF LeaveLoop, OneOutstanding, Tracked, FreshIdle,
       ReadyReadable, Readable, ReapedEnded, Busy, workerVars, pipeVars
<1>8. CASE Merge
  BY <1>8 DEF Merge, OneOutstanding, Tracked, FreshIdle, ReadyReadable,
     Readable, ReapedEnded, LeftWhenQuiet, Busy, workerVars, pipeVars
<1>9. QED
  BY <1>1, <1>2, <1>3, <1>4, <1>5, <1>6, <1>7, <1>8 DEF MasterStep

LEMMA NextQuiet == TypeInv /\ QuietInv /\ [Next]_vars => QuietInv'
<1> SUFFICES ASSUME TypeInv, QuietInv, [Next]_vars PROVE QuietInv'
  OBVIOUS
<1>1. CASE UNCHANGED vars
  BY <1>1 DEF vars, masterVars, workerVars, pipeVars, QuietInv, OneOutstanding,
     Tracked, FreshIdle, ReadyReadable, Readable, ReapedEnded, LeftWhenQuiet, Busy
<1>2. QED
  BY <1>1, MasterQuiet, WorkerQuiet DEF Next, Finished

LEMMA QuietInvariant == Spec => []QuietInv
BY InitQuiet, NextQuiet, TypeInvariant, PTL DEF Spec

\* The event loop is left only when no worker has a file or an unread name in
\* hand, for any number of workers, files and deaths.
THEOREM LoopLeftWhenQuiet == Spec => []LeftWhenQuiet
BY QuietInvariant, PTL DEF QuietInv

\* The merge reads databases of processes that have ended.
THEOREM MergeAfterExit == Spec => []MergedAfterExit
<1>1. QuietInv => MergedAfterExit
  BY DEF QuietInv, ReapedEnded, MergedAfterExit, Worker
<1>2. QED
  BY <1>1, QuietInvariant, PTL

-----------------------------------------------------------------------------
(***************************************************************************)
(* No file is handed out twice. A step leaves every worker with no more    *)
(* than it had, or adds the next file, which nobody has, to one worker.    *)
(***************************************************************************)
LEMMA WorkerClaims ==
  ASSUME TypeInv, NEW w \in Worker, WorkerStep(w) \/ Die(w), NEW v \in Worker
  PROVE  Claimed(v)' \subseteq Claimed(v)
<1> USE DEF TypeInv, TypeOK
<1>1. CASE Read(w)
  <2>1. /\ stdin[w] \in Seq(File) /\ stdin[w] # <<>>
        /\ Head(stdin[w]) = stdin[w][1] /\ 1 \in DOMAIN stdin[w]
    BY <1>1, EmptySeq DEF Read
  <2>2. \A i \in DOMAIN Tail(stdin[w]) :
          i + 1 \in DOMAIN stdin[w] /\ Tail(stdin[w])[i] = stdin[w][i + 1]
    BY <2>1, HeadTailProperties
  <2>3. QED
    BY <1>1, <2>1, <2>2 DEF Read, Claimed
<1>2. CASE Index(w)
  <2>1. file[w] \in File /\ file[w] # 0
    BY <1>2, FilesAssumption DEF Index, FileInHand, File
  <2>2. /\ UNCHANGED <<stdin, file>>
        /\ db'[v] = db[v] \/ (v = w /\ db'[v] = db[v] \cup {file[v]})
    BY <1>2 DEF Index, pipeVars
  <2>3. QED
    BY <2>1, <2>2 DEF Claimed
<1>3. CASE Report(w)
  BY <1>3 DEF Report, Claimed
<1>4. CASE Quit(w)
  BY <1>4 DEF Quit, Claimed, pipeVars
<1>5. CASE Die(w)
  BY <1>5 DEF Die, Claimed
<1>6. QED
  BY <1>1, <1>2, <1>3, <1>4, <1>5 DEF WorkerStep

LEMMA SendNextClaims ==
  ASSUME TypeInv, Pending, NEW w \in Worker, NEW tracked \in SUBSET Worker,
         SendNext(w, tracked), UNCHANGED workerVars
  PROVE  /\ Claimed(w)' \subseteq Claimed(w) \cup {next_file}
         /\ \A v \in Worker \ {w} : Claimed(v)' \subseteq Claimed(v)
<1> USE DEF TypeInv, TypeOK
<1>1. \A v \in Worker \ {w} : Claimed(v)' \subseteq Claimed(v)
  BY DEF SendNext, Claimed, workerVars
<1>2. CASE stdin' = stdin
  BY <1>1, <1>2 DEF Claimed, workerVars
<1>3. CASE stdin'[w] = Append(stdin[w], next_file)
  <2>1. next_file \in File /\ stdin[w] \in Seq(File)
    BY SendNextType
  <2>2. \A i \in DOMAIN stdin'[w] :
          \/ i \in DOMAIN stdin[w] /\ stdin'[w][i] = stdin[w][i]
          \/ stdin'[w][i] = next_file
    BY <1>3, <2>1, AppendProperties
  <2>3. QED
    BY <1>1, <2>2 DEF Claimed, workerVars
<1>4. QED
  BY <1>2, <1>3 DEF SendNext

LEMMA NextClaims == TypeInv /\ HandedOutOnce /\ [Next]_vars => HandedOutOnce'
<1> SUFFICES ASSUME TypeInv, HandedOutOnce, [Next]_vars PROVE HandedOutOnce'
  OBVIOUS
<1> USE DEF TypeInv, TypeOK
<1>1. ASSUME \A v \in Worker : Claimed(v)' \subseteq Claimed(v),
             next_file' = next_file
      PROVE  HandedOutOnce'
  BY <1>1 DEF HandedOutOnce
<1>2. ASSUME UNCHANGED <<stdin, file, db>>, next_file' = next_file
      PROVE  HandedOutOnce'
  BY <1>1, <1>2 DEF Claimed
<1>3. ASSUME NEW w \in Worker, Pending, NEW tracked \in SUBSET Worker,
             SendNext(w, tracked), UNCHANGED workerVars
      PROVE  HandedOutOnce'
  <2>1. next_file' = next_file + 1 /\ next_file \in Nat
    BY <1>3, SendNextType DEF File
  <2>2. \A f : f < next_file => f # next_file
    BY <2>1
  <2>3. ASSUME NEW v \in Worker, NEW f \in Claimed(v)' PROVE f < next_file'
    <3>1. f \in Claimed(v) \/ f = next_file
      BY <1>3, <2>3, SendNextClaims
    <3>2. Claimed(v) \subseteq Nat
      <4>1. \A i \in DOMAIN stdin[v] : stdin[v][i] \in File
        BY ElementOfSeq, LenProperties
      <4>2. file[v] \in File \cup {0} /\ db[v] \subseteq File
        OBVIOUS
      <4>3. QED
        BY <4>1, <4>2 DEF Claimed, File
    <3>3. QED
      BY <2>1, <3>1, <3>2 DEF HandedOutOnce
  <2>4. ASSUME NEW u \in Worker, NEW v \in Worker \ {u}, NEW f,
               f \in Claimed(u)', f \in Claimed(v)'
        PROVE  FALSE
    <3>1. \A x \in Worker :
            f \in Claimed(x)' => f \in Claimed(x) \/ (x = w /\ f = next_file)
      BY <1>3, SendNextClaims
    <3>2. next_file \notin Claimed(u) /\ next_file \notin Claimed(v)
      BY <2>1 DEF HandedOutOnce
    <3>3. QED
      BY <2>4, <3>1, <3>2 DEF HandedOutOnce
  <2>5. QED
    BY <2>3, <2>4 DEF HandedOutOnce
<1>4. ASSUME NEW w \in Worker, WorkerStep(w) \/ Die(w) PROVE HandedOutOnce'
  <2>1. next_file' = next_file
    BY <1>4 DEF WorkerStep, Read, Index, Report, Quit, Die, masterVars
  <2>2. QED
    BY <1>1, <1>4, <2>1, WorkerClaims
<1>5. ASSUME NEW w \in Worker, Fill(w) PROVE HandedOutOnce'
  BY <1>3, <1>5 DEF Fill
<1>6. ASSUME NEW w \in Worker, Done(w) PROVE HandedOutOnce'
  <2>1. worker_state \ {w} \in SUBSET Worker /\ UNCHANGED workerVars
    BY <1>6 DEF Done
  <2>2. CASE Pending
    BY <1>3, <1>6, <2>1, <2>2 DEF Done
  <2>3. CASE ~Pending
    BY <1>2, <1>6, <2>1, <2>3 DEF Done, workerVars
  <2>4. QED
    BY <2>2, <2>3
<1>7. ASSUME NEW w \in Worker, Disconnected(w) \/ CloseStdin(w) \/ Wait(w)
      PROVE  HandedOutOnce'
  BY <1>2, <1>7
  DEF Disconnected, CloseStdin, Wait, masterVars, workerVars, pipeVars
<1>8. CASE Filled \/ Select \/ LeaveLoop \/ Merge
  BY <1>2, <1>8
  DEF Filled, Select, LeaveLoop, Merge, workerVars, pipeVars
<1>9. CASE UNCHANGED vars
  BY <1>2, <1>9 DEF vars, masterVars, workerVars, pipeVars
<1>10. QED
  BY <1>4, <1>5, <1>6, <1>7, <1>8, <1>9 DEF Next, Finished, MasterStep

\* A file goes to one worker, once, whichever workers die and however their
\* answers interleave: no two databases hold the same file when they are merged.
THEOREM FilesHandedOutOnce == Spec => []HandedOutOnce
<1>1. Init => HandedOutOnce
  BY DEF Init, HandedOutOnce, Claimed
<1>2. QED
  BY <1>1, NextClaims, TypeInvariant, PTL DEF Spec

-----------------------------------------------------------------------------
(***************************************************************************)
(* A death costs one file at most.  What is counted is the files that are  *)
(* nowhere any more, and the deaths that have not cost a file yet and may: *)
(* a worker that died with its answer given is sent a file all the same.   *)
(* The pending files are handed out unless all workers have died, for an   *)
(* active worker keeps the loop going while there are any.                 *)
(***************************************************************************)
Serving == pc \in {"fill", "loop", "ready"}

\* Files that were taken off the list and are nowhere any more.
Lost ==
  {f \in 1..found : /\ f < next_file /\ f \notin unparsed
                    /\ \A w \in Worker : f \notin Claimed(w)}

\* Workers that died with nothing in hand, which the master has yet to try.
Doomed ==
  {w \in active : /\ Serving /\ state[w] = "ended"
                  /\ stdout[w] > 0 \/ (pc = "fill" /\ w \in idle)}

Ended == {w \in Worker : state[w] = "ended"}

LossBounded == Cardinality(Lost) + Cardinality(Doomed) <= deaths

\* A file that is reported is recorded, and a worker without work has no file.
Recorded ==
  \A w \in Worker :
    /\ state[w] = "reporting" => file[w] \in db[w] \cup unparsed
    /\ state[w] \in {"idle", "ended"} => file[w] = 0

\* While files are pending workers end only by dying, and as long as one is left
\* the loop goes on.
PendingMeansDeaths ==
  /\ Serving => \A w \in Worker : ~stdin_open[w] => w \notin active /\ ~Pending
  /\ Serving /\ Pending =>
       /\ \A w \in Worker \ active : state[w] = "ended"
       /\ Cardinality(Ended) <= deaths
  /\ ~Serving /\ Pending => NumWorkers <= deaths

MergedAll == pc = "done" => merged = UNION {db[w] : w \in Worker}

LossInv == LossBounded /\ Recorded /\ PendingMeansDeaths /\ MergedAll

LEMMA NotMore ==
  ASSUME NEW S, NEW T, IsFiniteSet(S), T \subseteq S
  PROVE  IsFiniteSet(T) /\ Cardinality(T) <= Cardinality(S)
BY FS_Subset

LEMMA OneMore ==
  ASSUME NEW S, NEW T, NEW x, IsFiniteSet(S), T \subseteq S \cup {x}
  PROVE  /\ Cardinality(T) <= Cardinality(S) + 1
         /\ IsFiniteSet(T) /\ Cardinality(T) \in Nat
<1>1. /\ IsFiniteSet(S \cup {x})
      /\ Cardinality(S \cup {x}) \in {Cardinality(S), Cardinality(S) + 1}
  BY FS_AddElement
<1>2. Cardinality(T) <= Cardinality(S \cup {x}) /\ IsFiniteSet(T)
  BY <1>1, NotMore
<1>3. Cardinality(S) \in Nat /\ Cardinality(T) \in Nat
  BY <1>2, FS_CardinalityType
<1>4. QED
  BY <1>1, <1>2, <1>3

LEMMA OneLess ==
  ASSUME NEW S, NEW T, NEW x \in S, IsFiniteSet(S), T \subseteq S \ {x}
  PROVE  Cardinality(T) + 1 <= Cardinality(S)
<1>1. IsFiniteSet(S \ {x}) /\ Cardinality(S \ {x}) = Cardinality(S) - 1
  BY FS_RemoveElement
<1>2. Cardinality(T) <= Cardinality(S \ {x}) /\ IsFiniteSet(T)
  BY <1>1, NotMore
<1>3. Cardinality(S) \in Nat /\ Cardinality(T) \in Nat
  BY <1>2, FS_CardinalityType
<1>4. QED
  BY <1>1, <1>2, <1>3

LEMMA WorkersFinite ==
  /\ IsFiniteSet(Worker) /\ Cardinality(Worker) = NumWorkers
  /\ \A S : S \subseteq Worker => IsFiniteSet(S) /\ Cardinality(S) \in Nat
<1>1. IsFiniteSet(Worker) /\ Cardinality(Worker) = NumWorkers
  BY WorkersAssumption, FS_Interval DEF Worker
<1>2. QED
  BY <1>1, NotMore, FS_CardinalityType

LEMMA FilesFinite ==
  \A S : S \subseteq File => IsFiniteSet(S) /\ Cardinality(S) \in Nat
<1>1. IsFiniteSet(File)
  BY FilesAssumption, FS_Interval DEF File
<1>2. QED
  BY <1>1, NotMore, FS_CardinalityType

LEMMA CountsAreFinite ==
  ASSUME TypeInv
  PROVE  /\ IsFiniteSet(Lost) /\ Cardinality(Lost) \in Nat
         /\ IsFiniteSet(Doomed) /\ Cardinality(Doomed) \in Nat
         /\ IsFiniteSet(Ended) /\ Cardinality(Ended) \in Nat
<1>1. Lost \subseteq File /\ Doomed \subseteq Worker /\ Ended \subseteq Worker
  BY FilesAssumption DEF Lost, Doomed, Ended, TypeInv, TypeOK, File
<1>2. QED
  BY <1>1, WorkersFinite, FilesFinite

LEMMA InitLoss == Init => LossInv
<1> SUFFICES ASSUME Init PROVE LossInv
  OBVIOUS
<1>1. Lost = {} /\ Doomed = {} /\ Ended = {} /\ deaths = 0
  BY CountsAssumption, FilesAssumption DEF Init, Lost, Doomed, Ended
<1>2. QED
  BY <1>1, FS_EmptySet
  DEF Init, LossInv, LossBounded, Recorded, PendingMeansDeaths, MergedAll, Serving

\* A step that loses nothing, after which no more workers are doomed.
LEMMA BoundKept ==
  ASSUME TypeInv, LossInv, Lost' \subseteq Lost, Doomed' \subseteq Doomed,
         deaths' = deaths
  PROVE  LossBounded'
<1>1. /\ Cardinality(Lost') <= Cardinality(Lost) /\ IsFiniteSet(Lost')
      /\ Cardinality(Doomed') <= Cardinality(Doomed) /\ IsFiniteSet(Doomed')
  BY CountsAreFinite, NotMore
<1>2. Cardinality(Lost') \in Nat /\ Cardinality(Doomed') \in Nat
  BY <1>1, FS_CardinalityType
<1>3. QED
  BY <1>1, <1>2, CountsAreFinite DEF LossInv, LossBounded, TypeInv, TypeOK

\* What a worker has stays where it is, or is recorded; but a worker that dies
\* leaves the one file it was given, if it was given one.
LEMMA WorkerLoses ==
  ASSUME TypeInv, QuietInv, LossInv, NEW w \in Worker,
         WorkerStep(w) \/ Die(w)
  PROVE  LossInv'
<1> USE DEF TypeInv, TypeOK, QuietInv, LossInv
<1>1. UNCHANGED masterVars /\ UNCHANGED stdin_open
  BY DEF WorkerStep, Read, Index, Report, Quit, Die, pipeVars
<1>2. \A v \in Worker \ {w} :
        UNCHANGED <<stdin[v], stdout[v], state[v], file[v], db[v]>>
  BY DEF WorkerStep, Read, Index, Report, Quit, Die, pipeVars
<1>3. unparsed \subseteq unparsed' /\ state[w] # "ended"
      /\ stdout[w] <= stdout'[w]
  BY DEF WorkerStep, Read, Index, Report, Quit, Die, pipeVars
<1>4. \A v \in Worker \ {w} : Claimed(v)' = Claimed(v)
  BY <1>2 DEF Claimed
<1>5. Serving' = Serving /\ Pending' = Pending
  BY <1>1 DEF Serving, Pending, masterVars
<1>6. MergedAll'
  BY <1>1, <1>3 DEF MergedAll, masterVars, ReapedEnded, Worker
<1>7. Recorded'
  <2>1. \A v \in Worker \ {w} :
          /\ state'[v] = "reporting" => file'[v] \in db'[v] \cup unparsed'
          /\ state'[v] \in {"idle", "ended"} => file'[v] = 0
    BY <1>2, <1>3 DEF Recorded
  <2>2. /\ state'[w] = "reporting" => file'[w] \in db'[w] \cup unparsed'
        /\ state'[w] \in {"idle", "ended"} => file'[w] = 0
    <3>1. CASE Read(w) \/ Index(w)
      BY <3>1 DEF Read, Index
    <3>2. CASE Report(w) \/ Die(w)
      BY <3>2 DEF Report, Die
    <3>3. CASE Quit(w)
      BY <3>3 DEF Quit, Recorded
    <3>4. QED
      BY <3>1, <3>2, <3>3 DEF WorkerStep
  <2>3. QED
    BY <2>1, <2>2 DEF Recorded
<1>8. CASE Die(w)
  <2>1. /\ deaths' = deaths + 1 /\ stdin'[w] = <<>> /\ file'[w] = 0
        /\ UNCHANGED <<db, unparsed, stdout>>
    BY <1>8 DEF Die
  <2>2. db[w] \subseteq Claimed(w)'
    BY <2>1 DEF Claimed
  <2>3. Ended' \subseteq Ended \cup {w}
    BY <1>2 DEF Ended
  <2>4. PendingMeansDeaths'
    <3>1. Cardinality(Ended') <= Cardinality(Ended) + 1 /\ Cardinality(Ended') \in Nat
      BY <2>3, CountsAreFinite, OneMore
    <3>2. Serving /\ Pending => Cardinality(Ended') <= deaths'
      BY <2>1, <3>1, CountsAreFinite DEF PendingMeansDeaths
    <3>3. ~Serving /\ Pending => NumWorkers <= deaths'
      BY <2>1, WorkersAssumption DEF PendingMeansDeaths
    <3>4. Serving /\ Pending => \A v \in Worker \ active' : state'[v] = "ended"
      BY <1>1, <1>2, <1>3 DEF PendingMeansDeaths, masterVars
    <3>5. QED
      BY <1>1, <1>5, <3>2, <3>3, <3>4 DEF PendingMeansDeaths, masterVars
  <2>5. LossBounded'
    <3>1. CASE Busy(w)
      <4>1. PICK x : Claimed(w) \subseteq db[w] \cup {x, 0}
        <5>1. CASE stdin[w] # <<>>
          <6>1. stdin[w] \in Seq(File) /\ Len(stdin[w]) = 1 /\ file[w] = 0
            BY <5>1 DEF OneOutstanding, Recorded
          <6>2. DOMAIN stdin[w] = {1}
            BY <6>1
          <6>3. Claimed(w) \subseteq db[w] \cup {stdin[w][1], 0}
            BY <6>1, <6>2 DEF Claimed
          <6>4. QED
            BY <6>3
        <5>2. CASE stdin[w] = <<>>
          <6>1. Claimed(w) \subseteq db[w] \cup {file[w], 0}
            BY <5>2 DEF Claimed
          <6>2. QED
            BY <6>1
        <5>3. QED
          BY <5>1, <5>2
      <4>2. Lost' \subseteq Lost \cup {x}
        BY <1>1, <1>4, <2>1, <2>2, <4>1 DEF Lost, masterVars
      <4>3. Doomed' \subseteq Doomed
        <5>1. w \notin Doomed'
          BY <1>1, <2>1, <3>1 DEF Doomed, OneOutstanding, FreshIdle, Busy, masterVars
        <5>2. \A v \in Worker \ {w} : v \in Doomed' => v \in Doomed
          BY <1>1, <1>2, <1>5 DEF Doomed, masterVars
        <5>3. Doomed' \subseteq Worker
          BY <1>1 DEF Doomed, masterVars
        <5>4. QED
          BY <5>1, <5>2, <5>3
      <4>4. /\ Cardinality(Lost') <= Cardinality(Lost) + 1
            /\ Cardinality(Doomed') <= Cardinality(Doomed)
            /\ Cardinality(Lost') \in Nat /\ Cardinality(Doomed') \in Nat
        <5>1. IsFiniteSet(Doomed') /\ Cardinality(Doomed') <= Cardinality(Doomed)
          BY <4>3, CountsAreFinite, NotMore
        <5>2. QED
          BY <4>2, <5>1, CountsAreFinite, OneMore, FS_CardinalityType
      <4>5. QED
        BY <2>1, <4>4, CountsAreFinite DEF LossBounded
    <3>2. CASE ~Busy(w)
      <4>1. Claimed(w) \subseteq Claimed(w)'
        <5>1. stdin[w] = <<>> /\ file[w] = 0
          BY <1>3, <3>2 DEF Busy, Recorded
        <5>2. Claimed(w) \subseteq db[w]
          BY <5>1 DEF Claimed
        <5>3. QED
          BY <2>2, <5>2
      <4>2. Lost' \subseteq Lost
        BY <1>1, <1>4, <2>1, <4>1 DEF Lost, masterVars
      <4>3. Doomed' \subseteq Doomed \cup {w}
        <5>1. \A v \in Worker \ {w} : v \in Doomed' => v \in Doomed
          BY <1>1, <1>2, <1>5 DEF Doomed, masterVars
        <5>2. Doomed' \subseteq Worker
          BY <1>1 DEF Doomed, masterVars
        <5>3. QED
          BY <5>1, <5>2
      <4>4. /\ Cardinality(Lost') <= Cardinality(Lost)
            /\ Cardinality(Doomed') <= Cardinality(Doomed) + 1
            /\ Cardinality(Lost') \in Nat /\ Cardinality(Doomed') \in Nat
        <5>1. IsFiniteSet(Lost') /\ Cardinality(Lost') <= Cardinality(Lost)
          BY <4>2, CountsAreFinite, NotMore
        <5>2. QED
          BY <4>3, <5>1, CountsAreFinite, OneMore, FS_CardinalityType
      <4>5. QED
        BY <2>1, <4>4, CountsAreFinite DEF LossBounded
    <3>3. QED
      BY <3>1, <3>2
  <2>6. QED
    BY <1>6, <1>7, <2>4, <2>5
<1>9. CASE WorkerStep(w)
  <2>1. deaths' = deaths
    BY <1>9 DEF WorkerStep, Read, Index, Report, Quit
  <2>2. Claimed(w) \subseteq Claimed(w)' \cup unparsed'
    <3>1. CASE Read(w)
      <4>1. stdin[w] \in Seq(File) /\ stdin[w] # <<>> /\ file[w] = 0
        BY <3>1 DEF Read, Recorded
      <4>2. Len(stdin[w]) = 1 /\ Head(stdin[w]) = stdin[w][1]
        BY <4>1 DEF OneOutstanding
      <4>3. DOMAIN stdin[w] = {1} /\ stdin[w][1] \in File
        BY <4>1, <4>2
      <4>4. file'[w] = stdin[w][1] /\ db' = db /\ file'[w] # 0
        BY <3>1, <4>2, <4>3, FilesAssumption DEF Read, File
      <4>5. QED
        BY <4>1, <4>3, <4>4 DEF Claimed
    <3>2. CASE Index(w)
      BY <3>2 DEF Index, Claimed, pipeVars
    <3>3. CASE Report(w)
      BY <3>3 DEF Report, Claimed, Recorded
    <3>4. CASE Quit(w)
      BY <3>4 DEF Quit, Claimed, pipeVars
    <3>5. QED
      BY <1>9, <3>1, <3>2, <3>3, <3>4 DEF WorkerStep
  <2>3. Lost' \subseteq Lost
    BY <1>1, <1>3, <1>4, <2>2 DEF Lost, masterVars
  <2>4. state'[w] = "ended" => ~stdin_open[w]
    BY <1>9 DEF WorkerStep, Read, Index, Report, Quit
  <2>5. Doomed' \subseteq Doomed
    <3>1. w \notin Doomed'
      BY <1>1, <1>5, <2>4 DEF Doomed, PendingMeansDeaths, masterVars
    <3>2. \A v \in Worker \ {w} : v \in Doomed' => v \in Doomed
      BY <1>1, <1>2, <1>5 DEF Doomed, masterVars
    <3>3. Doomed' \subseteq Worker
      BY <1>1 DEF Doomed, masterVars
    <3>4. QED
      BY <3>1, <3>2, <3>3
  <2>6. LossBounded'
    BY <2>1, <2>3, <2>5, BoundKept
  <2>7. PendingMeansDeaths'
    <3>1. Serving /\ Pending => Ended' \subseteq Ended
      BY <1>2, <2>4 DEF Ended, PendingMeansDeaths
    <3>2. Serving /\ Pending => Cardinality(Ended') <= deaths'
      <4> SUFFICES ASSUME Serving, Pending PROVE Cardinality(Ended') <= deaths'
        OBVIOUS
      <4>1. /\ Cardinality(Ended') <= Cardinality(Ended)
            /\ IsFiniteSet(Ended')
        BY <3>1, CountsAreFinite, NotMore
      <4>2. Cardinality(Ended') \in Nat /\ Cardinality(Ended) <= deaths
        BY <4>1, FS_CardinalityType DEF PendingMeansDeaths
      <4>3. QED
        BY <2>1, <4>1, <4>2, CountsAreFinite
    <3>3. Serving /\ Pending => \A v \in Worker \ active' : state'[v] = "ended"
      BY <1>1, <1>2, <1>3 DEF PendingMeansDeaths, masterVars
    <3>4. QED
      BY <1>1, <1>5, <2>1, <3>2, <3>3 DEF PendingMeansDeaths, masterVars
  <2>8. QED
    BY <1>6, <1>7, <2>6, <2>7
<1>10. QED
  BY <1>8, <1>9

\* The next file is the worker's, or is lost with a worker that had died.
LEMMA SendNextLoses ==
  ASSUME TypeInv, Pending, NEW w \in Worker, NEW tracked \in SUBSET Worker,
         SendNext(w, tracked), UNCHANGED workerVars, found' = found
  PROVE  \/ state[w] # "ended" /\ Lost' \subseteq Lost /\ active' = active
         \/ /\ state[w] = "ended" /\ active' = active \ {w}
            /\ Lost' \subseteq Lost \cup {next_file}
<1> USE DEF TypeInv, TypeOK
<1>1. next_file' = next_file + 1 /\ next_file \in Nat
  BY SendNextType DEF File
<1>2. \A f \in 1..found : f < next_file' => f < next_file \/ f = next_file
  BY <1>1
<1>3. CASE state[w] = "ended"
  <2>1. active' = active \ {w} /\ stdin' = stdin
    BY <1>3 DEF SendNext
  <2>2. \A v \in Worker : Claimed(v)' = Claimed(v)
    BY <2>1 DEF Claimed, workerVars
  <2>3. Lost' \subseteq Lost \cup {next_file}
    BY <1>2, <2>2 DEF Lost, workerVars
  <2>4. QED
    BY <1>3, <2>1, <2>3
<1>4. CASE state[w] # "ended"
  <2>1. active' = active
        /\ stdin' = [stdin EXCEPT ![w] = Append(stdin[w], next_file)]
    BY <1>4 DEF SendNext
  <2>2. next_file \in File /\ stdin[w] \in Seq(File)
    BY SendNextType
  <2>3. /\ \A i \in DOMAIN stdin[w] :
             i \in DOMAIN stdin'[w] /\ stdin'[w][i] = stdin[w][i]
        /\ \E i \in DOMAIN stdin'[w] : stdin'[w][i] = next_file
    <3>1. /\ stdin'[w] = Append(stdin[w], next_file)
          /\ Len(stdin'[w]) = Len(stdin[w]) + 1 /\ stdin'[w] \in Seq(File)
          /\ \A i \in 1..Len(stdin[w]) : stdin'[w][i] = stdin[w][i]
          /\ stdin'[w][Len(stdin[w]) + 1] = next_file
      BY <2>1, <2>2, AppendProperties
    <3>2. DOMAIN stdin[w] = 1..Len(stdin[w]) /\ Len(stdin[w]) \in Nat
          /\ DOMAIN stdin'[w] = 1..(Len(stdin[w]) + 1)
      BY <2>2, <3>1
    <3>3. QED
      BY <3>1, <3>2
  <2>4. next_file \in Claimed(w)' /\ Claimed(w) \subseteq Claimed(w)'
    BY <2>3 DEF Claimed, workerVars
  <2>5. \A v \in Worker \ {w} : Claimed(v)' = Claimed(v)
    BY <2>1 DEF Claimed, workerVars
  <2>6. Lost' \subseteq Lost
    BY <1>2, <2>4, <2>5 DEF Lost, workerVars
  <2>7. QED
    BY <1>4, <2>1, <2>6
<1>5. QED
  BY <1>3, <1>4

\* A file that is sent is lost only with a worker that is doomed, and then is not.
LEMMA SendingLoses ==
  ASSUME TypeInv, LossInv, Pending, NEW w \in Worker,
         NEW tracked \in SUBSET Worker, SendNext(w, tracked), w \in active,
         UNCHANGED <<workerVars, found, stdin_open, merged>>,
         Serving, pc' \in {"fill", "loop", "ready"},
         pc' = "fill" => pc = "fill", idle' \subseteq idle,
         state[w] = "ended" => w \in Doomed,
         \A v \in Worker : stdout'[v] > 0 => stdout[v] > 0
  PROVE  LossInv'
<1> USE DEF TypeInv, TypeOK, LossInv
<1>1. Ended' = Ended /\ Serving' /\ deaths' = deaths /\ pc' # "done"
  BY DEF Ended, Serving, workerVars
<1>2. active' \subseteq active
  BY SendNextType DEF SendNext
<1>3. Doomed' \subseteq Doomed
  BY <1>1, <1>2 DEF Doomed, workerVars
<1>4. CASE state[w] # "ended"
  <2>1. Lost' \subseteq Lost /\ active' = active
    BY <1>4, SendNextLoses
  <2>2. LossBounded'
    BY <1>1, <1>3, <2>1, BoundKept
  <2>3. PendingMeansDeaths'
    BY <1>1, <2>1 DEF PendingMeansDeaths, workerVars
  <2>4. QED
    BY <1>1, <2>2, <2>3 DEF Recorded, MergedAll, workerVars
<1>5. CASE state[w] = "ended"
  <2>1. Lost' \subseteq Lost \cup {next_file} /\ active' = active \ {w}
    BY <1>5, SendNextLoses
  <2>2. w \in Doomed /\ Doomed' \subseteq Doomed \ {w}
    BY <1>3, <1>5, <2>1 DEF Doomed
  <2>3. /\ Cardinality(Lost') <= Cardinality(Lost) + 1
        /\ Cardinality(Doomed') + 1 <= Cardinality(Doomed)
        /\ Cardinality(Lost') \in Nat /\ Cardinality(Doomed') \in Nat
    <3>1. IsFiniteSet(Doomed') /\ Cardinality(Doomed') \in Nat
      BY <1>3, CountsAreFinite, NotMore, FS_CardinalityType
    <3>2. QED
      BY <2>1, <2>2, <3>1, CountsAreFinite, OneMore, OneLess
  <2>4. LossBounded'
    BY <1>1, <2>3, CountsAreFinite DEF LossBounded
  <2>5. PendingMeansDeaths'
    BY <1>1, <1>5, <2>1 DEF PendingMeansDeaths, workerVars
  <2>6. QED
    BY <1>1, <2>4, <2>5 DEF Recorded, MergedAll, workerVars
<1>6. QED
  BY <1>4, <1>5

\* A step that sends no file loses none.
LEMMA OthersLose ==
  ASSUME TypeInv, LossInv, UNCHANGED <<found, next_file, workerVars, stdin>>,
         Doomed' \subseteq Doomed
  PROVE  /\ LossBounded' /\ Recorded'
         /\ Ended' = Ended /\ Pending' = Pending /\ deaths' = deaths
<1>1. \A v \in Worker : Claimed(v)' = Claimed(v)
  BY DEF Claimed, workerVars
<1>2. Lost' = Lost /\ deaths' = deaths
  BY <1>1 DEF Lost, workerVars
<1>3. LossBounded'
  BY <1>2, BoundKept
<1>4. QED
  BY <1>2, <1>3 DEF LossInv, Recorded, Ended, Pending, workerVars

LEMMA MasterLoses == ASSUME TypeInv, QuietInv, LossInv, MasterStep PROVE LossInv'
<1> USE DEF TypeInv, TypeOK, QuietInv, LossInv
<1>1. ASSUME NEW w \in Worker, Fill(w) PROVE LossInv'
  <2>1. /\ pc = "fill" /\ pc' = "fill" /\ w \in idle /\ idle' = idle \ {w}
        /\ Pending /\ SendNext(w, worker_state)
        /\ UNCHANGED <<workerVars, found, stdin_open, merged, stdout>>
    BY <1>1 DEF Fill, IsLeast
  <2>2. w \in active /\ Serving /\ (state[w] = "ended" => w \in Doomed)
    BY <2>1 DEF FreshIdle, Serving, Doomed
  <2>3. \A v \in Worker : stdout'[v] > 0 => stdout[v] > 0
    BY <2>1
  <2>4. QED
    BY <2>1, <2>2, <2>3, SendingLoses
<1>2. ASSUME NEW w \in Worker, Done(w) PROVE LossInv'
  <2>1. /\ pc = "ready" /\ pc' \in {"loop", "ready"} /\ w \in active
        /\ stdout[w] > 0 /\ \A v \in Worker : stdout'[v] > 0 => stdout[v] > 0
        /\ UNCHANGED <<workerVars, found, idle, merged>>
    BY <1>2 DEF Done, Served, IsLeast, ReadyReadable
  <2>2. Serving /\ Serving' /\ (state[w] = "ended" => w \in Doomed)
    BY <2>1 DEF Serving, Doomed
  <2>3. CASE Pending
    <3>1. SendNext(w, worker_state \ {w}) /\ UNCHANGED stdin_open
      BY <1>2, <2>3 DEF Done
    <3>2. worker_state \ {w} \in SUBSET Worker
      OBVIOUS
    <3>3. /\ pc' \in {"fill", "loop", "ready"} /\ (pc' = "fill" => pc = "fill")
          /\ idle' \subseteq idle
          /\ UNCHANGED <<workerVars, found, stdin_open, merged>>
      BY <2>1, <3>1
    <3>4. QED
      BY <2>1, <2>2, <2>3, <3>1, <3>2, <3>3, SendingLoses
  <2>4. CASE ~Pending
    <3>1. /\ active' = active \ {w} /\ UNCHANGED <<next_file, stdin>>
          /\ stdin_open' = [stdin_open EXCEPT ![w] = FALSE]
      BY <1>2, <2>4 DEF Done
    <3>2. Doomed' \subseteq Doomed
      BY <2>1, <2>2, <3>1 DEF Doomed, workerVars
    <3>3. LossBounded' /\ Recorded' /\ Pending' = Pending
      BY <2>1, <3>1, <3>2, OthersLose
    <3>4. PendingMeansDeaths'
      BY <2>2, <2>4, <3>1, <3>3 DEF PendingMeansDeaths
    <3>5. QED
      BY <2>1, <3>3, <3>4 DEF MergedAll
  <2>5. QED
    BY <2>3, <2>4
<1>3. ASSUME NEW w \in Worker, Disconnected(w) PROVE LossInv'
  <2>1. /\ pc = "ready" /\ pc' \in {"loop", "ready"} /\ state[w] = "ended"
        /\ active' = active \ {w}
        /\ UNCHANGED <<found, next_file, idle, workerVars, pipeVars>>
    BY <1>3 DEF Disconnected, Served, IsLeast, ReadyReadable, Readable
  <2>2. Doomed' \subseteq Doomed
    BY <2>1 DEF Doomed, Serving, workerVars, pipeVars
  <2>3. LossBounded' /\ Recorded' /\ Ended' = Ended /\ Pending' = Pending
        /\ deaths' = deaths
    BY <2>1, <2>2, OthersLose DEF pipeVars
  <2>4. PendingMeansDeaths'
    BY <2>1, <2>3 DEF PendingMeansDeaths, Serving, workerVars, pipeVars
  <2>5. QED
    BY <2>1, <2>3, <2>4 DEF MergedAll
<1>4. ASSUME NEW w \in Worker, CloseStdin(w) \/ Wait(w) PROVE LossInv'
  <2>1. /\ pc = "shutdown" /\ pc' \in {"shutdown", "merge"}
        /\ UNCHANGED <<found, next_file, workerVars, stdin>>
    BY <1>4 DEF CloseStdin, Wait, masterVars, pipeVars
  <2>2. Doomed' = {} /\ ~Serving /\ ~Serving'
    BY <2>1 DEF Doomed, Serving
  <2>3. LossBounded' /\ Recorded' /\ Pending' = Pending /\ deaths' = deaths
    BY <2>1, <2>2, OthersLose
  <2>4. QED
    BY <2>1, <2>2, <2>3 DEF PendingMeansDeaths, MergedAll
<1>5. CASE Filled \/ Select
  <2>1. /\ pc \in {"fill", "loop"} /\ pc' \in {"loop", "ready"}
        /\ UNCHANGED <<found, next_file, active, idle, workerVars, pipeVars>>
    BY <1>5 DEF Filled, Select
  <2>2. Doomed' \subseteq Doomed
    BY <2>1 DEF Doomed, Serving, workerVars, pipeVars
  <2>3. LossBounded' /\ Recorded' /\ Ended' = Ended /\ Pending' = Pending
        /\ deaths' = deaths
    BY <2>1, <2>2, OthersLose DEF pipeVars
  <2>4. PendingMeansDeaths'
    BY <2>1, <2>3 DEF PendingMeansDeaths, Serving, workerVars, pipeVars
  <2>5. QED
    BY <2>1, <2>3, <2>4 DEF MergedAll
<1>6. CASE LeaveLoop
  <2>1. /\ pc = "loop" /\ pc' = "shutdown" /\ ~Continue
        /\ UNCHANGED <<found, next_file, active, idle, workerVars, pipeVars>>
    BY <1>6 DEF LeaveLoop
  <2>2. Doomed' = {} /\ Serving /\ ~Serving'
    BY <2>1 DEF Doomed, Serving
  <2>3. LossBounded' /\ Recorded' /\ Pending' = Pending /\ deaths' = deaths
    BY <2>1, <2>2, OthersLose DEF pipeVars
  <2>4. Pending => NumWorkers <= deaths
    <3> SUFFICES ASSUME Pending PROVE NumWorkers <= deaths
      OBVIOUS
    <3>1. active = {}
      BY <2>1 DEF Continue
    <3>2. Ended = Worker
      BY <2>2, <3>1 DEF Ended, PendingMeansDeaths
    <3>3. QED
      BY <2>2, <3>2, WorkersFinite DEF PendingMeansDeaths
  <2>5. QED
    BY <2>1, <2>2, <2>3, <2>4 DEF PendingMeansDeaths, MergedAll
<1>7. CASE Merge
  <2>1. /\ pc = "merge" /\ pc' = "done" /\ merged' = UNION {db[w] : w \in Worker}
        /\ UNCHANGED <<found, next_file, workerVars, pipeVars>>
    BY <1>7 DEF Merge
  <2>2. Doomed' = {} /\ ~Serving /\ ~Serving'
    BY <2>1 DEF Doomed, Serving
  <2>3. LossBounded' /\ Recorded' /\ Pending' = Pending /\ deaths' = deaths
    BY <2>1, <2>2, OthersLose DEF pipeVars
  <2>4. QED
    BY <2>1, <2>2, <2>3 DEF PendingMeansDeaths, MergedAll, workerVars
<1>8. QED
  BY <1>1, <1>2, <1>3, <1>4, <1>5, <1>6, <1>7 DEF MasterStep

LEMMA NextLoses == TypeInv /\ QuietInv /\ LossInv /\ [Next]_vars => LossInv'
<1> SUFFICES ASSUME TypeInv, QuietInv, LossInv, [Next]_vars PROVE LossInv'
  OBVIOUS
<1>1. CASE UNCHANGED vars
  <2>1. Doomed' = Doomed /\ UNCHANGED <<found, next_file, workerVars, stdin>>
    BY <1>1 DEF vars, masterVars, workerVars, pipeVars, Doomed, Serving
  <2>2. LossBounded' /\ Recorded' /\ Ended' = Ended /\ Pending' = Pending
        /\ deaths' = deaths
    BY <2>1, OthersLose
  <2>3. QED
    BY <1>1, <2>2 DEF vars, masterVars, workerVars, pipeVars, LossInv, Serving,
       PendingMeansDeaths, MergedAll
<1>2. QED
  BY <1>1, MasterLoses, WorkerLoses DEF Next, Finished

\* The counts bound what is missing when the run is over.
LEMMA LossIsBounded ==
  TypeInv /\ QuietInv /\ LossInv => DeathCostsOneFile
<1> SUFFICES ASSUME TypeInv, QuietInv, LossInv, pc = "done", deaths < NumWorkers
             PROVE  Cardinality((1..found) \ (merged \cup unparsed)) <= deaths
  BY DEF DeathCostsOneFile
<1> DEFINE missing == (1..found) \ (merged \cup unparsed)
<1>1. /\ found \in Nat /\ next_file \in 1..(found + 1) /\ deaths \in Nat
      /\ NumWorkers \in Nat
  BY FilesAssumption, WorkersAssumption DEF TypeInv, TypeOK
<1>2. ~Pending
  BY <1>1 DEF LossInv, PendingMeansDeaths, Serving
<1>3. \A f \in 1..found : f < next_file
  BY <1>1, <1>2 DEF Pending
<1>4. \A w \in Worker : Claimed(w) \subseteq merged
  <2> SUFFICES ASSUME NEW w \in Worker PROVE Claimed(w) \subseteq merged
    OBVIOUS
  <2>1. stdin[w] = <<>> /\ file[w] = 0 /\ db[w] \subseteq merged
    BY DEF QuietInv, LeftWhenQuiet, LossInv, Recorded, MergedAll
  <2>2. QED
    BY <2>1 DEF Claimed
<1>5. missing \subseteq Lost
  BY <1>3, <1>4 DEF Lost
<1>6. Cardinality(missing) <= Cardinality(Lost) /\ IsFiniteSet(missing)
  BY <1>5, CountsAreFinite, NotMore
<1>7. Cardinality(missing) \in Nat
  BY <1>6, FS_CardinalityType
<1> HIDE DEF missing
<1>8. Cardinality(missing) <= deaths
  BY <1>1, <1>6, <1>7, CountsAreFinite DEF LossInv, LossBounded
<1>9. QED
  BY <1>8 DEF missing

\* Whichever workers die, at whatever point of the protocol: as long as one is
\* left, no more files are missing from the merged index than workers died, but
\* those that could not be parsed.
THEOREM DeathsCostFiles == Spec => []DeathCostsOneFile
<1>1. Spec => []LossInv
  BY InitLoss, NextLoses, TypeInvariant, QuietInvariant, PTL DEF Spec
<1>2. QED
  BY <1>1, LossIsBounded, TypeInvariant, QuietInvariant, PTL

-----------------------------------------------------------------------------
(***************************************************************************)
(* The pool implements DirectoryIndexing. A step of a worker that settles  *)
(* a file indexes or skips it there, a death is a failure, and the merge   *)
(* publishes; the pipes are out of sight. That the abstract steps are      *)
(* enabled is what has to be known: a file a worker was given has not been *)
(* settled yet, every death ends another worker, and what the merge misses *)
(* is bounded (DeathCostsOneFile).                                         *)
(***************************************************************************)
\* The files worker w has yet to settle.
Given(w) ==
  {stdin[w][i] : i \in DOMAIN stdin[w]}
    \cup {f \in {file[w]} : state[w] = "parsing"}

Unsettled ==
  /\ \A w \in Worker : Given(w) \cap (db[w] \cup unparsed) = {}
  /\ \A f \in unparsed : f < next_file

DeathsEnd == deaths <= Cardinality(Ended)

LEMMA GivenClaimed ==
  ASSUME TypeInv, NEW w \in Worker
  PROVE  Given(w) \subseteq Claimed(w)
BY FilesAssumption DEF Given, Claimed, TypeInv, FileInHand, File

\* A step after which no worker has more to settle, and nothing more is settled.
LEMMA SettlesNothing ==
  ASSUME TypeInv, Unsettled, UNCHANGED <<db, unparsed>>, next_file' = next_file,
         \A w \in Worker : Given(w)' \subseteq Given(w)
  PROVE  Unsettled'
BY DEF Unsettled

LEMMA WorkerSettles ==
  ASSUME TypeInv, QuietInv, HandedOutOnce, Unsettled, NEW w \in Worker,
         WorkerStep(w) \/ Die(w)
  PROVE  Unsettled'
<1> USE DEF TypeInv, TypeOK
<1>1. CASE Read(w)
  <2>1. /\ stdin[w] \in Seq(File) /\ stdin[w] # <<>>
        /\ Head(stdin[w]) = stdin[w][1] /\ 1 \in DOMAIN stdin[w]
    BY <1>1, EmptySeq DEF Read
  <2>2. \A i \in DOMAIN Tail(stdin[w]) :
          i + 1 \in DOMAIN stdin[w] /\ Tail(stdin[w])[i] = stdin[w][i + 1]
    BY <2>1, HeadTailProperties
  <2>3. Given(w)' \subseteq Given(w)
    BY <1>1, <2>1, <2>2 DEF Read, Given
  <2>4. \A v \in Worker \ {w} : Given(v)' = Given(v)
    BY <1>1 DEF Read, Given
  <2>5. QED
    BY <1>1, <2>3, <2>4, SettlesNothing DEF Read, masterVars
<1>2. CASE Index(w)
  <2>1. /\ state[w] = "parsing" /\ state'[w] = "reporting" /\ stdin'[w] = <<>>
        /\ next_file' = next_file
        /\ \A v \in Worker \ {w} :
             state'[v] = state[v] /\ stdin'[v] = stdin[v] /\ file'[v] = file[v]
    BY <1>2 DEF Index, QuietInv, OneOutstanding, masterVars, pipeVars
  <2>2. /\ unparsed' \subseteq unparsed \cup {file[w]}
        /\ \A v \in Worker \ {w} : db'[v] = db[v]
    BY <1>2 DEF Index
  <2>3. file[w] \in Given(w)
    BY <2>1 DEF Given
  <2>4. file[w] \in Claimed(w)
    BY <2>3, GivenClaimed
  <2>5. file[w] < next_file
    BY <2>4 DEF HandedOutOnce
  <2>6. Given(w)' = {}
    BY <2>1 DEF Given
  <2>7. ASSUME NEW v \in Worker \ {w}
        PROVE  Given(v)' \cap (db'[v] \cup unparsed') = {}
    <3>1. Given(v)' = Given(v)
      BY <2>1 DEF Given
    <3>2. file[w] \notin Given(v)
      BY <2>4, GivenClaimed DEF HandedOutOnce
    <3>3. QED
      BY <2>2, <3>1, <3>2 DEF Unsettled
  <2>8. QED
    BY <2>1, <2>2, <2>5, <2>6, <2>7 DEF Unsettled
<1>3. CASE Report(w)
  BY <1>3, SettlesNothing DEF Report, Given, masterVars
<1>4. CASE Quit(w)
  BY <1>4, SettlesNothing DEF Quit, Given, masterVars, pipeVars
<1>5. CASE Die(w)
  BY <1>5, SettlesNothing DEF Die, Given, masterVars
<1>6. QED
  BY <1>1, <1>2, <1>3, <1>4, <1>5 DEF WorkerStep

\* The file that is sent has not been settled: only files before it have been given.
LEMMA SendNextSettles ==
  ASSUME TypeInv, HandedOutOnce, Unsettled, Pending, NEW w \in Worker,
         NEW tracked \in SUBSET Worker, SendNext(w, tracked), UNCHANGED workerVars
  PROVE  Unsettled'
<1> USE DEF TypeInv, TypeOK
<1>1. next_file' = next_file + 1 /\ next_file \in File /\ next_file \in Nat
  BY SendNextType DEF File
<1>2. next_file \notin unparsed /\ \A v \in Worker : next_file \notin db[v]
  BY <1>1 DEF Unsettled, HandedOutOnce, Claimed
<1>3. ASSUME NEW v \in Worker PROVE Given(v)' \subseteq Given(v) \cup {next_file}
  <2>1. CASE stdin'[v] = stdin[v]
    BY <2>1 DEF Given, workerVars
  <2>2. CASE stdin'[v] = Append(stdin[v], next_file)
    <3>1. \A i \in DOMAIN stdin'[v] :
            \/ i \in DOMAIN stdin[v] /\ stdin'[v][i] = stdin[v][i]
            \/ stdin'[v][i] = next_file
      BY <1>1, <2>2, AppendProperties
    <3>2. QED
      BY <3>1 DEF Given, workerVars
  <2>3. QED
    BY <2>1, <2>2 DEF SendNext
<1>4. \A f \in unparsed : f \in Nat
  BY DEF File
<1>5. \A f \in unparsed : f < next_file'
  BY <1>1, <1>4 DEF Unsettled
<1>6. QED
  BY <1>2, <1>3, <1>5 DEF Unsettled, workerVars

LEMMA NextSettles ==
  ASSUME TypeInv, QuietInv, HandedOutOnce, Unsettled, [Next]_vars
  PROVE  Unsettled'
<1> USE DEF TypeInv, TypeOK
<1>1. ASSUME UNCHANGED <<next_file, stdin, workerVars>> PROVE Unsettled'
  BY <1>1, SettlesNothing DEF Given, workerVars
<1>2. ASSUME NEW w \in Worker, WorkerStep(w) \/ Die(w) PROVE Unsettled'
  BY <1>2, WorkerSettles
<1>3. ASSUME NEW w \in Worker, Fill(w) PROVE Unsettled'
  BY <1>3, SendNextSettles DEF Fill
<1>4. ASSUME NEW w \in Worker, Done(w) PROVE Unsettled'
  <2>1. worker_state \ {w} \in SUBSET Worker /\ UNCHANGED workerVars
    BY <1>4 DEF Done
  <2>2. CASE Pending
    BY <1>4, <2>1, <2>2, SendNextSettles DEF Done
  <2>3. CASE ~Pending
    BY <1>1, <1>4, <2>1, <2>3 DEF Done
  <2>4. QED
    BY <2>2, <2>3
<1>5. ASSUME NEW w \in Worker, Disconnected(w) \/ CloseStdin(w) \/ Wait(w)
      PROVE  Unsettled'
  BY <1>1, <1>5 DEF Disconnected, CloseStdin, Wait, masterVars, pipeVars
<1>6. CASE Filled \/ Select \/ LeaveLoop \/ Merge
  BY <1>1, <1>6 DEF Filled, Select, LeaveLoop, Merge, pipeVars
<1>7. CASE UNCHANGED vars
  BY <1>1, <1>7 DEF vars, masterVars, pipeVars
<1>8. QED
  BY <1>2, <1>3, <1>4, <1>5, <1>6, <1>7 DEF Next, Finished, MasterStep

\* Nobody dies twice.
LEMMA NextEnds ==
  ASSUME TypeInv, DeathsEnd, [Next]_vars
  PROVE  DeathsEnd'
<1> USE DEF TypeInv, TypeOK
<1>1. ASSUME UNCHANGED <<state, deaths>> PROVE DeathsEnd'
  BY <1>1 DEF DeathsEnd, Ended
<1>2. ASSUME NEW w \in Worker, WorkerStep(w) PROVE DeathsEnd'
  <2>1. Ended \subseteq Ended' /\ deaths' = deaths
    BY <1>2 DEF WorkerStep, Read, Index, Report, Quit, Ended
  <2>2. IsFiniteSet(Ended') /\ Cardinality(Ended') \in Nat /\ Cardinality(Ended) \in Nat
    BY WorkersFinite DEF Ended
  <2>3. Cardinality(Ended) <= Cardinality(Ended')
    BY <2>1, <2>2, NotMore
  <2>4. QED
    BY <2>1, <2>2, <2>3 DEF DeathsEnd
<1>3. ASSUME NEW w \in Worker, Die(w) PROVE DeathsEnd'
  <2>1. Ended' = Ended \cup {w} /\ w \notin Ended /\ deaths' = deaths + 1
    BY <1>3 DEF Die, Ended
  <2>2. IsFiniteSet(Ended) /\ Cardinality(Ended) \in Nat
    BY CountsAreFinite
  <2>3. Cardinality(Ended') = Cardinality(Ended) + 1
    BY <2>1, <2>2, FS_AddElement
  <2>4. QED
    BY <2>1, <2>2, <2>3 DEF DeathsEnd
<1>4. CASE MasterStep
  BY <1>1, <1>4 DEF MasterStep, Filled, Select, LeaveLoop, Merge, Fill, Done,
     Disconnected, CloseStdin, Wait, workerVars
<1>5. QED
  BY <1>1, <1>2, <1>3, <1>4 DEF Next, Finished, vars, workerVars

RefineInv ==
  /\ TypeInv /\ QuietInv /\ HandedOutOnce /\ Unsettled /\ DeathsEnd
  /\ DeathCostsOneFile

LEMMA RefineInvariant == Spec => []RefineInv
<1>1. Init => HandedOutOnce /\ Unsettled /\ DeathsEnd
  <2> SUFFICES ASSUME Init PROVE HandedOutOnce /\ Unsettled /\ DeathsEnd
    OBVIOUS
  <2>1. HandedOutOnce /\ Unsettled
    BY DEF Init, HandedOutOnce, Claimed, Unsettled, Given
  <2>2. Ended = {} /\ deaths = 0
    BY DEF Init, Ended
  <2>3. DeathsEnd
    BY <2>2, FS_EmptySet DEF DeathsEnd
  <2> QED
    BY <2>1, <2>3
<1>2. TypeInv /\ QuietInv /\ HandedOutOnce /\ Unsettled /\ DeathsEnd /\ [Next]_vars
      => HandedOutOnce' /\ Unsettled' /\ DeathsEnd'
  BY NextClaims, NextSettles, NextEnds
<1>3. QED
  BY <1>1, <1>2, TypeInvariant, QuietInvariant, DeathsCostFiles, PTL
  DEF Spec, RefineInv

\* What a worker that settles a file does to the abstract state.
LEMMA IndexRefines ==
  ASSUME RefineInv, NEW w \in Worker, Index(w)
  PROVE  \E f \in 1..found : Indexing!Index(f) \/ Indexing!Skip(f)
<1> DEFINE all == UNION {db[v] : v \in Worker}
<1> USE DEF RefineInv, TypeInv, TypeOK
<1>1. /\ state[w] = "parsing" /\ file[w] \in Given(w) /\ file[w] \in Claimed(w)
      /\ file[w] \in File /\ UNCHANGED <<pc, found, merged, deaths>>
  BY GivenClaimed DEF Index, Given, masterVars, FileInHand
<1>2. PICK f \in 1..found : f = file[w]
  BY <1>1 DEF HandedOutOnce, File
<1>3. f \notin all \cup unparsed
  <2>1. f \notin db[w] \cup unparsed
    BY <1>1, <1>2 DEF Unsettled
  <2>2. \A v \in Worker \ {w} : f \notin db[v]
    BY <1>1, <1>2 DEF HandedOutOnce, Claimed
  <2> QED
    BY <2>1, <2>2
<1>4. pc # "done"
  BY <1>1 DEF QuietInv, LeftWhenQuiet
<1>5. ASSUME db' = [db EXCEPT ![w] = @ \cup {f}], unparsed' = unparsed
      PROVE  Indexing!Index(f)
  <2>1. UNION {db'[v] : v \in Worker} = all \cup {f}
    BY <1>5
  <2> QED
    BY <1>1, <1>3, <1>4, <1>5, <2>1 DEF Indexing!Index
<1>6. ASSUME unparsed' = unparsed \cup {f}, db' = db
      PROVE  Indexing!Skip(f)
  BY <1>1, <1>3, <1>4, <1>6 DEF Indexing!Skip
<1> QED
  BY <1>2, <1>5, <1>6 DEF Index

LEMMA DeathRefines ==
  ASSUME RefineInv, NEW w \in Worker, Die(w)
  PROVE  Indexing!Fail
<1> USE DEF RefineInv, TypeInv, TypeOK
<1>1. /\ w \notin Ended /\ deaths' = deaths + 1
      /\ UNCHANGED <<pc, found, merged, db, unparsed>>
  BY DEF Die, Ended, masterVars
<1>2. pc # "done"
  BY DEF Die, QuietInv, ReapedEnded, Worker
<1>3. Ended \subseteq Worker \ {w}
  BY <1>1 DEF Ended
<1>4. deaths < NumWorkers
  <2>1. Cardinality(Ended) + 1 <= Cardinality(Worker)
    BY <1>3, WorkersFinite, OneLess
  <2> QED
    BY <2>1, WorkersFinite, WorkersAssumption, CountsAreFinite DEF DeathsEnd
<1> QED
  BY <1>1, <1>2, <1>4 DEF Indexing!Fail

\* The operator of FiniteSets, as DirectoryIndexing has it.
LEMMA SameCardinality == \A S : Indexing!Cardinality(S) = Cardinality(S)
BY DEF Indexing!Cardinality, Cardinality

LEMMA MergeRefines ==
  ASSUME RefineInv, RefineInv', Merge
  PROVE  Indexing!Publish
<1> DEFINE all == UNION {db[v] : v \in Worker}
<1>1. /\ pc = "merge" /\ pc' = "done" /\ merged' = all
      /\ UNCHANGED <<found, db, unparsed, deaths>>
  BY DEF Merge, workerVars
<1>2. deaths < NumWorkers => Cardinality((1..found) \ (all \cup unparsed)) <= deaths
  <2>1. DeathCostsOneFile'
    BY DEF RefineInv
  <2> QED
    BY <1>1, <2>1 DEF DeathCostsOneFile
<1>3. deaths < NumWorkers =>
        Indexing!Cardinality((1..found) \ (all \cup unparsed)) <= deaths
  BY <1>2, SameCardinality
<1> QED
  BY <1>1, <1>3 DEF Indexing!Publish

\* Nothing is published twice, before it was indexed or while a worker may still
\* index; what failed workers had indexed is published; and as long as one worker is
\* left, a failure costs one file at most: the run does what DirectoryIndexing says.
THEOREM ImplementsDirectoryIndexing == Spec => IndexesDirectory
<1>1. Init => Indexing!Init
  <2> SUFFICES ASSUME Init PROVE Indexing!Init
    OBVIOUS
  <2>1. 1..found \in SUBSET File
    BY FilesAssumption, CountsAssumption DEF Init, File
  <2>2. UNION {db[w] : w \in Worker} = {}
    BY DEF Init
  <2>3. pc # "done" /\ merged = {} /\ unparsed = {} /\ deaths = 0
    BY DEF Init
  <2> QED
    BY <2>1, <2>2, <2>3 DEF Indexing!Init
<1>2. RefineInv /\ RefineInv' /\ [Next]_vars => [Indexing!Next]_Indexing!indexingVars
  <2> SUFFICES ASSUME RefineInv, RefineInv', [Next]_vars
               PROVE  Indexing!Next \/ UNCHANGED Indexing!indexingVars
    OBVIOUS
  <2>1. ASSUME UNCHANGED <<found, db, unparsed, deaths, merged>>,
               (pc = "done") = (pc' = "done")
        PROVE  UNCHANGED Indexing!indexingVars
    BY <2>1 DEF Indexing!indexingVars
  <2>2. ASSUME NEW w \in Worker, WorkerStep(w)
        PROVE  Indexing!Next \/ UNCHANGED Indexing!indexingVars
    <3>1. CASE Index(w)
      BY <3>1, IndexRefines DEF Indexing!Next
    <3>2. CASE Read(w) \/ Report(w) \/ Quit(w)
      BY <2>1, <3>2 DEF Read, Report, Quit, masterVars
    <3> QED
      BY <2>2, <3>1, <3>2 DEF WorkerStep
  <2>3. ASSUME NEW w \in Worker, Die(w) PROVE Indexing!Next
    BY <2>3, DeathRefines DEF Indexing!Next
  <2>4. CASE Merge
    BY <2>4, MergeRefines DEF Indexing!Next
  <2>5. ASSUME NEW w \in Worker,
               Fill(w) \/ Disconnected(w) \/ Done(w) \/ CloseStdin(w) \/ Wait(w)
        PROVE  UNCHANGED Indexing!indexingVars
    <3>1. UNCHANGED <<found, db, unparsed, deaths, merged>>
      BY <2>5 DEF Fill, Disconnected, Done, CloseStdin, Wait, masterVars, workerVars
    <3>2. pc # "done" /\ pc' # "done"
      BY <2>5 DEF Fill, Disconnected, Done, CloseStdin, Wait, Served, masterVars
    <3> QED
      BY <2>1, <3>1, <3>2
  <2>6. CASE Filled \/ Select \/ LeaveLoop
    BY <2>1, <2>6 DEF Filled, Select, LeaveLoop, workerVars
  <2>7. CASE UNCHANGED vars
    BY <2>1, <2>7 DEF vars, masterVars, workerVars
  <2> QED
    BY <2>2, <2>3, <2>4, <2>5, <2>6, <2>7 DEF Next, MasterStep, Finished
<1> QED
  BY <1>1, <1>2, RefineInvariant, PTL DEF Spec, IndexesDirectory, Indexing!Spec
=============================================================================
