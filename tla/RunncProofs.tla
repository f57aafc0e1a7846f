---------------------------- MODULE RunncProofs ----------------------------
(***************************************************************************)
(* What holds of the runtime for any number of containers, commands, pids  *)
(* and faults, whatever the callers do.                                    *)
(***************************************************************************)
EXTENDS Runnc, TLAPS

USE IdAssumption, PidAssumption, TapAssumption, BoundAssumption

---------------------------------------------------------------------------
(* Lemmas about the helpers.                                               *)

\* A step keeps the type of what it leaves alone.
LEMMA Frame ==
    /\ FsType /\ UNCHANGED fsVars => FsType'
    /\ TapType /\ UNCHANGED taps => TapType'
    /\ GateType /\ UNCHANGED gateVars => GateType'
    /\ ProcType /\ UNCHANGED proc => ProcType'
    /\ CliType /\ UNCHANGED cli => CliType'
    /\ CounterType /\ UNCHANGED counters => CounterType'
<1>1. FsType /\ UNCHANGED fsVars => FsType'
  BY DEF FsType, fsVars
<1>2. TapType /\ UNCHANGED taps => TapType'
  BY DEF TapType
<1>3. GateType /\ UNCHANGED gateVars => GateType'
  BY DEF GateType, gateVars
<1>4. ProcType /\ UNCHANGED proc => ProcType'
  BY DEF ProcType
<1>5. CliType /\ UNCHANGED cli => CliType'
  BY DEF CliType
<1>6. CounterType /\ UNCHANGED counters => CounterType'
  BY DEF CounterType, counters
<1> QED BY <1>1, <1>2, <1>3, <1>4, <1>5, <1>6

\* The labels at which a command has a directory or a fifo open.
FdLabels == {"fork", "blocked", "read"}

\* The groups of labels are labels.
LEMMA LabelSets ==
    /\ CreateLabels \subseteq Labels
    /\ CreateLabels \ {"fork"} \subseteq Labels \ FdLabels
    /\ LoadLabels \subseteq Labels
    /\ LoadLabels \ {"blocked", "read"} \subseteq Labels \ (FdLabels \union {"idle"})
    /\ SharedLabels \subseteq Labels \ (FdLabels \union {"idle"})
    /\ EndLabels \subseteq Labels \ (FdLabels \union {"idle"})
    /\ RetLabels \subseteq Labels \ FdLabels
BY DEF FdLabels, Labels, CreateLabels, LoadLabels, SharedLabels, EndLabels, RetLabels

\* A new record for one command.
LEMMA CliUpdate ==
    ASSUME CliType, NEW c \in Clis, NEW r \in CliRecords,
           r.pc # "idle" => r.id # NoId,
           r.pc \in FdLabels => r.fd # 0,
           cli' = [cli EXCEPT ![c] = r]
    PROVE  CliType'
BY DEF CliType, FdLabels

\* A command that moves to another label.
LEMMA GotoType ==
    ASSUME CliType, NEW c \in Clis, NEW l \in Labels \ FdLabels,
           cli[c].pc # "idle", Goto(c, l)
    PROVE  CliType'
BY DEF Goto, CliType, CliRecords, FdLabels

\* The labels a command goes on to after it has asked for the status.
LEMMA AfterStatusType ==
    ASSUME NEW r, NEW status
    PROVE  /\ AfterStatus(r, status) \subseteq Labels \ (FdLabels \union {"idle"})
           /\ AfterStatus(r, "stopped") \subseteq RetLabels
BY DEF FdLabels, AfterStatus, StartSwitch, StateSwitch, DeleteSwitch, Labels, LoadLabels,
       SharedLabels, EndLabels, RetLabels

\* What a path leads to.
LEMMA PathType ==
    ASSUME FsType, NEW i \in Ids
    PROVE  FileAt(i) \in Files /\ FifoAt(i) \in Inodes \union {0}
BY DEF FsType, FileAt, FifoAt, NoFile, Files, Statuses

\* A fatal signal leaves a process table.
LEMMA KilledType ==
    ASSUME ProcType, NEW p, proc' = Killed(p)
    PROVE  ProcType'
<1>1. NoProc \in Procs /\ NoProc.st \notin InitStates
  BY DEF NoProc, Procs, InitStates
<1>2. \A q \in Pids : /\ [proc[q] EXCEPT !.st = "zombie"] \in Procs
                      /\ [proc[q] EXCEPT !.st = "zombie"].st \notin InitStates
  BY DEF Procs, ProcType, InitStates
<1>3. \A q \in Pids : Killed(p)[q] \in {proc[q], NoProc, [proc[q] EXCEPT !.st = "zombie"]}
  BY DEF Killed
<1>4. Killed(p) = [q \in Pids |-> Killed(p)[q]]
  BY DEF Killed
<1>5. proc' \in [Pids -> Procs]
  BY <1>1, <1>2, <1>3, <1>4 DEF ProcType
<1>6. \A q \in Pids : proc'[q] = proc[q] \/ proc'[q].st \notin InitStates
  BY <1>1, <1>2, <1>3
<1> QED BY <1>5, <1>6 DEF ProcType, InitStates

---------------------------------------------------------------------------
(* Type correctness, one lemma for each kind of step.                      *)

\* The steps of create.
LEMMA CreateTypes ==
    ASSUME TypeOK, NEW c \in Clis, CreateStep(c)
    PROVE  TypeOK'
<1> USE LabelSets
<1>t. FsType /\ TapType /\ GateType /\ ProcType /\ CliType /\ CounterType
  BY DEF TypeOK
<1>c. /\ cli[c] \in CliRecords
      /\ cli[c].pc # "idle" => cli[c].id \in Ids
  BY <1>t DEF CliType, CliRecords
<1>1. CASE CreateSpec(c)
  BY <1>1, <1>t, Frame, GotoType DEF CreateSpec, TypeOK, CreateLabels, EndLabels
<1>2. CASE CreateStat(c)
  BY <1>2, <1>t, Frame, GotoType DEF CreateStat, TypeOK, CreateLabels, EndLabels
<1>3. CASE CreateMkdir(c)
  <2>1. CliType'
    BY <1>3, <1>t, GotoType DEF CreateMkdir, CreateLabels, EndLabels
  <2>2. FsType'
    BY <1>3, <1>t, <1>c DEF CreateMkdir, FsType, CliRecords
  <2> QED BY <1>3, <1>t, <2>1, <2>2, Frame DEF CreateMkdir, TypeOK
<1>4. CASE CreateMkfifo(c)
  <2>1. CliType'
    BY <1>4, <1>t, GotoType DEF CreateMkfifo, CreateLabels, EndLabels
  <2>2. FsType'
    BY <1>4, <1>t, <1>c DEF CreateMkfifo, FsType, CliRecords
  <2> QED BY <1>4, <1>t, <2>1, <2>2, Frame DEF CreateMkfifo, TypeOK
<1>5. CASE CreateFs(c)
  <2>1. CliType'
    BY <1>5, <1>t, GotoType DEF CreateFs, CreateLabels, EndLabels
  <2>2. FsType'
    BY <1>5, <1>t, <1>c DEF CreateFs, FsType
  <2> QED BY <1>5, <1>t, <2>1, <2>2, Frame DEF CreateFs, TypeOK
<1>6. CASE CreateNet(c)
  <2>1. CliType'
    BY <1>6, <1>t, GotoType DEF CreateNet, CreateLabels, EndLabels
  <2>2. TapType'
    BY <1>6, <1>t, <1>c DEF CreateNet, TapType
  <2> QED BY <1>6, <1>t, <2>1, <2>2, Frame DEF CreateNet, TypeOK
<1>7. CASE SetupIO(c)
  BY <1>7, <1>t, Frame, GotoType DEF SetupIO, TypeOK, CreateLabels, SharedLabels
<1>8. CASE StartOpenRoot(c)
  <2> DEFINE d == dir[cli[c].id]
             r == [cli[c] EXCEPT !.pc = "fork", !.fd = d]
  <2>1. CASE d = 0 /\ Goto(c, "destroy")
    BY <1>8, <2>1, <1>t, GotoType, Frame DEF StartOpenRoot, SharedLabels, TypeOK
  <2>2. CASE d # 0 /\ cli' = [cli EXCEPT ![c].pc = "fork", ![c].fd = d]
    <3>1. cli' = [cli EXCEPT ![c] = r]
      BY <2>2, <1>t DEF CliType
    <3>2. d \in Inodes /\ cli[c].id # NoId
      BY <1>8, <2>2, <1>t, <1>c DEF StartOpenRoot, FsType
    <3>3. r \in CliRecords /\ r.id # NoId /\ r.fd # 0
      BY <1>c, <3>2, <2>2 DEF CliRecords, CreateLabels
    <3>4. CliType'
      BY <3>1, <3>3, <1>t, CliUpdate
    <3> QED BY <1>8, <1>t, <3>4, Frame DEF StartOpenRoot, TypeOK
  <2> QED BY <1>8, <2>1, <2>2 DEF StartOpenRoot
<1>9. CASE StartFork(c)
  <2>u. cli[c].pc = "fork" /\ UNCHANGED <<fsVars, taps, gateVars, counters>>
    BY <1>9 DEF StartFork
  <2>1. CASE Goto(c, "destroy") /\ UNCHANGED proc
    BY <2>u, <2>1, <1>t, GotoType, Frame DEF SharedLabels, TypeOK
  <2>2. ASSUME NEW p \in Pids, NEW l \in {"saveopen", "destroy"},
               proc' = [proc EXCEPT ![p] = NewInit(c)],
               cli' = [cli EXCEPT ![c] = Forked(cli[c], p, l)]
        PROVE  TypeOK'
    <3>1. /\ NewInit(c) \in Procs
          /\ NewInit(c).st = "setup" /\ NewInit(c).root # 0
      BY <1>c, <1>t, <2>u DEF NewInit, Procs, InitStates, CliRecords, CliType
    <3>2. /\ Forked(cli[c], p, l) \in CliRecords
          /\ Forked(cli[c], p, l).pc = l
          /\ Forked(cli[c], p, l).id = cli[c].id
      <4>1. l \in Labels /\ "pidfile" \in RetLabels /\ "created" \in Statuses
        BY DEF SharedLabels, RetLabels, Statuses
      <4> QED BY <1>c, <4>1 DEF Forked, CliRecords
    <3>3. ProcType'
      BY <2>2, <3>1, <1>t DEF ProcType
    <3>4. cli[c].id # NoId
      BY <1>c, <2>u
    <3>5. CliType'
      BY <2>2, <3>2, <3>4, <1>t, CliUpdate DEF FdLabels
    <3> QED BY <2>u, <3>3, <3>5, <1>t, Frame DEF TypeOK
  <2> QED BY <1>9, <2>1, <2>2 DEF StartFork
<1>10. CASE CreatePidFile(c)
  BY <1>10, <1>t, Frame, GotoType DEF CreatePidFile, TypeOK, CreateLabels
<1>11. CASE AdjustOomScore(c)
  BY <1>11, <1>t, Frame, GotoType DEF AdjustOomScore, TypeOK, CreateLabels, EndLabels
<1>12. CASE Terminate(c)
  <2> DEFINE r == [cli[c] EXCEPT !.pc = "destroy", !.child = 0]
  <2>1. NoProc \in Procs /\ NoProc.st = "free"
    BY DEF NoProc, Procs
  <2>2. ProcType'
    BY <1>12, <2>1, <1>t DEF Terminate, ProcType, InitStates
  <2>3. cli[c].pc = "terminate" /\ cli' = [cli EXCEPT ![c] = r]
    BY <1>12, <1>t DEF Terminate, CliType
  <2>4. r \in CliRecords /\ r.pc \notin FdLabels /\ r.id # NoId
    BY <1>c, <2>3 DEF CliRecords, SharedLabels
  <2>5. CliType'
    BY <2>3, <2>4, <1>t, CliUpdate
  <2> QED BY <1>12, <2>2, <2>5, <1>t, Frame DEF Terminate, TypeOK
<1> QED
  BY <1>1, <1>2, <1>3, <1>4, <1>5, <1>6, <1>7, <1>8, <1>9, <1>10, <1>11, <1>12
     DEF CreateStep

\* The steps of the commands that load a container.
LEMMA LoadTypes ==
    ASSUME TypeOK, NEW c \in Clis, LoadStep(c)
    PROVE  TypeOK'
<1> USE LabelSets
<1>t. FsType /\ TapType /\ GateType /\ ProcType /\ CliType /\ CounterType
  BY DEF TypeOK
<1>c. /\ cli[c] \in CliRecords
      /\ cli[c].pc # "idle" => cli[c].id \in Ids
  BY <1>t DEF CliType, CliRecords
<1>1. CASE Load(c)
  <2> DEFINE state == FileAt(cli[c].id)
             gone == [cli[c] EXCEPT !.pc = "rm", !.ret = "err"]
             loaded == [cli[c] EXCEPT !.pc = AfterLoad(cli[c].cmd),
                                      !.pid = state.pid, !.status = state.status]
  <2>u. cli[c].pc = "load" /\ UNCHANGED <<fsVars, taps, gateVars, proc, counters>>
    BY <1>1 DEF Load
  <2>1. state \in Files
    BY <1>c, <1>t, <2>u, PathType
  <2>2. /\ gone \in CliRecords /\ gone.pc = "rm" /\ gone.id # NoId
        /\ loaded \in CliRecords /\ loaded.pc \notin FdLabels /\ loaded.id # NoId
    <3>1. "rm" \in Labels /\ "err" \in RetLabels
      BY DEF SharedLabels, RetLabels
    <3>2. AfterLoad(cli[c].cmd) \in Labels \ FdLabels
      BY <1>c DEF AfterLoad, LoadLabels
    <3>3. state.pid \in Pids \union {0} /\ state.status \in Statuses
      BY <2>1 DEF Files
    <3>4. cli[c].id # NoId
      BY <1>c, <2>u
    <3>5. gone \in CliRecords /\ gone.pc = "rm" /\ gone.id # NoId
      BY <1>c, <3>1, <3>4 DEF CliRecords
    <3>6. loaded \in CliRecords /\ loaded.pc \notin FdLabels /\ loaded.id # NoId
      BY <1>c, <3>2, <3>3, <3>4 DEF CliRecords
    <3> QED BY <3>5, <3>6
  <2>3. \/ cli' = [cli EXCEPT ![c] = gone]
        \/ cli' = [cli EXCEPT ![c] = loaded]
        \/ Goto(c, "err")
    BY <1>1, <1>t DEF Load, CliType
  <2>4. CliType'
    BY <2>2, <2>3, <2>u, <1>t, CliUpdate, GotoType DEF EndLabels, FdLabels
  <2> QED BY <2>u, <2>4, <1>t, Frame DEF TypeOK
<1>2. CASE Probe(c)
  <2>u. /\ cli[c].pc \in {"probe", "reprobe"}
        /\ UNCHANGED <<fsVars, taps, gateVars, proc, counters>>
    BY <1>2 DEF Probe
  <2>1. CASE \E l \in AfterStatus(cli[c], cli[c].status) : Goto(c, l)
    BY <2>u, <2>1, <1>t, AfterStatusType, GotoType, Frame DEF TypeOK
  <2>2. ASSUME NEW l \in AfterStatus(cli[c], "stopped"),
               cli' = [cli EXCEPT ![c].pc = "saveopen", ![c].ret = l,
                                  ![c].status = "stopped"]
        PROVE  TypeOK'
    <3> DEFINE r == [cli[c] EXCEPT !.pc = "saveopen", !.ret = l, !.status = "stopped"]
    <3>1. l \in RetLabels
      BY <2>2, AfterStatusType
    <3>2. r \in CliRecords /\ r.pc = "saveopen" /\ r.id # NoId
      BY <1>c, <2>u, <3>1 DEF CliRecords, SharedLabels, Statuses
    <3>3. cli' = [cli EXCEPT ![c] = r]
      BY <2>2, <1>t DEF CliType
    <3>4. CliType'
      BY <3>2, <3>3, <1>t, CliUpdate DEF FdLabels
    <3> QED BY <2>u, <3>4, <1>t, Frame DEF TypeOK
  <2> QED BY <1>2, <2>1, <2>2 DEF Probe
<1>3. CASE ExecOpen(c)
  <2> DEFINE f == FifoAt(cli[c].id)
             l == IF Writers(f) = {} THEN "blocked" ELSE "read"
             r == [cli[c] EXCEPT !.fd = f, !.pc = l]
  <2>u. cli[c].pc = "openfifo" /\ UNCHANGED <<fsVars, taps, gateVars, proc, counters>>
    BY <1>3 DEF ExecOpen
  <2>1. Goto(c, "err") \/ (f # 0 /\ cli' = [cli EXCEPT ![c] = r])
    BY <1>3, <1>t DEF ExecOpen, CliType
  <2>2. f \in Inodes \union {0}
    BY <1>c, <1>t, <2>u, PathType
  <2>3. r \in CliRecords /\ r.fd = f /\ r.id # NoId
    <3>1. l \in Labels
      BY DEF LoadLabels
    <3> HIDE DEF f, l
    <3>2. cli[c].id # NoId
      BY <1>c, <2>u
    <3> QED BY <1>c, <2>2, <3>1, <3>2 DEF CliRecords
  <2>4. CliType'
    BY <2>1, <2>3, <2>u, <1>t, CliUpdate, GotoType DEF EndLabels
  <2> QED BY <2>u, <2>4, <1>t, Frame DEF TypeOK
<1>4. CASE ExecRead(c)
  <2>u. cli[c].pc = "read" /\ UNCHANGED <<fsVars, taps, puts, proc, counters>>
    BY <1>4 DEF ExecRead
  <2>1. /\ Started(cli[c]) \in CliRecords
        /\ Started(cli[c]).pc = "saveopen"
        /\ Started(cli[c]).id # NoId
    BY <1>c, <2>u DEF Started, CliRecords, SharedLabels, RetLabels, Statuses
  <2>2. cli' = [cli EXCEPT ![c] = Started(cli[c])] \/ Goto(c, "err")
    BY <1>4 DEF ExecRead
  <2>3. CliType'
    BY <2>1, <2>2, <2>u, <1>t, CliUpdate, GotoType DEF EndLabels, FdLabels
  <2>4. GateType'
    BY <1>4, <2>u, <1>t DEF ExecRead, GateType
  <2> QED BY <2>u, <2>3, <2>4, <1>t, Frame DEF TypeOK
<1>5. CASE ExecRemove(c)
  <2>1. CliType'
    BY <1>5, <1>t, GotoType DEF ExecRemove, EndLabels
  <2>2. FsType'
    BY <1>5, <1>t DEF ExecRemove, FsType
  <2> QED BY <1>5, <2>1, <2>2, <1>t, Frame DEF ExecRemove, TypeOK
<1>6. CASE Signal(c)
  <2>1. CliType'
    BY <1>6, <1>t, GotoType DEF Signal, EndLabels
  <2>2. ProcType'
    BY <1>6, <1>t, KilledType, Frame DEF Signal
  <2> QED BY <1>6, <2>1, <2>2, <1>t, Frame DEF Signal, TypeOK
<1>7. CASE SigKill(c)
  BY <1>7, <1>t, GotoType, KilledType, Frame DEF SigKill, LoadLabels, TypeOK
<1>8. CASE Poll(c)
  BY <1>8, <1>t, GotoType, Frame DEF Poll, EndLabels, SharedLabels, TypeOK
<1> QED
  BY <1>1, <1>2, <1>3, <1>4, <1>5, <1>6, <1>7, <1>8 DEF LoadStep

\* What opening state.json for writing does to the files.
Opened(f, d, c) == [f EXCEPT ![d].kind = "torn", ![d].open = @ \union {c}]

LEMMA OpenedFiles ==
    ASSUME NEW f \in [Inodes -> Files], NEW d \in Inodes, NEW c \in Clis, NEW g,
           g = Opened(f, d, c)
    PROVE  /\ g \in [Inodes -> Files]
           /\ g[d].kind = "torn" /\ g[d].pid = f[d].pid /\ g[d].status = f[d].status
           /\ g[d].open = f[d].open \union {c}
           /\ \A e \in Inodes : e # d => g[e] = f[e]
<1> DEFINE r == [f[d] EXCEPT !.kind = "torn", !.open = @ \union {c}]
<1>1. /\ r \in Files /\ r.kind = "torn" /\ r.pid = f[d].pid /\ r.status = f[d].status
      /\ r.open = f[d].open \union {c}
  BY DEF Files
<1>2. g = [f EXCEPT ![d] = r]
  BY DEF Opened
<1> HIDE DEF r
<1> QED BY <1>1, <1>2

\* What the save of c leaves in a directory.
LEMMA SavedOpen ==
    ASSUME TypeOK, NEW c \in Clis, SaveOpen(c), dir[cli[c].id] # 0, cli[c].id \in Ids
    PROVE  LET d == dir[cli[c].id] IN
           /\ d \in Inodes
           /\ Goto(c, "savewrite")
           /\ file' \in [Inodes -> Files]
           /\ file'[d].kind = "torn" /\ file'[d].pid = file[d].pid
           /\ file'[d].status = file[d].status
           /\ file'[d].open = file[d].open \union {c}
           /\ \A e \in Inodes : e # d => file'[e] = file[e]
<1> DEFINE d == dir[cli[c].id]
<1>1. d \in Inodes /\ file \in [Inodes -> Files]
  BY DEF TypeOK, FsType
<1>2. Goto(c, "savewrite") /\ file' = Opened(file, d, c)
  BY DEF SaveOpen, Opened
<1> HIDE DEF d
<1>3. /\ file' \in [Inodes -> Files]
      /\ file'[d].kind = "torn" /\ file'[d].pid = file[d].pid
      /\ file'[d].status = file[d].status
      /\ file'[d].open = file[d].open \union {c}
      /\ \A e \in Inodes : e # d => file'[e] = file[e]
  BY <1>1, <1>2, OpenedFiles
<1> QED BY <1>1, <1>2, <1>3 DEF d

\* saveState and destroy.
LEMMA SharedTypes ==
    ASSUME TypeOK, NEW c \in Clis, SharedStep(c)
    PROVE  TypeOK'
<1> USE LabelSets
<1>t. FsType /\ TapType /\ GateType /\ ProcType /\ CliType /\ CounterType
  BY DEF TypeOK
<1>c. /\ cli[c] \in CliRecords
      /\ cli[c].pc # "idle" => cli[c].id \in Ids
      /\ cli[c].ret \in RetLabels
  BY <1>t DEF CliType, CliRecords
<1>d. /\ AfterDestroy(cli[c]) \in Labels \ FdLabels
      /\ AfterRmFailure(cli[c]) \in Labels \ FdLabels
  BY <1>c DEF AfterDestroy, AfterRmFailure, EndLabels
<1>1. CASE SaveOpen(c)
  <2>1. CliType'
    BY <1>1, <1>t, <1>c, GotoType DEF SaveOpen, SharedLabels
  <2>2. FsType'
    <3>0. cli[c].id \in Ids /\ UNCHANGED <<dir, fifo, iso>>
      BY <1>1, <1>c DEF SaveOpen
    <3>1. CASE dir[cli[c].id] = 0
      BY <1>1, <3>0, <3>1, <1>t DEF SaveOpen, FsType
    <3>2. CASE dir[cli[c].id] # 0
      BY <1>1, <3>0, <3>2, <1>t, SavedOpen DEF FsType
    <3> QED BY <3>1, <3>2
  <2> QED BY <1>1, <2>1, <2>2, <1>t, Frame DEF SaveOpen, TypeOK
<1>2. CASE SaveWrite(c)
  <2>1. CliType'
    BY <1>2, <1>t, <1>c, GotoType DEF SaveWrite
  <2>2. Written(c) \in [Inodes -> Files]
    BY <1>t, <1>c DEF Written, FsType, Files, CliRecords
  <2>3. Closed(c) \in [Inodes -> Files]
    BY <1>t DEF Closed, FsType, Files
  <2>4. FsType'
    BY <1>2, <2>2, <2>3, <1>t DEF SaveWrite, FsType
  <2> QED BY <1>2, <2>1, <2>4, <1>t, Frame DEF SaveWrite, TypeOK
<1>3. CASE Destroy(c)
  <2> DEFINE r == [cli[c] EXCEPT !.pc = "rm", !.ret = "netdestroy",
                                 !.pid = 0, !.status = "stopped"]
  <2>1. cli[c].pc = "destroy" /\ cli' = [cli EXCEPT ![c] = r]
    BY <1>3, <1>t DEF Destroy, CliType
  <2>2. r \in CliRecords /\ r.pc = "rm" /\ r.id # NoId
    BY <1>c, <2>1 DEF CliRecords, SharedLabels, RetLabels, Statuses
  <2>3. CliType'
    BY <2>1, <2>2, <1>t, CliUpdate DEF FdLabels
  <2> QED BY <1>3, <2>3, <1>t, Frame DEF Destroy, TypeOK
<1>4. ASSUME NEW kept \in SUBSET {"file", "fifo", "iso"}, RemoveEntries(c, kept)
      PROVE  TypeOK'
  <2>1. CliType'
    BY <1>4, <1>t, <1>c, <1>d, GotoType DEF RemoveEntries, SharedLabels
  <2>2. NoFile \in Files
    BY DEF NoFile, Files, Statuses
  <2>3. FsType'
    BY <1>4, <2>2, <1>t DEF RemoveEntries, FsType
  <2> QED BY <1>4, <2>1, <2>3, <1>t, Frame DEF RemoveEntries, TypeOK
<1>5. CASE Rmdir(c)
  <2>1. CliType'
    BY <1>5, <1>t, <1>c, <1>d, GotoType DEF Rmdir
  <2>2. FsType'
    BY <1>5, <1>t DEF Rmdir, FsType
  <2> QED BY <1>5, <2>1, <2>2, <1>t, Frame DEF Rmdir, TypeOK
<1>6. CASE NetworkDestroy(c)
  <2>1. CliType'
    BY <1>6, <1>t, <1>d, GotoType DEF NetworkDestroy
  <2>2. TapType'
    BY <1>6, <1>t DEF NetworkDestroy, TapType
  <2> QED BY <1>6, <2>1, <2>2, <1>t, Frame DEF NetworkDestroy, TypeOK
<1> QED
  BY <1>1, <1>2, <1>3, <1>4, <1>5, <1>6 DEF SharedStep

\* The callers: invocation, exit and crash.
LEMMA CallerTypes ==
    ASSUME TypeOK, NEW c \in Clis,
           \/ \E m \in Commands, i \in Ids : Invoke(c, m, i)
           \/ Exit(c) \/ Crash(c)
    PROVE  TypeOK'
<1> USE LabelSets
<1>t. FsType /\ TapType /\ GateType /\ ProcType /\ CliType /\ CounterType
  BY DEF TypeOK
<1>i. IdleCli \in CliRecords /\ IdleCli.pc = "idle"
  BY DEF IdleCli, CliRecords, Labels, RetLabels, Commands, Statuses
<1>1. ASSUME NEW m \in Commands, NEW i \in Ids, Invoke(c, m, i)
      PROVE  TypeOK'
  <2> DEFINE l == IF m = "create" THEN "spec" ELSE "load"
             n == IF m = "create" THEN creates + 1 ELSE 0
             r == [IdleCli EXCEPT !.pc = l, !.cmd = m, !.id = i, !.num = n]
  <2>u. /\ calls < MaxCalls /\ calls' = calls + 1
        /\ m = "create" => creates < MaxCreates
        /\ creates' = IF m = "create" THEN creates + 1 ELSE creates
        /\ UNCHANGED <<crashes, others>>
    BY <1>1 DEF Invoke
  <2>1. n \in Inodes \union {0}
    BY <2>u, <1>t DEF Inodes, CounterType
  <2>2. r \in CliRecords /\ r.pc \notin FdLabels /\ r.id # NoId
    <3>1. l \in Labels \ FdLabels
      BY DEF CreateLabels, LoadLabels, FdLabels
    <3>2. i # NoId
      BY IdAssumption
    <3> HIDE DEF l, n
    <3> QED BY <1>i, <2>1, <3>1, <3>2 DEF CliRecords
  <2>3. CliType'
    BY <1>1, <2>2, <1>t, CliUpdate DEF Invoke
  <2>4. CounterType'
    BY <2>u, <1>t DEF CounterType
  <2> QED BY <1>1, <2>3, <2>4, <1>t, Frame DEF Invoke, TypeOK
<1>2. CASE Exit(c)
  <2>1. CliType'
    BY <1>2, <1>i, <1>t, CliUpdate DEF Exit, FdLabels
  <2> QED BY <1>2, <2>1, <1>t, Frame DEF Exit, TypeOK
<1>3. CASE Crash(c)
  <2>1. CliType'
    BY <1>3, <1>i, <1>t, CliUpdate DEF Crash, FdLabels
  <2>2. FsType'
    <3>1. ASSUME NEW d \in Inodes PROVE [file[d] EXCEPT !.open = @ \ {c}] \in Files
      BY <1>t DEF FsType, Files
    <3>2. file' \in [Inodes -> Files]
      BY <1>3, <3>1 DEF Crash, Closed
    <3> QED BY <1>3, <1>t, <3>2 DEF Crash, FsType
  <2>3. GateType' /\ CounterType'
    BY <1>3, <1>t DEF Crash, GateType, CounterType
  <2> QED BY <1>3, <2>1, <2>2, <2>3, <1>t, Frame DEF Crash, TypeOK
<1> QED
  BY <1>1, <1>2, <1>3

\* The init processes, the reaper and the other processes of the machine.
LEMMA ProcTypes ==
    ASSUME TypeOK, NEW p \in Pids, ProcStep(p)
    PROVE  TypeOK'
<1>t. FsType /\ TapType /\ GateType /\ ProcType /\ CliType /\ CounterType
  BY DEF TypeOK
<1>n. /\ NoProc \in Procs /\ NoProc.st \notin InitStates
      /\ OtherProc \in Procs /\ OtherProc.st \notin InitStates
  BY DEF NoProc, OtherProc, Procs, InitStates
<1>r. ASSUME proc' \in {[proc EXCEPT ![p] = NoProc], [proc EXCEPT ![p] = OtherProc]}
      PROVE  ProcType'
  BY <1>r, <1>n, <1>t DEF ProcType, InitStates
<1>d. InitDies(p) => ProcType'
  BY <1>t DEF InitDies, ProcType, Procs, InitStates
<1>1. CASE InitSetup(p)
  <2> DEFINE f == fifo[proc[p].root]
  <2>1. CASE InitDies(p) /\ UNCHANGED cli
    BY <1>1, <1>d, <2>1, <1>t, Frame DEF InitSetup, TypeOK
  <2>2. CASE /\ f # 0
             /\ proc' = [proc EXCEPT ![p].st = "opening", ![p].fifo = f]
             /\ cli' = Woken(f)
    <3>1. proc[p].root \in Inodes
      BY <1>1, <1>t DEF InitSetup, ProcType, Procs, InitStates
    <3>2. f \in Inodes
      BY <2>2, <3>1, <1>t DEF FsType
    <3>3. ProcType'
      <4> HIDE DEF f
      <4>1. [proc[p] EXCEPT !.st = "opening", !.fifo = f] \in Procs
        BY <3>2, <1>t DEF ProcType, Procs, InitStates
      <4>2. proc' = [proc EXCEPT ![p] = [proc[p] EXCEPT !.st = "opening", !.fifo = f]]
        BY <2>2, <1>t DEF ProcType
      <4>3. [proc[p] EXCEPT !.st = "opening", !.fifo = f].root = proc[p].root
        BY <1>t DEF ProcType, Procs
      <4>4. [proc[p] EXCEPT !.st = "opening", !.fifo = f].fifo # 0
        BY <2>2, <1>t DEF ProcType, Procs
      <4>5. proc[p].root # 0
        BY <3>1 DEF Inodes
      <4> QED BY <4>1, <4>2, <4>3, <4>4, <4>5, <1>t DEF ProcType
    <3>4. CliType'
      BY <2>2, <1>t, LabelSets DEF Woken, CliType, CliRecords, LoadLabels
    <3> QED BY <1>1, <3>3, <3>4, <1>t, Frame DEF InitSetup, TypeOK
  <2> QED BY <1>1, <2>1, <2>2 DEF InitSetup
<1>2. CASE InitSetupFails(p)
  BY <1>2, <1>d, <1>t, Frame DEF InitSetupFails, TypeOK
<1>3. CASE InitOpened(p)
  <2>1. ProcType'
    BY <1>3, <1>t DEF InitOpened, ProcType, Procs, InitStates
  <2> QED BY <1>3, <2>1, <1>t, Frame DEF InitOpened, TypeOK
<1>4. CASE InitWrite(p)
  <2>1. proc[p].fifo \in Inodes
    BY <1>4, <1>t DEF InitWrite, ProcType, Procs
  <2>2. GateType'
    BY <1>4, <2>1, <1>t, Frame DEF InitWrite, GateType
  <2>3. ProcType'
    BY <1>4, <1>d, <1>t DEF InitWrite, ProcType, Procs, InitStates
  <2> QED BY <1>4, <2>2, <2>3, <1>t, Frame DEF InitWrite, TypeOK
<1>5. CASE InitLaunch(p)
  <2>1. ProcType'
    BY <1>5, <1>d, <1>t DEF InitLaunch, ProcType, Procs, InitStates
  <2> QED BY <1>5, <2>1, <1>t, Frame DEF InitLaunch, TypeOK
<1>6. CASE InitExit(p)
  BY <1>6, <1>d, <1>t, Frame DEF InitExit, TypeOK
<1>7. CASE Reap(p)
  BY <1>7, <1>r, <1>t, Frame DEF Reap, TypeOK
<1>8. CASE OtherSpawn(p)
  <2>1. CounterType'
    BY <1>8, <1>t DEF OtherSpawn, CounterType
  <2> QED BY <1>8, <2>1, <1>r, <1>t, Frame DEF OtherSpawn, TypeOK
<1>9. CASE OtherExit(p)
  BY <1>9, <1>r, <1>t, Frame DEF OtherExit, TypeOK
<1> QED
  BY <1>1, <1>2, <1>3, <1>4, <1>5, <1>6, <1>7, <1>8, <1>9 DEF ProcStep, InitStep

\* The initial state.
LEMMA InitType == Init => TypeOK
<1> SUFFICES ASSUME Init PROVE TypeOK
  OBVIOUS
<1>1. FsType
  BY DEF Init, FsType, NoFile, Files, Statuses
<1>2. TapType /\ GateType /\ CounterType
  BY DEF Init, TapType, GateType, CounterType
<1>3. ProcType
  BY DEF Init, ProcType, NoProc, Procs, InitStates
<1>4. CliType
  BY DEF Init, CliType, IdleCli, CliRecords, Labels, RetLabels, Commands, Statuses
<1> QED BY <1>1, <1>2, <1>3, <1>4 DEF TypeOK

\* Every variable keeps its type, for every value of the constants: in
\* particular an init process at the fifo always has a fifo, and the code
\* after a fork always has the directory it opened (container_nabla.go:194,
\* init_nabla.go:148).
THEOREM TypeCorrect == Spec => []TypeOK
<1>1. TypeOK /\ [Next]_vars => TypeOK'
  <2> SUFFICES ASSUME TypeOK, [Next]_vars PROVE TypeOK'
    OBVIOUS
  <2>1. CASE UNCHANGED vars
    BY <2>1, Frame DEF vars, TypeOK
  <2>2. CASE Next
    BY <2>2, CreateTypes, LoadTypes, SharedTypes, CallerTypes, ProcTypes
       DEF Next, CliStep
  <2> QED BY <2>1, <2>2
<1> QED BY <1>1, InitType, PTL DEF Spec

---------------------------------------------------------------------------
(* No signal to the own process group.                                     *)

FilePids == \A d \in Inodes : file[d].kind = "ok" => file[d].pid # 0
CliPids == \A c \in Clis : PidOK(cli[c])

\* A new record for one command, or a move to another label.
LEMMA PidUpdate ==
    ASSUME CliType, CliPids, NEW c \in Clis, NEW r, PidOK(r),
           cli' = [cli EXCEPT ![c] = r]
    PROVE  CliPids'
BY DEF CliType, CliPids, PidOK

LEMMA PidGoto ==
    ASSUME CliType, CliPids, NEW c \in Clis, NEW l, Goto(c, l),
           l \in HoldsPid => cli[c].pid # 0,
           l \in {"rm", "rmdir"} => cli[c].ret \in {"netdestroy", "err"}
    PROVE  CliPids'
<1>1. cli' = [cli EXCEPT ![c] = [cli[c] EXCEPT !.pc = l]]
  BY DEF Goto, CliType
<1>2. PidOK([cli[c] EXCEPT !.pc = l])
  BY DEF PidOK, CliType, CliRecords
<1> QED BY <1>1, <1>2, PidUpdate

\* The steps of create: state.json is not touched, and the only label that
\* uses the pid is saveState, right after the fork.
LEMMA CreatePids ==
    ASSUME TypeOK, PidKnown, NEW c \in Clis, CreateStep(c)
    PROVE  PidKnown'
<1> USE DEF HoldsPid, Signalling
<1>t. CliType /\ FilePids /\ CliPids
  BY DEF TypeOK, PidKnown, FilePids, CliPids
<1>f. UNCHANGED file => FilePids'
  BY <1>t DEF FilePids
<1>1. CASE CreateSpec(c)
  BY <1>1, <1>t, <1>f, PidGoto DEF CreateSpec, PidKnown, FilePids, CliPids, fsVars
<1>2. CASE CreateStat(c)
  BY <1>2, <1>t, <1>f, PidGoto DEF CreateStat, PidKnown, FilePids, CliPids, fsVars
<1>3. CASE CreateMkdir(c)
  BY <1>3, <1>t, <1>f, PidGoto DEF CreateMkdir, PidKnown, FilePids, CliPids
<1>4. CASE CreateMkfifo(c)
  BY <1>4, <1>t, <1>f, PidGoto DEF CreateMkfifo, PidKnown, FilePids, CliPids
<1>5. CASE CreateFs(c)
  BY <1>5, <1>t, <1>f, PidGoto DEF CreateFs, PidKnown, FilePids, CliPids
<1>6. CASE CreateNet(c)
  BY <1>6, <1>t, <1>f, PidGoto DEF CreateNet, PidKnown, FilePids, CliPids, fsVars
<1>7. CASE SetupIO(c)
  BY <1>7, <1>t, <1>f, PidGoto DEF SetupIO, PidKnown, FilePids, CliPids, fsVars
<1>8. CASE StartOpenRoot(c)
  <2> DEFINE r == [cli[c] EXCEPT !.pc = "fork", !.fd = dir[cli[c].id]]
  <2>1. PidOK(r)
    BY <1>t DEF PidOK, CliType, CliRecords
  <2>2. Goto(c, "destroy") \/ cli' = [cli EXCEPT ![c] = r]
    BY <1>8, <1>t DEF StartOpenRoot, CliType
  <2>3. CliPids'
    BY <2>1, <2>2, <1>t, PidUpdate, PidGoto
  <2> QED BY <1>8, <2>3, <1>f DEF StartOpenRoot, PidKnown, FilePids, CliPids, fsVars
<1>9. CASE StartFork(c)
  <2>1. \A p \in Pids, l \in {"saveopen", "destroy"} : PidOK(Forked(cli[c], p, l))
    BY <1>t DEF PidOK, Forked, CliType, CliRecords
  <2>2. \/ Goto(c, "destroy")
        \/ \E p \in Pids, l \in {"saveopen", "destroy"} :
             cli' = [cli EXCEPT ![c] = Forked(cli[c], p, l)]
    BY <1>9 DEF StartFork
  <2>3. CliPids'
    BY <2>1, <2>2, <1>t, PidUpdate, PidGoto
  <2> QED BY <1>9, <2>3, <1>f DEF StartFork, PidKnown, FilePids, CliPids, fsVars
<1>10. CASE CreatePidFile(c)
  BY <1>10, <1>t, <1>f, PidGoto DEF CreatePidFile, PidKnown, FilePids, CliPids, fsVars
<1>11. CASE AdjustOomScore(c)
  BY <1>11, <1>t, <1>f, PidGoto DEF AdjustOomScore, PidKnown, FilePids, CliPids, fsVars
<1>12. CASE Terminate(c)
  <2> DEFINE r == [cli[c] EXCEPT !.pc = "destroy", !.child = 0]
  <2>1. PidOK(r)
    BY <1>t DEF PidOK, CliType, CliRecords
  <2>2. cli' = [cli EXCEPT ![c] = r]
    BY <1>12, <1>t DEF Terminate, CliType
  <2>3. CliPids'
    BY <2>1, <2>2, <1>t, PidUpdate
  <2> QED BY <1>12, <2>3, <1>f DEF Terminate, PidKnown, FilePids, CliPids, fsVars
<1> QED
  BY <1>1, <1>2, <1>3, <1>4, <1>5, <1>6, <1>7, <1>8, <1>9, <1>10, <1>11, <1>12
     DEF CreateStep

\* The commands that load a container take the pid from a complete record
\* and keep it while they probe, save, open the fifo, signal and poll.
LEMMA LoadPids ==
    ASSUME TypeOK, PidKnown, NEW c \in Clis, LoadStep(c)
    PROVE  PidKnown'
<1>t. CliType /\ FsType /\ FilePids /\ CliPids /\ PidOK(cli[c])
  BY DEF TypeOK, PidKnown, FilePids, CliPids
<1>f. UNCHANGED file => FilePids'
  BY <1>t DEF FilePids
<1>h. cli[c].pc \in HoldsPid => cli[c].pid # 0
  BY <1>t DEF PidOK
<1>1. CASE Load(c)
  <2> DEFINE state == FileAt(cli[c].id)
             gone == [cli[c] EXCEPT !.pc = "rm", !.ret = "err"]
             loaded == [cli[c] EXCEPT !.pc = AfterLoad(cli[c].cmd),
                                      !.pid = state.pid, !.status = state.status]
  <2>1. cli[c].id \in Ids
    BY <1>1, <1>t DEF Load, CliType, CliRecords
  <2>2. state.kind = "ok" => state.pid # 0
    BY <2>1, <1>t DEF FileAt, NoFile, FilePids, FsType
  <2>3. PidOK(gone) /\ (state.kind = "ok" => PidOK(loaded))
    BY <2>2, <1>t DEF PidOK, AfterLoad, CliType, CliRecords, HoldsPid, Signalling
  <2>4. \/ cli' = [cli EXCEPT ![c] = gone]
        \/ state.kind = "ok" /\ cli' = [cli EXCEPT ![c] = loaded]
        \/ Goto(c, "err")
    BY <1>1, <1>t DEF Load, CliType
  <2>5. CliPids'
    BY <2>3, <2>4, <1>t, PidUpdate, PidGoto DEF HoldsPid, Signalling
  <2> QED BY <1>1, <2>5, <1>f DEF Load, PidKnown, FilePids, CliPids, fsVars
<1>2. CASE Probe(c)
  <2>1. cli[c].pid # 0
    BY <1>2, <1>h DEF Probe, HoldsPid, Signalling
  <2>2. ASSUME NEW l \in AfterStatus(cli[c], cli[c].status), Goto(c, l)
        PROVE  CliPids'
    <3>1. l \notin {"rm", "rmdir"}
      BY <2>2 DEF AfterStatus, StartSwitch, StateSwitch, DeleteSwitch
    <3> QED BY <2>1, <2>2, <3>1, <1>t, PidGoto
  <2>3. ASSUME NEW l, cli' = [cli EXCEPT ![c].pc = "saveopen", ![c].ret = l,
                                         ![c].status = "stopped"]
        PROVE  CliPids'
    <3> DEFINE r == [cli[c] EXCEPT !.pc = "saveopen", !.ret = l, !.status = "stopped"]
    <3>1. PidOK(r)
      BY <2>1, <1>t DEF PidOK, CliType, CliRecords
    <3>2. cli' = [cli EXCEPT ![c] = r]
      BY <2>3, <1>t DEF CliType
    <3> QED BY <3>1, <3>2, <1>t, PidUpdate
  <2>4. CliPids'
    BY <1>2, <2>2, <2>3 DEF Probe
  <2> QED BY <1>2, <2>4, <1>f DEF Probe, PidKnown, FilePids, CliPids, fsVars
<1>3. CASE ExecOpen(c)
  <2> DEFINE f == FifoAt(cli[c].id)
             l == IF Writers(f) = {} THEN "blocked" ELSE "read"
             r == [cli[c] EXCEPT !.fd = f, !.pc = l]
  <2>1. cli[c].pid # 0
    BY <1>3, <1>h DEF ExecOpen, HoldsPid
  <2>2. PidOK(r)
    BY <2>1, <1>t DEF PidOK, CliType, CliRecords
  <2>3. Goto(c, "err") \/ cli' = [cli EXCEPT ![c] = r]
    BY <1>3, <1>t DEF ExecOpen, CliType
  <2>4. CliPids'
    BY <2>2, <2>3, <1>t, PidUpdate, PidGoto DEF HoldsPid, Signalling
  <2> QED BY <1>3, <2>4, <1>f DEF ExecOpen, PidKnown, FilePids, CliPids, fsVars
<1>4. CASE ExecRead(c)
  <2>1. cli[c].pid # 0
    BY <1>4, <1>h DEF ExecRead, HoldsPid
  <2>2. PidOK(Started(cli[c]))
    BY <2>1, <1>t DEF PidOK, Started, CliType, CliRecords
  <2>3. cli' = [cli EXCEPT ![c] = Started(cli[c])] \/ Goto(c, "err")
    BY <1>4 DEF ExecRead
  <2>4. CliPids'
    BY <2>2, <2>3, <1>t, PidUpdate, PidGoto DEF HoldsPid, Signalling
  <2> QED BY <1>4, <2>4, <1>f DEF ExecRead, PidKnown, FilePids, CliPids, fsVars
<1>5. CASE ExecRemove(c)
  BY <1>5, <1>t, <1>f, PidGoto
     DEF ExecRemove, PidKnown, FilePids, CliPids, HoldsPid, Signalling
<1>6. CASE Signal(c)
  BY <1>6, <1>t, <1>f, PidGoto
     DEF Signal, PidKnown, FilePids, CliPids, fsVars, HoldsPid, Signalling
<1>7. CASE SigKill(c)
  BY <1>7, <1>t, <1>f, <1>h, PidGoto
     DEF SigKill, PidKnown, FilePids, CliPids, fsVars, HoldsPid, Signalling
<1>8. CASE Poll(c)
  BY <1>8, <1>t, <1>f, PidGoto
     DEF Poll, PidKnown, FilePids, CliPids, fsVars, HoldsPid, Signalling
<1> QED
  BY <1>1, <1>2, <1>3, <1>4, <1>5, <1>6, <1>7, <1>8 DEF LoadStep

\* saveState writes a known pid; destroy, which clears it, never comes back
\* to saveState.
LEMMA SharedPids ==
    ASSUME TypeOK, PidKnown, NEW c \in Clis, SharedStep(c)
    PROVE  PidKnown'
<1>t. CliType /\ FsType /\ FilePids /\ CliPids /\ PidOK(cli[c])
  BY DEF TypeOK, PidKnown, FilePids, CliPids
<1>f. UNCHANGED file => FilePids'
  BY <1>t DEF FilePids
<1>r. /\ cli[c].ret \in RetLabels
      /\ RetLabels \intersect {"rm", "rmdir"} = {}
  BY <1>t DEF CliType, CliRecords, RetLabels
<1>p. cli[c].pc \in {"saveopen", "savewrite"} => cli[c].pid # 0
  BY <1>t DEF PidOK, HoldsPid
<1>q. cli[c].pc \in {"rm", "rmdir"} =>
        /\ cli[c].ret \in {"netdestroy", "err"}
        /\ AfterRmFailure(cli[c]) \in {"undone", "ok", "err"}
  BY <1>t DEF PidOK, AfterRmFailure, AfterDestroy
<1>1. CASE SaveOpen(c)
  <2>1. CliPids'
    BY <1>1, <1>t, <1>r, <1>p, PidGoto DEF SaveOpen
  <2>2. FilePids'
    <3>0. cli[c].id \in Ids
      BY <1>1, <1>t DEF SaveOpen, CliType, CliRecords
    <3>1. CASE dir[cli[c].id] = 0
      BY <1>1, <3>1, <1>f DEF SaveOpen
    <3>2. CASE dir[cli[c].id] # 0
      BY <1>1, <3>0, <3>2, <1>t, SavedOpen DEF FilePids
    <3> QED BY <3>1, <3>2
  <2> QED BY <2>1, <2>2 DEF PidKnown, FilePids, CliPids
<1>2. CASE SaveWrite(c)
  <2>1. CliPids'
    BY <1>2, <1>t, <1>r, <1>p, PidGoto DEF SaveWrite
  <2>2. FilePids'
    BY <1>2, <1>t, <1>p DEF SaveWrite, Written, Closed, FilePids, FsType, Files
  <2> QED BY <2>1, <2>2 DEF PidKnown, FilePids, CliPids
<1>3. CASE Destroy(c)
  <2> DEFINE r == [cli[c] EXCEPT !.pc = "rm", !.ret = "netdestroy",
                                 !.pid = 0, !.status = "stopped"]
  <2>1. PidOK(r)
    BY <1>t DEF PidOK, CliType, CliRecords, HoldsPid, Signalling
  <2>2. cli' = [cli EXCEPT ![c] = r]
    BY <1>3, <1>t DEF Destroy, CliType
  <2>3. CliPids'
    BY <2>1, <2>2, <1>t, PidUpdate
  <2> QED BY <1>3, <2>3, <1>f DEF Destroy, PidKnown, FilePids, CliPids, fsVars
<1>4. ASSUME NEW kept \in SUBSET {"file", "fifo", "iso"}, RemoveEntries(c, kept)
      PROVE  PidKnown'
  <2>1. CliPids'
    BY <1>4, <1>t, <1>q, PidGoto DEF RemoveEntries, HoldsPid, Signalling
  <2>2. FilePids'
    BY <1>4, <1>t DEF RemoveEntries, FilePids, FsType, NoFile
  <2> QED BY <2>1, <2>2 DEF PidKnown, FilePids, CliPids
<1>5. CASE Rmdir(c)
  <2>1. CliPids'
    BY <1>5, <1>t, <1>q, PidGoto DEF Rmdir, HoldsPid, Signalling
  <2> QED BY <1>5, <2>1, <1>f DEF Rmdir, PidKnown, FilePids, CliPids
<1>6. CASE NetworkDestroy(c)
  <2>1. AfterDestroy(cli[c]) \in {"undone", "ok"}
    BY DEF AfterDestroy
  <2>2. CliPids'
    BY <1>6, <2>1, <1>t, PidGoto DEF NetworkDestroy, HoldsPid, Signalling
  <2> QED BY <1>6, <2>2, <1>f DEF NetworkDestroy, PidKnown, FilePids, CliPids, fsVars
<1> QED
  BY <1>1, <1>2, <1>3, <1>4, <1>5, <1>6 DEF SharedStep

\* Callers and processes: a command starts, ends or wakes up.
LEMMA OtherPids ==
    ASSUME TypeOK, PidKnown,
           \/ \E c \in Clis : \/ \E m \in Commands, i \in Ids : Invoke(c, m, i)
                              \/ Exit(c) \/ Crash(c)
           \/ \E p \in Pids : ProcStep(p)
    PROVE  PidKnown'
<1>t. CliType /\ FsType /\ FilePids /\ CliPids
  BY DEF TypeOK, PidKnown, FilePids, CliPids
<1>f. UNCHANGED file => FilePids'
  BY <1>t DEF FilePids
<1>i. PidOK(IdleCli)
  BY DEF PidOK, IdleCli, HoldsPid, Signalling
<1>1. ASSUME NEW c \in Clis, NEW m \in Commands, NEW i \in Ids, Invoke(c, m, i)
      PROVE  PidKnown'
  <2> DEFINE l == IF m = "create" THEN "spec" ELSE "load"
             r == [IdleCli EXCEPT !.pc = l, !.cmd = m, !.id = i,
                                  !.num = IF m = "create" THEN creates + 1 ELSE 0]
  <2>1. PidOK(r)
    BY DEF PidOK, IdleCli, HoldsPid, Signalling
  <2>2. CliPids'
    BY <1>1, <2>1, <1>t, PidUpdate DEF Invoke
  <2> QED BY <1>1, <2>2, <1>f DEF Invoke, PidKnown, FilePids, CliPids, fsVars
<1>2. ASSUME NEW c \in Clis, Exit(c)
      PROVE  PidKnown'
  <2>1. CliPids'
    BY <1>2, <1>i, <1>t, PidUpdate DEF Exit
  <2> QED BY <1>2, <2>1, <1>f DEF Exit, PidKnown, FilePids, CliPids, fsVars
<1>3. ASSUME NEW c \in Clis, Crash(c)
      PROVE  PidKnown'
  <2>1. CliPids'
    BY <1>3, <1>i, <1>t, PidUpdate DEF Crash
  <2>2. FilePids'
    BY <1>3, <1>t DEF Crash, Closed, FilePids, FsType, Files
  <2> QED BY <2>1, <2>2 DEF PidKnown, FilePids, CliPids
<1>4. ASSUME NEW p \in Pids, InitSetup(p)
      PROVE  PidKnown'
  <2>1. \A f : cli' = Woken(f) => CliPids'
    BY <1>t DEF Woken, CliPids, PidOK, CliType, CliRecords, HoldsPid
  <2>2. UNCHANGED cli => CliPids'
    BY <1>t DEF CliPids, PidOK
  <2> QED BY <1>4, <2>1, <2>2, <1>f DEF InitSetup, PidKnown, FilePids, CliPids, fsVars
<1>5. ASSUME UNCHANGED <<file, cli>>
      PROVE  PidKnown'
  BY <1>5 DEF PidKnown, PidOK
<1>6. ASSUME NEW p \in Pids, ProcStep(p), ~InitSetup(p)
      PROVE  UNCHANGED <<file, cli>>
  BY <1>6 DEF ProcStep, InitStep, InitSetupFails, InitOpened, InitWrite,
              InitLaunch, InitExit, Reap, OtherSpawn, OtherExit, fsVars
<1> QED
  BY <1>1, <1>2, <1>3, <1>4, <1>5, <1>6

\* The pid is known wherever it is used.
LEMMA PidsKnown == Spec => []PidKnown
<1>1. Init => PidKnown
  BY DEF Init, PidKnown, NoFile, PidOK, IdleCli, HoldsPid, Signalling
<1>2. TypeOK /\ PidKnown /\ [Next]_vars => PidKnown'
  <2> SUFFICES ASSUME TypeOK, PidKnown, [Next]_vars PROVE PidKnown'
    OBVIOUS
  <2>1. CASE UNCHANGED vars
    BY <2>1 DEF vars, fsVars, PidKnown, PidOK
  <2>2. CASE Next
    BY <2>2, CreatePids, LoadPids, SharedPids, OtherPids DEF Next, CliStep
  <2> QED BY <2>1, <2>2
<1> QED BY <1>1, <1>2, TypeCorrect, PTL DEF Spec

\* No command ever probes or signals pid 0, the caller's own process group,
\* and state.json never records it, although destroy sets the in-memory pid
\* to 0 (container_nabla.go:141, 273, 376): for every number of containers
\* and commands, with every fault and crash.
THEOREM SafeSignals == Spec => []NoSignalToOwnGroup
<1>1. PidKnown => NoSignalToOwnGroup
  BY DEF PidKnown, PidOK, NoSignalToOwnGroup, HoldsPid
<1> QED BY <1>1, PidsKnown, PTL

---------------------------------------------------------------------------
(* One start per byte.                                                     *)

\* Only init's write and start's read, or the loss of a byte with the
\* command that could have read it, touch the gate.
LEMMA GateUntouched ==
    ASSUME NEW c \in Clis,
           \/ CreateStep(c) \/ SharedStep(c) \/ Exit(c)
           \/ LoadStep(c) /\ ~ExecRead(c)
           \/ \E m \in Commands, i \in Ids : Invoke(c, m, i)
    PROVE  UNCHANGED gateVars
<1>1. CASE CreateStep(c)
  BY <1>1 DEF CreateStep, CreateSpec, CreateStat, CreateMkdir, CreateMkfifo,
              CreateFs, CreateNet, SetupIO, StartOpenRoot, StartFork,
              CreatePidFile, AdjustOomScore, Terminate
<1>2. CASE SharedStep(c)
  BY <1>2 DEF SharedStep, SaveOpen, SaveWrite, Destroy, RemoveEntries, Rmdir,
              NetworkDestroy
<1>3. CASE LoadStep(c) /\ ~ExecRead(c)
  BY <1>3 DEF LoadStep, Load, Probe, ExecOpen, ExecRemove, Signal, SigKill, Poll
<1>4. CASE Exit(c) \/ \E m \in Commands, i \in Ids : Invoke(c, m, i)
  BY <1>4 DEF Exit, Invoke
<1> QED BY <1>1, <1>2, <1>3, <1>4

\* Each successful start answers one byte that an init process wrote, for
\* every number of starts, deletions and re-creations
\* (container_nabla.go:259-269, init_nabla.go:148-155).
THEOREM StartsAnswerGates == Spec => []OneStartPerGate
<1>1. Init => OneStartPerGate
  BY DEF Init, OneStartPerGate
<1>2. TypeOK /\ OneStartPerGate /\ [Next]_vars => OneStartPerGate'
  <2> SUFFICES ASSUME TypeOK, OneStartPerGate, [Next]_vars PROVE OneStartPerGate'
    OBVIOUS
  <2>g. GateType
    BY DEF TypeOK
  <2>u. UNCHANGED gateVars => OneStartPerGate'
    BY DEF gateVars, OneStartPerGate
  <2>1. ASSUME NEW c \in Clis, ExecRead(c)
        PROVE  OneStartPerGate'
    <3> DEFINE f == cli[c].fd
    <3>1. CASE f \in byte /\ byte' = byte \ {f} /\ wins' = [wins EXCEPT ![f] = @ + 1]
      BY <2>1, <3>1, <2>g DEF ExecRead, OneStartPerGate, GateType
    <3>2. CASE UNCHANGED <<byte, wins>>
      BY <2>1, <3>2, <2>u DEF ExecRead, gateVars
    <3> QED BY <2>1, <3>1, <3>2 DEF ExecRead
  <2>2. ASSUME NEW c \in Clis, Crash(c)
        PROVE  OneStartPerGate'
    <3>1. byte' \subseteq byte /\ UNCHANGED <<puts, wins>>
      BY <2>2 DEF Crash
    <3> QED BY <3>1, <2>g DEF OneStartPerGate, GateType
  <2>3. ASSUME NEW p \in Pids, InitWrite(p)
        PROVE  OneStartPerGate'
    <3> DEFINE f == proc[p].fifo
    <3>1. CASE /\ byte' = byte \union {f}
               /\ puts' = [puts EXCEPT ![f] = @ + 1]
               /\ UNCHANGED wins
      <4>1. f \in Inodes
        BY <2>3 DEF InitWrite, TypeOK, ProcType, Procs
      <4> QED BY <3>1, <4>1, <2>g DEF OneStartPerGate, GateType
    <3> QED BY <2>3, <3>1, <2>u DEF InitWrite
  <2>4. ASSUME NEW p \in Pids, ProcStep(p), ~InitWrite(p)
        PROVE  UNCHANGED gateVars
    BY <2>4 DEF ProcStep, InitStep, InitSetup, InitSetupFails, InitOpened,
                InitLaunch, InitExit, Reap, OtherSpawn, OtherExit
  <2>5. CASE UNCHANGED vars
    BY <2>5, <2>u DEF vars, gateVars
  <2>6. CASE Next
    BY <2>6, <2>u, <2>1, <2>2, <2>3, <2>4, GateUntouched DEF Next, CliStep
  <2> QED BY <2>5, <2>6
<1> QED BY <1>1, <1>2, TypeCorrect, PTL DEF Spec

---------------------------------------------------------------------------
(* state.json.                                                             *)

\* Who touches state.json: a save opens it and writes it, RemoveAll removes
\* it, and a command that is killed closes it.
LEMMA FileUntouched ==
    ASSUME NEW c \in Clis,
           \/ CreateStep(c) \/ LoadStep(c) \/ Exit(c)
           \/ Destroy(c) \/ Rmdir(c) \/ NetworkDestroy(c)
           \/ \E m \in Commands, i \in Ids : Invoke(c, m, i)
    PROVE  UNCHANGED file
<1>1. CASE CreateStep(c)
  BY <1>1 DEF CreateStep, CreateSpec, CreateStat, CreateMkdir, CreateMkfifo,
              CreateFs, CreateNet, SetupIO, StartOpenRoot, StartFork,
              CreatePidFile, AdjustOomScore, Terminate, fsVars
<1>2. CASE Destroy(c) \/ Rmdir(c) \/ NetworkDestroy(c)
  BY <1>2 DEF Destroy, Rmdir, NetworkDestroy, fsVars
<1>3. CASE LoadStep(c)
  BY <1>3 DEF LoadStep, Load, Probe, ExecOpen, ExecRead, ExecRemove, Signal,
              SigKill, Poll, fsVars
<1>4. CASE Exit(c) \/ \E m \in Commands, i \in Ids : Invoke(c, m, i)
  BY <1>4 DEF Exit, Invoke, fsVars
<1> QED BY <1>1, <1>2, <1>3, <1>4

\* Without crashes and failing writes an unreadable state.json is always
\* being written, however many commands save it at the same time and whoever
\* removes it meanwhile (container_nabla.go:395-402): it becomes readable
\* again.
THEOREM TornIsTransient ==
    ASSUME "save" \notin Faults, MaxCrashes = 0
    PROVE  Spec => []TornOnlyWhileSaving
<1>1. Init => TornOnlyWhileSaving
  BY DEF Init, TornOnlyWhileSaving, NoFile
<1>2. TypeOK /\ TornOnlyWhileSaving /\ [Next]_vars => TornOnlyWhileSaving'
  <2> SUFFICES ASSUME TypeOK, TornOnlyWhileSaving, [Next]_vars
               PROVE  TornOnlyWhileSaving'
    OBVIOUS
  <2>f. file \in [Inodes -> Files] /\ crashes = 0
    BY DEF TypeOK, FsType, CounterType
  <2>u. UNCHANGED file => TornOnlyWhileSaving'
    BY DEF TornOnlyWhileSaving
  <2>1. ASSUME NEW c \in Clis, SaveOpen(c) PROVE TornOnlyWhileSaving'
    <3>0. cli[c].id \in Ids
      BY <2>1 DEF SaveOpen, TypeOK, CliType, CliRecords
    <3>1. CASE dir[cli[c].id] = 0
      BY <2>1, <3>1, <2>u DEF SaveOpen
    <3>2. CASE dir[cli[c].id] # 0
      BY <2>1, <3>0, <3>2, SavedOpen DEF TornOnlyWhileSaving
    <3> QED BY <3>1, <3>2
  <2>2. ASSUME NEW c \in Clis, SaveWrite(c) PROVE TornOnlyWhileSaving'
    <3>1. file' = Written(c)
      BY <2>2 DEF SaveWrite
    <3>2. ASSUME NEW d \in Inodes, file'[d].kind = "torn"
          PROVE  c \notin file[d].open /\ file'[d] = file[d]
      BY <3>1, <3>2 DEF Written
    <3> QED BY <3>2 DEF TornOnlyWhileSaving
  <2>3. ASSUME NEW c \in Clis, NEW kept \in SUBSET {"file", "fifo", "iso"},
               RemoveEntries(c, kept)
        PROVE  TornOnlyWhileSaving'
    BY <2>3, <2>f DEF RemoveEntries, TornOnlyWhileSaving, NoFile
  <2>4. ASSUME NEW c \in Clis, Crash(c) PROVE FALSE
    BY <2>4, <2>f DEF Crash
  <2>5. ASSUME NEW p \in Pids, ProcStep(p) PROVE UNCHANGED file
    BY <2>5 DEF ProcStep, InitStep, InitSetup, InitSetupFails, InitOpened,
                InitWrite, InitLaunch, InitExit, Reap, OtherSpawn, OtherExit, fsVars
  <2>6. CASE UNCHANGED vars
    BY <2>6, <2>u DEF vars, fsVars
  <2>7. CASE Next
    BY <2>7, <2>u, <2>1, <2>2, <2>3, <2>4, <2>5, FileUntouched
       DEF Next, CliStep, SharedStep
  <2> QED BY <2>6, <2>7
<1> QED BY <1>1, <1>2, TypeCorrect, PTL DEF Spec

---------------------------------------------------------------------------
(* The runtime implements StartGate: every step of Runnc is a step of the  *)
(* gate or leaves it alone.                                                *)

AtGate == {"blocked", "read"}

There == [f \in Inodes |-> Readers(f)]

---------------------------------------------------------------------------
(* What a change of one command does to the starts at the gates.           *)

\* A command that is not at a gate and does not come to one.
LEMMA Elsewhere ==
    ASSUME CliType, NEW c \in Clis, NEW r,
           cli' = [cli EXCEPT ![c] = r],
           cli[c].pc \notin AtGate, r.pc \notin AtGate
    PROVE  There' = There
<1>1. \A o \in Clis : cli'[o] = IF o = c THEN r ELSE cli[o]
  BY DEF CliType
<1>2. \A f \in Inodes : Readers(f)' = Readers(f)
  BY <1>1 DEF Readers, AtGate
<1> QED BY <1>2 DEF There

LEMMA GotoElsewhere ==
    ASSUME CliType, NEW c \in Clis, NEW l,
           Goto(c, l), cli[c].pc \notin AtGate, l \notin AtGate
    PROVE  There' = There
<1>1. cli' = [cli EXCEPT ![c] = [cli[c] EXCEPT !.pc = l]]
  BY DEF Goto, CliType
<1>2. [cli[c] EXCEPT !.pc = l].pc = l
  BY DEF CliType, CliRecords
<1> QED BY <1>1, <1>2, Elsewhere

\* A start that comes to the gate f.
LEMMA Comes ==
    ASSUME CliType, NEW c \in Clis, NEW r, NEW f \in Inodes,
           cli' = [cli EXCEPT ![c] = r],
           cli[c].pc \notin AtGate, r.pc \in AtGate, r.fd = f
    PROVE  /\ \A g \in Inodes : c \notin There[g]
           /\ There' = [There EXCEPT ![f] = @ \union {c}]
<1>1. \A o \in Clis : cli'[o] = IF o = c THEN r ELSE cli[o]
  BY DEF CliType
<1>2. \A g \in Inodes : c \notin Readers(g)
  BY DEF Readers, AtGate
<1>3. \A g \in Inodes : Readers(g)' = IF g = f THEN Readers(g) \union {c}
                                               ELSE Readers(g)
  BY <1>1 DEF Readers, AtGate
<1> QED BY <1>2, <1>3 DEF There

\* A start that leaves the gate it is at.
LEMMA Leaves ==
    ASSUME CliType, NEW c \in Clis, NEW r,
           cli' = [cli EXCEPT ![c] = r],
           cli[c].pc \in AtGate, r.pc \notin AtGate
    PROVE  /\ cli[c].fd \in Inodes
           /\ c \in There[cli[c].fd]
           /\ There' = [There EXCEPT ![cli[c].fd] = @ \ {c}]
<1>1. \A o \in Clis : cli'[o] = IF o = c THEN r ELSE cli[o]
  BY DEF CliType
<1>2. cli[c].fd \in Inodes
  BY DEF CliType, CliRecords, AtGate
<1>3. c \in Readers(cli[c].fd)
  BY DEF Readers, AtGate
<1>4. \A g \in Inodes : Readers(g)' = IF g = cli[c].fd THEN Readers(g) \ {c}
                                                       ELSE Readers(g)
  BY <1>1 DEF Readers, AtGate
<1> QED BY <1>2, <1>3, <1>4 DEF There

---------------------------------------------------------------------------
(* The steps that leave the gates alone.                                   *)

LEMMA CreateElsewhere ==
    ASSUME TypeOK, NEW c \in Clis, CreateStep(c)
    PROVE  There' = There
<1>t. CliType
  BY DEF TypeOK
<1>1. ASSUME NEW l, Goto(c, l), cli[c].pc \notin AtGate, l \notin AtGate
      PROVE  There' = There
  BY <1>1, <1>t, GotoElsewhere
<1>2. CASE StartOpenRoot(c)
  <2> DEFINE r == [cli[c] EXCEPT !.pc = "fork", !.fd = dir[cli[c].id]]
  <2>1. Goto(c, "destroy") \/ cli' = [cli EXCEPT ![c] = r]
    BY <1>2, <1>t DEF StartOpenRoot, CliType
  <2>2. r.pc = "fork"
    BY <1>t DEF CliType, CliRecords
  <2>3. cli[c].pc \notin AtGate
    BY <1>2 DEF StartOpenRoot, AtGate
  <2> QED BY <2>1, <2>2, <2>3, <1>1, <1>t, Elsewhere DEF AtGate
<1>3. CASE StartFork(c)
  <2>1. \/ Goto(c, "destroy")
        \/ \E p \in Pids, l \in {"saveopen", "destroy"} :
             cli' = [cli EXCEPT ![c] = Forked(cli[c], p, l)]
    BY <1>3 DEF StartFork
  <2>2. cli[c].pc \notin AtGate
    BY <1>3 DEF StartFork, AtGate
  <2>3. ASSUME NEW p \in Pids, NEW l \in {"saveopen", "destroy"},
               cli' = [cli EXCEPT ![c] = Forked(cli[c], p, l)]
        PROVE  There' = There
    <3>1. Forked(cli[c], p, l).pc = l
      BY <1>t DEF Forked, CliType, CliRecords
    <3> QED BY <2>2, <2>3, <3>1, <1>t, Elsewhere DEF AtGate
  <2> QED BY <2>1, <2>2, <2>3, <1>1 DEF AtGate
<1>4. CASE Terminate(c)
  <2> DEFINE r == [cli[c] EXCEPT !.pc = "destroy", !.child = 0]
  <2>1. cli' = [cli EXCEPT ![c] = r] /\ cli[c].pc = "terminate"
    BY <1>4, <1>t DEF Terminate, CliType
  <2>2. r.pc = "destroy"
    BY <1>t DEF CliType, CliRecords
  <2> QED BY <2>1, <2>2, <1>t, Elsewhere DEF AtGate
<1>5. CASE \/ CreateSpec(c) \/ CreateStat(c) \/ CreateMkdir(c) \/ CreateMkfifo(c)
           \/ CreateFs(c) \/ CreateNet(c) \/ SetupIO(c) \/ CreatePidFile(c)
           \/ AdjustOomScore(c)
  <2>1. /\ cli[c].pc \notin AtGate
        /\ \E l \in {"stat", "err", "mkdir", "mkfifo", "fs", "net", "io",
                     "openroot", "destroy", "oom", "terminate", "ok"} : Goto(c, l)
    BY <1>5 DEF CreateSpec, CreateStat, CreateMkdir, CreateMkfifo, CreateFs,
                CreateNet, SetupIO, CreatePidFile, AdjustOomScore, AtGate
  <2> QED BY <2>1, <1>1 DEF AtGate
<1> QED BY <1>2, <1>3, <1>4, <1>5 DEF CreateStep

LEMMA SharedElsewhere ==
    ASSUME TypeOK, NEW c \in Clis, SharedStep(c)
    PROVE  There' = There
<1>t. CliType /\ cli[c].ret \in RetLabels
  BY DEF TypeOK, CliType, CliRecords
<1>1. RetLabels \intersect AtGate = {}
  BY DEF RetLabels, AtGate
<1>2. AfterDestroy(cli[c]) \notin AtGate /\ AfterRmFailure(cli[c]) \notin AtGate
  BY <1>t, <1>1 DEF AfterDestroy, AfterRmFailure, AtGate
<1>3. CASE Destroy(c)
  <2> DEFINE r == [cli[c] EXCEPT !.pc = "rm", !.ret = "netdestroy",
                                 !.pid = 0, !.status = "stopped"]
  <2>1. cli' = [cli EXCEPT ![c] = r] /\ cli[c].pc = "destroy"
    BY <1>3, <1>t DEF Destroy, CliType
  <2>2. r.pc = "rm"
    BY <1>t DEF CliType, CliRecords
  <2> QED BY <2>1, <2>2, <1>t, Elsewhere DEF AtGate
<1>4. CASE SharedStep(c) /\ ~Destroy(c)
  <2>1. /\ cli[c].pc \notin AtGate
        /\ \E l \in {"savewrite", "rmdir", cli[c].ret, AfterDestroy(cli[c]),
                     AfterRmFailure(cli[c])} : Goto(c, l)
    BY <1>4 DEF SharedStep, SaveOpen, SaveWrite, RemoveEntries, Rmdir,
                NetworkDestroy, AtGate
  <2> QED BY <2>1, <1>t, <1>1, <1>2, GotoElsewhere DEF AtGate
<1> QED BY <1>3, <1>4

LEMMA LoadElsewhere ==
    ASSUME TypeOK, NEW c \in Clis, LoadStep(c), ~ExecOpen(c), ~ExecRead(c)
    PROVE  There' = There
<1>t. CliType
  BY DEF TypeOK
<1>1. CASE Load(c)
  <2> DEFINE state == FileAt(cli[c].id)
             gone == [cli[c] EXCEPT !.pc = "rm", !.ret = "err"]
             loaded == [cli[c] EXCEPT !.pc = AfterLoad(cli[c].cmd),
                                      !.pid = state.pid, !.status = state.status]
  <2>1. \/ cli' = [cli EXCEPT ![c] = gone]
        \/ cli' = [cli EXCEPT ![c] = loaded]
        \/ Goto(c, "err")
    BY <1>1, <1>t DEF Load, CliType
  <2>2. gone.pc = "rm" /\ loaded.pc \in {"signal", "probe"}
    BY <1>t DEF CliType, CliRecords, AfterLoad
  <2>3. cli[c].pc = "load"
    BY <1>1 DEF Load
  <2> QED BY <2>1, <2>2, <2>3, <1>t, Elsewhere, GotoElsewhere DEF AtGate
<1>2. CASE Probe(c)
  <2>1. cli[c].pc \notin AtGate
    BY <1>2 DEF Probe, AtGate
  <2>2. \A s : AfterStatus(cli[c], s) \intersect AtGate = {}
    BY DEF AfterStatus, StartSwitch, StateSwitch, DeleteSwitch, AtGate
  <2>3. CASE \E l \in AfterStatus(cli[c], cli[c].status) : Goto(c, l)
    BY <2>1, <2>2, <2>3, <1>t, GotoElsewhere
  <2>4. ASSUME NEW l, cli' = [cli EXCEPT ![c].pc = "saveopen", ![c].ret = l,
                                         ![c].status = "stopped"]
        PROVE  There' = There
    <3> DEFINE r == [cli[c] EXCEPT !.pc = "saveopen", !.ret = l, !.status = "stopped"]
    <3>1. cli' = [cli EXCEPT ![c] = r]
      BY <2>4, <1>t DEF CliType
    <3>2. r.pc = "saveopen"
      BY <1>t DEF CliType, CliRecords
    <3> QED BY <3>1, <3>2, <2>1, <1>t, Elsewhere DEF AtGate
  <2> QED BY <1>2, <2>3, <2>4 DEF Probe
<1>3. CASE ExecRemove(c) \/ Signal(c) \/ SigKill(c) \/ Poll(c)
  <2>1. /\ cli[c].pc \notin AtGate
        /\ \E l \in {"ok", "err", "poll", "destroy"} : Goto(c, l)
    BY <1>3 DEF ExecRemove, Signal, SigKill, Poll, AtGate
  <2> QED BY <2>1, <1>t, GotoElsewhere DEF AtGate
<1> QED BY <1>1, <1>2, <1>3 DEF LoadStep

\* A command starts, or ends its work away from the gates.
LEMMA CallerElsewhere ==
    ASSUME TypeOK, NEW c \in Clis,
           \/ \E m \in Commands, i \in Ids : Invoke(c, m, i)
           \/ Exit(c)
    PROVE  There' = There
<1>t. CliType
  BY DEF TypeOK
<1>1. IdleCli.pc = "idle"
  BY DEF IdleCli
<1>2. CASE Exit(c)
  BY <1>1, <1>2, <1>t, Elsewhere DEF Exit, EndLabels, AtGate
<1>3. ASSUME NEW m \in Commands, NEW i \in Ids, Invoke(c, m, i)
      PROVE  There' = There
  <2> DEFINE r == [IdleCli EXCEPT !.pc = IF m = "create" THEN "spec" ELSE "load",
                                  !.cmd = m, !.id = i,
                                  !.num = IF m = "create" THEN creates + 1 ELSE 0]
  <2>1. cli' = [cli EXCEPT ![c] = r] /\ cli[c].pc = "idle"
    BY <1>3 DEF Invoke
  <2>2. r.pc \in {"spec", "load"}
    BY DEF IdleCli
  <2> QED BY <2>1, <2>2, <1>t, Elsewhere DEF AtGate
<1> QED BY <1>2, <1>3

\* Processes do not move the starts; waking up is not moving.
LEMMA ProcElsewhere ==
    ASSUME TypeOK, NEW p \in Pids, ProcStep(p)
    PROVE  There' = There
<1>t. CliType
  BY DEF TypeOK
<1>1. UNCHANGED cli => There' = There
  BY DEF There, Readers
<1>2. ASSUME NEW f, cli' = Woken(f)
      PROVE  There' = There
  <2>1. \A c \in Clis : /\ cli'[c].fd = cli[c].fd
                        /\ cli'[c].pc \in AtGate <=> cli[c].pc \in AtGate
    BY <1>2, <1>t DEF Woken, AtGate, CliType, CliRecords
  <2>2. \A g \in Inodes : Readers(g)' = Readers(g)
    BY <2>1 DEF Readers, AtGate
  <2> QED BY <2>2 DEF There
<1>3. UNCHANGED cli \/ \E f : cli' = Woken(f)
  BY DEF ProcStep, InitStep, InitSetup, InitSetupFails, InitOpened, InitWrite,
         InitLaunch, InitExit, Reap, OtherSpawn, OtherExit
<1> QED BY <1>1, <1>2, <1>3

---------------------------------------------------------------------------
(* The refinement.                                                         *)

\* A start opens the fifo.
LEMMA OpenComes ==
    ASSUME TypeOK, NEW c \in Clis, ExecOpen(c)
    PROVE  Gate!Next \/ There' = There
<1>t. CliType /\ FsType
  BY DEF TypeOK
<1> DEFINE f == FifoAt(cli[c].id)
           l == IF Writers(f) = {} THEN "blocked" ELSE "read"
           r == [cli[c] EXCEPT !.fd = f, !.pc = l]
<1>1. cli[c].pc = "openfifo" /\ UNCHANGED gateVars
  BY DEF ExecOpen
<1>2. CASE Goto(c, "err")
  BY <1>1, <1>2, <1>t, GotoElsewhere DEF AtGate
<1>3. CASE f # 0 /\ cli' = [cli EXCEPT ![c] = r]
  <2>1. cli[c].id \in Ids
    BY <1>1, <1>t DEF CliType, CliRecords
  <2>2. f \in Inodes
    BY <1>3, <1>t, <2>1, PathType
  <2>3. r.pc \in AtGate /\ r.fd = f
    <3>1. l \in AtGate
      BY DEF AtGate
    <3>2. cli[c] \in CliRecords
      BY <1>t DEF CliType
    <3> HIDE DEF f, l
    <3> QED BY <3>1, <3>2 DEF CliRecords
  <2>4. /\ \A g \in Inodes : c \notin There[g]
        /\ There' = [There EXCEPT ![f] = @ \union {c}]
    <3>1. cli[c].pc \notin AtGate
      BY <1>1 DEF AtGate
    <3>2. cli' = [cli EXCEPT ![c] = r]
      BY <1>3
    <3> HIDE DEF f, r
    <3> QED BY <3>1, <3>2, <2>2, <2>3, <1>t, Comes
  <2>5. Gate!Come(f, c)
    BY <2>4, <1>1 DEF Gate!Come, There, gateVars
  <2> QED BY <2>2, <2>5 DEF Gate!Next
<1> QED BY <1>2, <1>3, <1>t DEF ExecOpen, CliType

\* A start reads the fifo: it is answered, or leaves because there is no
\* byte.
LEMMA ReadLeaves ==
    ASSUME TypeOK, NEW c \in Clis, ExecRead(c)
    PROVE  Gate!Next
<1>t. CliType /\ GateType
  BY DEF TypeOK
<1> DEFINE f == cli[c].fd
<1>1. cli[c].pc = "read" /\ UNCHANGED puts
  BY DEF ExecRead
<1>2. CASE /\ f \in byte /\ byte' = byte \ {f}
           /\ wins' = [wins EXCEPT ![f] = @ + 1]
           /\ cli' = [cli EXCEPT ![c] = Started(cli[c])]
  <2>1. Started(cli[c]).pc = "saveopen"
    BY <1>t DEF Started, CliType, CliRecords
  <2>2. f \in Inodes /\ c \in There[f] /\ There' = [There EXCEPT ![f] = @ \ {c}]
    BY <1>1, <1>2, <2>1, <1>t, Leaves DEF AtGate
  <2>3. Gate!Answer(f, c)
    BY <1>1, <1>2, <2>2 DEF Gate!Answer, There
  <2> QED BY <2>2, <2>3 DEF Gate!Next
<1>3. CASE f \notin byte /\ Goto(c, "err") /\ UNCHANGED <<byte, wins>>
  <2> DEFINE r == [cli[c] EXCEPT !.pc = "err"]
  <2>1. cli' = [cli EXCEPT ![c] = r] /\ r.pc = "err"
    BY <1>3, <1>t DEF Goto, CliType, CliRecords
  <2>2. f \in Inodes /\ c \in There[f] /\ There' = [There EXCEPT ![f] = @ \ {c}]
    BY <1>1, <2>1, <1>t, Leaves DEF AtGate
  <2>3. byte' = byte \ {f}
    BY <1>3
  <2>4. Gate!Leave(f, c)
    BY <1>1, <1>3, <2>2, <2>3 DEF Gate!Leave, There
  <2> QED BY <2>2, <2>4 DEF Gate!Next
<1> QED BY <1>2, <1>3 DEF ExecRead

\* A command is killed, at the gate or elsewhere.
LEMMA CrashLeaves ==
    ASSUME TypeOK, NEW c \in Clis, Crash(c)
    PROVE  Gate!Next \/ (There' = There /\ UNCHANGED gateVars)
<1>t. CliType
  BY DEF TypeOK
<1>1. cli' = [cli EXCEPT ![c] = IdleCli] /\ UNCHANGED <<puts, wins>>
  BY DEF Crash
<1>2. IdleCli.pc = "idle"
  BY DEF IdleCli
<1>3. CASE cli[c].pc \notin AtGate
  <2>1. There' = There
    BY <1>1, <1>2, <1>3, <1>t, Elsewhere DEF AtGate
  <2>2. c \notin Readers(cli[c].fd) /\ cli[c].pc # "read"
    BY <1>3 DEF Readers, AtGate
  <2>3. UNCHANGED byte
    BY <2>2 DEF Crash
  <2> QED BY <1>1, <2>1, <2>3 DEF gateVars
<1>4. CASE cli[c].pc \in AtGate
  <2> DEFINE f == cli[c].fd
  <2>1. f \in Inodes /\ c \in There[f] /\ There' = [There EXCEPT ![f] = @ \ {c}]
    BY <1>1, <1>2, <1>4, <1>t, Leaves DEF AtGate
  <2>2. byte' = byte \ {f} \/ (There[f] # {c} /\ UNCHANGED byte)
    BY <2>1 DEF Crash, There
  <2>3. Gate!Leave(f, c)
    BY <1>1, <2>1, <2>2 DEF Gate!Leave, There
  <2> QED BY <2>1, <2>3 DEF Gate!Next
<1> QED BY <1>3, <1>4

\* An init process writes its byte.
LEMMA WritePasses ==
    ASSUME TypeOK, NEW p \in Pids, InitWrite(p)
    PROVE  Gate!Next \/ UNCHANGED gateVars
<1> DEFINE f == proc[p].fifo
<1>1. f \in Inodes
  BY DEF InitWrite, TypeOK, ProcType, Procs
<1>2. There' = There
  BY ProcElsewhere DEF ProcStep, InitStep
<1>3. CASE /\ Readers(f) # {}
           /\ byte' = byte \union {f}
           /\ puts' = [puts EXCEPT ![f] = @ + 1]
           /\ UNCHANGED wins
  <2>1. Gate!Pass(f)
    BY <1>1, <1>2, <1>3 DEF Gate!Pass, There
  <2> QED BY <1>1, <2>1 DEF Gate!Next
<1> QED BY <1>3 DEF InitWrite

\* Whatever the callers do and wherever they are killed, for every number
\* of containers and commands: an init process passes the fifo only while a
\* start is there, each start that succeeds takes the byte of one passage,
\* and no byte outlives the starts that were there for it
\* (container_nabla.go:253-269, init_nabla.go:147-155).
THEOREM FifoIsStartGate == Spec => ImplementsStartGate
<1>1. Init => Gate!Init
  BY DEF Init, Gate!Init, Readers, IdleCli
<1>2. TypeOK /\ [Next]_vars => [Gate!Next]_(Gate!vars)
  <2> SUFFICES ASSUME TypeOK, [Next]_vars
               PROVE  Gate!Next \/ UNCHANGED Gate!vars
    OBVIOUS
  <2>1. There' = There /\ UNCHANGED gateVars => UNCHANGED Gate!vars
    BY DEF Gate!vars, There, gateVars
  <2>2. ASSUME NEW c \in Clis, CliStep(c)
        PROVE  Gate!Next \/ UNCHANGED Gate!vars
    <3>1. CASE ExecOpen(c)
      BY <2>1, <3>1, OpenComes, GateUntouched DEF LoadStep, ExecOpen
    <3>2. CASE ExecRead(c)
      BY <3>2, ReadLeaves
    <3>3. CASE CliStep(c) /\ ~ExecOpen(c) /\ ~ExecRead(c)
      BY <3>3, <2>1, GateUntouched, CreateElsewhere, LoadElsewhere,
         SharedElsewhere, CallerElsewhere DEF CliStep
    <3> QED BY <2>2, <3>1, <3>2, <3>3
  <2>3. ASSUME NEW c \in Clis, NEW m \in Commands, NEW i \in Ids, Invoke(c, m, i)
        PROVE  UNCHANGED Gate!vars
    BY <2>3, <2>1, GateUntouched, CallerElsewhere
  <2>4. ASSUME NEW c \in Clis, Crash(c)
        PROVE  Gate!Next \/ UNCHANGED Gate!vars
    BY <2>4, <2>1, CrashLeaves
  <2>5. ASSUME NEW p \in Pids, ProcStep(p)
        PROVE  Gate!Next \/ UNCHANGED Gate!vars
    <3>1. CASE InitWrite(p)
      BY <2>5, <3>1, <2>1, WritePasses, ProcElsewhere
    <3>2. CASE ~InitWrite(p)
      <4>1. UNCHANGED gateVars
        BY <2>5, <3>2
           DEF ProcStep, InitStep, InitSetup, InitSetupFails, InitOpened,
               InitLaunch, InitExit, Reap, OtherSpawn, OtherExit
      <4> QED BY <4>1, <2>1, <2>5, ProcElsewhere
    <3> QED BY <3>1, <3>2
  <2>6. CASE UNCHANGED vars
    BY <2>6, <2>1 DEF vars, gateVars, There, Readers
  <2> QED BY <2>2, <2>3, <2>4, <2>5, <2>6 DEF Next
<1> QED BY <1>1, <1>2, TypeCorrect, PTL DEF Spec, ImplementsStartGate, Gate!Spec

===========================================================================
