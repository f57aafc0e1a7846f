----------------------------- MODULE OciProofs -----------------------------
(***************************************************************************)
(* Who passes the start gate, and that a container lives as an OCI         *)
(* container does, under callers that run create and delete of an id       *)
(* alone, for any number of containers, commands, pids and creates.        *)
(***************************************************************************)
EXTENDS LifetimeProofs

USE IdAssumption, PidAssumption, TapAssumption, BoundAssumption

---------------------------------------------------------------------------
(* Who has passed the gate.                                                *)

\* A command does nothing to a living init process but kill it.
LEMMA StateKept ==
    ASSUME TypeOK, NEW c \in Clis, CliStep(c), NEW p \in Pids, LiveInit(p)', StillLives(p)
    PROVE  proc'[p] = proc[p]
<1>t. ProcType
  BY DEF TypeOK
<1>1. CASE StartFork(c)
  <2>1. ASSUME NEW q \in Pids, proc[q].st = "free", proc' = [proc EXCEPT ![q] = NewInit(c)]
        PROVE  proc'[p] = proc[p]
    BY <2>1, <1>t DEF ProcType, StillLives, LiveInit, InitStates
  <2> QED BY <1>1, <2>1 DEF StartFork
<1>2. CASE Terminate(c)
  BY <1>2, <1>t DEF Terminate, ProcType, LiveInit, NoProc, InitStates
<1>3. CASE Signal(c) \/ SigKill(c)
  BY <1>3, <1>t
     DEF Signal, SigKill, Killed, LiveInit, ProcType, Procs, NoProc, InitStates
<1>4. CASE CreateStep(c) /\ ~StartFork(c) /\ ~Terminate(c)
  BY <1>4 DEF CreateStep, CreateSpec, CreateStat, CreateMkdir, CreateMkfifo,
              CreateFs, CreateNet, SetupIO, StartOpenRoot, CreatePidFile, AdjustOomScore
<1>5. CASE LoadStep(c) /\ ~Signal(c) /\ ~SigKill(c)
  BY <1>5 DEF LoadStep, Load, Probe, ExecOpen, ExecRead, ExecRemove, Poll
<1>6. CASE SharedStep(c)
  BY <1>6 DEF SharedStep, SaveOpen, SaveWrite, Destroy, RemoveEntries, Rmdir,
              NetworkDestroy
<1>7. CASE Exit(c)
  BY <1>7 DEF Exit
<1> QED BY <1>1, <1>2, <1>3, <1>4, <1>5, <1>6, <1>7 DEF CliStep

\* The init process that a step forks is that of the create that steps.
LEMMA ForkedHere ==
    ASSUME TypeOK, LifeInv, NEW c \in Clis, CliStep(c), NEW p \in Pids, LiveInit(p)'
    PROVE  \/ StillLives(p) /\ proc'[p] = proc[p]
           \/ /\ StartFork(c)
              /\ proc'[p].id = cli[c].id /\ proc'[p].root = dir[cli[c].id]
              /\ proc'[p].st = "setup" /\ proc'[p].fifo = 0
<1>1. CASE StillLives(p)
  BY <1>1, StateKept
<1>2. CASE StartFork(c) /\ proc'[p] = NewInit(c)
  <2>1. cli[c].fd = dir[cli[c].id]
    BY <1>2 DEF LifeInv, LabelOK, MakingOK, StartFork
  <2> QED BY <1>2, <2>1 DEF NewInit
<1> QED BY <1>1, <1>2, Lives

\* A create is not resumed.
LEMMA StillCreates ==
    ASSUME TypeOK, NEW a \in Clis, NEW c \in Clis,
           CliStep(a) \/ \E q \in Pids : ProcStep(q), Creates(cli[c])'
    PROVE  Creates(cli[c]) /\ Same(cli'[c], cli[c])
<1>t. CliType /\ cli[c] \in CliRecords
  BY DEF TypeOK, CliType
<1>1. Busy(c)'
  BY DEF Creates, Busy
<1>2. Busy(c) /\ Same(cli'[c], cli[c])
  BY <1>1, StillBusy DEF Same
<1>3. cli[c].pc \notin EndLabels
  <2> SUFFICES ASSUME cli[c].pc \in EndLabels PROVE FALSE
    OBVIOUS
  <2>1. CASE CliStep(a) /\ a = c
    <3>1. Exit(c)
      BY <2>1, OnlyStep
    <3> QED BY <3>1, <1>1, <1>t DEF Exit, CliType, IdleCli, Busy
  <2>2. CASE CliStep(a) /\ a # c
    BY <2>2, <1>t, OneMoves, NowIs DEF Creates
  <2>3. CASE \E q \in Pids : ProcStep(q)
    <3>1. UNCHANGED cli \/ \E f : cli' = Woken(f)
      BY <2>3, ProcFrame
    <3>2. cli'[c] = cli[c]
      BY <3>1, <1>t DEF Woken, EndLabels
    <3> QED BY <3>2 DEF Creates
  <2> QED BY <2>1, <2>2, <2>3
<1> QED BY <1>2, <1>3 DEF Creates, Same, Busy

LEMMA NumsStep ==
    ASSUME TypeOK, Nums,
           (\E a \in Clis : CliStep(a)) \/ \E q \in Pids : ProcStep(q)
    PROVE  Nums'
<1>1. \A c \in Clis : Creates(cli[c])' => Creates(cli[c]) /\ cli'[c].num = cli[c].num
  BY StillCreates DEF Same
<1>2. creates' = creates
  BY OneMoves, ProcFrame DEF counters
<1> QED BY <1>1, <1>2 DEF Nums

\* Where a create works it has made the directory, or is about to.
LEMMA OwnStep ==
    ASSUME TypeOK, LifeInv, Nums, NEW c \in Clis, CliStep(c),
           NEW o \in Clis, \A a \in Clis : OwnOK(cli[a])
    PROVE  OwnOK(cli[o])'
<1> SUFFICES ASSUME Creates(cli[o])'
             PROVE  /\ \A i \in Ids : dir'[i] = cli'[o].num => i = cli'[o].id
                    /\ cli'[o].pc \notin Early => dir'[cli'[o].id] \in {0, cli'[o].num}
  BY DEF OwnOK
<1>t. /\ CliType /\ FsType /\ cli[c].id \in Ids /\ cli[o].id \in Ids
      /\ cli[c] \in CliRecords /\ cli[o] \in CliRecords
  BY StillCreates, OneMoves DEF TypeOK, CliType, CliRecords, Busy, Creates
<1>1. Creates(cli[o]) /\ Same(cli'[o], cli[o])
  BY StillCreates
<1>o. o # c => cli'[o] = cli[o]
  BY <1>t, OneMoves, NowIs
<1>g. \A l : Goto(c, l) => cli'[c].pc = l
  BY <1>t, NewGoto, NowIs, AtIs
<1>2. /\ \A i \in Ids : dir[i] = cli[o].num => i = cli[o].id
      /\ cli[o].pc \notin Early => dir[cli[o].id] \in {0, cli[o].num}
      /\ cli[o].num # 0
  <2>1. OwnOK(cli[o]) /\ cli[o].num \in 1 .. creates /\ creates \in Nat
    BY <1>1 DEF Nums, TypeOK, CounterType
  <2> QED BY <2>1, <1>1 DEF OwnOK
<1>3. CASE CreateMkdir(c) /\ Goto(c, "mkfifo")
  <2>1. Creates(cli[c]) /\ cli[c].num \in 1 .. creates
    BY <1>3 DEF Creates, CreateMkdir, LifeInv, Roles, Role, CreateLabels, EndLabels, Nums
  <2>2. dir' = [dir EXCEPT ![cli[c].id] = cli[c].num]
    <3>1. ~Goto(c, "err")
      BY <1>3, <1>g
    <3> QED BY <1>3, <3>1, MkdirMakes
  <2>3. CASE o = c
    BY <2>2, <2>3, <1>1, <1>2, <1>t DEF Same, FsType
  <2>4. CASE o # c
    <3>1. cli[o].num # cli[c].num
      BY <2>1, <2>4, <1>1 DEF Nums
    <3>2. cli[o].id # cli[c].id
      BY <2>4, <1>1, <2>1 DEF LifeInv, Alone, Busy, Creates
    <3> QED BY <3>1, <3>2, <2>2, <2>4, <1>o, <1>2, <1>t DEF FsType
  <2> QED BY <2>3, <2>4
<1>4. CASE ~(CreateMkdir(c) /\ Goto(c, "mkfifo"))
  <2>1. \A i \in Ids : dir'[i] \in {0, dir[i]}
    BY <1>4, <1>t, DirSteps, MkdirMakes DEF Rmdir, FsType
  <2>2. cli'[o].pc \notin Early => cli[o].pc \notin Early
    <3> SUFFICES ASSUME o = c, cli[c].pc \in Early
                 PROVE  cli'[o].pc \in Early \union EndLabels
      BY <1>o DEF Creates, EndLabels
    <3>1. CreateSpec(c) \/ CreateStat(c) \/ Goto(c, "err")
      BY <1>4, OnlyStep, MkdirMakes
    <3> QED BY <3>1, <1>g DEF CreateSpec, CreateStat, Early, EndLabels
  <2>3. cli'[o].num = cli[o].num /\ cli'[o].id = cli[o].id
    BY <1>1 DEF Same
  <2>4. dir'[cli[o].id] \in {0, dir[cli[o].id]}
    BY <2>1, <1>t
  <2> QED BY <2>1, <2>2, <2>3, <2>4, <1>2
<1> QED BY <1>3, <1>4

LEMMA FifosStep ==
    ASSUME TypeOK, LifeInv, Fifos, NEW c \in Clis, CliStep(c), OwnOK(cli[c])
    PROVE  Fifos'
<1>t. FsType /\ cli[c].id \in Ids
  BY OneMoves DEF TypeOK, CliType, CliRecords, Busy
<1>1. ASSUME NEW d \in Inodes
      PROVE  fifo'[d] \in {0, d}
  <2>1. CASE CreateMkfifo(c)
    <3>1. Creates(cli[c]) /\ cli[c].pc \notin Early
      BY <2>1 DEF Creates, CreateMkfifo, LifeInv, Roles, Role, CreateLabels, EndLabels, Early
    <3>2. dir[cli[c].id] \in {0, cli[c].num}
      BY <3>1 DEF OwnOK
    <3> QED BY <2>1, <3>2, <1>t DEF CreateMkfifo, Fifos, FsType
  <2>2. CASE ExecRemove(c)
    BY <2>2, <1>t DEF ExecRemove, Fifos, FsType
  <2>3. ASSUME NEW kept \in SUBSET {"file", "fifo", "iso"}, RemoveEntries(c, kept)
        PROVE  fifo'[d] \in {0, d}
    BY <2>3, <1>t DEF RemoveEntries, Fifos, FsType
  <2>4. CASE CreateStep(c) /\ ~CreateMkfifo(c)
    BY <2>4 DEF CreateStep, CreateSpec, CreateStat, CreateMkdir, CreateFs, CreateNet, SetupIO,
                StartOpenRoot, StartFork, CreatePidFile, AdjustOomScore, Terminate, fsVars, Fifos
  <2>5. CASE LoadStep(c) /\ ~ExecRemove(c)
    BY <2>5 DEF LoadStep, Load, Probe, ExecOpen, ExecRead, Signal, SigKill, Poll, fsVars, Fifos
  <2>6. CASE SaveOpen(c) \/ SaveWrite(c) \/ Destroy(c) \/ Rmdir(c) \/ NetworkDestroy(c) \/ Exit(c)
    BY <2>6 DEF SaveOpen, SaveWrite, Destroy, Rmdir, NetworkDestroy, Exit, fsVars, Fifos
  <2> QED BY <2>1, <2>2, <2>3, <2>4, <2>5, <2>6 DEF CliStep, SharedStep
<1>2. ASSUME NEW p \in Pids, LiveInit(p)'
      PROVE  proc'[p].fifo \in {0, proc'[p].root}
  BY <1>2, ForkedHere DEF Fifos, StillLives
<1> QED BY <1>1, <1>2 DEF Fifos

\* Who is past the gate stays there until it dies.
LEMMA PastKept ==
    ASSUME TypeOK, LifeInv, NEW c \in Clis, CliStep(c), NEW d, PastGate(d),
           StartFork(c) => d # dir[cli[c].id]
    PROVE  PastGate(d)'
<1> SUFFICES ASSUME NEW p \in Pids, LiveInit(p)', proc'[p].root = d
             PROVE  proc'[p].st \in {"gate", "user"}
  BY DEF PastGate
<1>1. StillLives(p) /\ proc'[p] = proc[p]
  BY ForkedHere
<1> QED BY <1>1 DEF PastGate, StillLives

LEMMA ForkCreates ==
    ASSUME TypeOK, LifeInv, NEW c \in Clis, OwnOK(cli[c]), StartFork(c)
    PROVE  /\ Creates(cli[c]) /\ cli[c].cmd = "create"
           /\ dir[cli[c].id] = cli[c].num /\ dir[cli[c].id] # 0
<1>1. Creates(cli[c]) /\ cli[c].pc \notin Early /\ cli[c].pc \in Making /\ cli[c].cmd = "create"
  BY DEF StartFork, Creates, LifeInv, Roles, Role, CreateLabels, EndLabels, Early, Making
<1>2. dir[cli[c].id] # 0
  BY <1>1 DEF LifeInv, LabelOK, MakingOK
<1> QED BY <1>1, <1>2 DEF OwnOK

LEMMA BytesStep ==
    ASSUME TypeOK, LifeInv, Bytes, NEW c \in Clis, CliStep(c), OwnOK(cli[c])
    PROVE  Bytes'
<1>1. byte' \subseteq byte
  <2>1. CASE ExecRead(c)
    BY <2>1 DEF ExecRead
  <2>2. CASE ~ExecRead(c)
    BY <2>2, GateUntouched DEF CliStep, gateVars
  <2> QED BY <2>1, <2>2
<1>2. ASSUME NEW d \in byte
      PROVE  PastGate(d)'
  <2>1. StartFork(c) => d # dir[cli[c].id]
    BY ForkCreates DEF Bytes
  <2> QED BY <2>1, PastKept DEF Bytes
<1>3. ASSUME NEW d \in byte, NEW o \in Clis, Creates(cli[o])'
      PROVE  cli'[o].num # d
  BY <1>3, StillCreates DEF Bytes, Same
<1>4. creates' = creates
  BY OneMoves DEF counters
<1> QED BY <1>1, <1>2, <1>3, <1>4 DEF Bytes

\* A start is at the fifo only when it has opened it.
LEMMA OpenMoves ==
    ASSUME TypeOK, NEW c \in Clis, CliStep(c), cli'[c].pc \in {"blocked", "read"},
           LifeInv
    PROVE  ExecOpen(c)
<1>t. CliType /\ cli[c] \in CliRecords /\ Role(cli[c])
  BY DEF TypeOK, CliType, LifeInv, Roles
<1>n. \A r : Now(c, r) => cli'[c] = r
  BY <1>t, NowIs
<1>g. \A l : Goto(c, l) => cli'[c].pc = l
  BY <1>t, <1>n, NewGoto, AtIs
<1>1. CASE CreateSpec(c) \/ CreateStat(c) \/ CreateMkdir(c) \/ CreateMkfifo(c) \/ CreateFs(c)
           \/ CreateNet(c) \/ SetupIO(c) \/ CreatePidFile(c) \/ AdjustOomScore(c)
  BY <1>1, <1>g DEF CreateSpec, CreateStat, CreateMkdir, CreateMkfifo, CreateFs,
                    CreateNet, SetupIO, CreatePidFile, AdjustOomScore
<1>2. CASE StartOpenRoot(c) \/ Terminate(c)
  BY <1>2, <1>g, <1>n, <1>t, NewOpenRoot, RootOpenedIs, NewTerminate, TerminatedIs
<1>3. CASE StartFork(c)
  BY <1>3, <1>g, <1>n, <1>t, ForkedIs DEF StartFork, Now
<1>4. CASE Load(c)
  BY <1>4, <1>g, <1>n, <1>t, NewLoad, NotThereIs, LoadedIs DEF AfterLoad
<1>5. CASE Probe(c)
  <2>1. ASSUME NEW l \in AfterStatus(cli[c], cli[c].status), Goto(c, l) PROVE FALSE
    BY <2>1, <1>5, <1>g, <1>t DEF AfterStatus, StartSwitch, StateSwitch, DeleteSwitch, Probe
  <2> QED BY <1>5, <2>1, <1>n, <1>t, NewProbe, FoundDeadIs
<1>6. CASE ExecRead(c) \/ Exit(c)
  BY <1>6, <1>g, <1>n, <1>t, StartedIs DEF ExecRead, Exit, IdleCli, Now
<1>7. CASE ExecRemove(c) \/ Signal(c) \/ SigKill(c) \/ Poll(c)
  BY <1>7, <1>g, <1>t DEF ExecRemove, Signal, SigKill, Poll
<1>8. CASE Destroy(c)
  BY <1>8, <1>n, <1>t, NewDestroy, DestroyingIs
<1>9. CASE SaveOpen(c) \/ SaveWrite(c)
  BY <1>9, <1>g, <1>t DEF SaveOpen, SaveWrite, Role, SaveRole, SaveLabels
<1>10. ASSUME NEW l \in RetLabels \union Labels, Goto(c, l), l \notin {"blocked", "read"} PROVE FALSE
  BY <1>10, <1>g
<1>11. CASE NetworkDestroy(c) \/ Rmdir(c)
  BY <1>11, <1>g, <1>t DEF NetworkDestroy, Rmdir, AfterDestroy, AfterRmFailure, CliRecords, RetLabels
<1>12. ASSUME NEW kept \in SUBSET {"file", "fifo", "iso"}, RemoveEntries(c, kept)
      PROVE  FALSE
  BY <1>12, <1>g, <1>t DEF RemoveEntries, AfterDestroy, AfterRmFailure, CliRecords, RetLabels
<1> QED BY <1>1, <1>2, <1>3, <1>4, <1>5, <1>6, <1>7, <1>8, <1>9, <1>11, <1>12
        DEF CliStep, CreateStep, LoadStep, SharedStep

\* A command saves Running only with the byte in its hands.
LEMMA RunningMoves ==
    ASSUME TypeOK, LifeInv, NEW c \in Clis, CliStep(c), cli'[c].pc \in SaveLabels,
           cli'[c].status = "running"
    PROVE  \/ ExecRead(c) /\ cli[c].fd \in byte
           \/ SaveOpen(c) /\ cli[c].pc \in SaveLabels /\ cli[c].status = "running"
<1>t. CliType /\ cli[c] \in CliRecords /\ Role(cli[c])
  BY DEF TypeOK, CliType, LifeInv, Roles
<1>n. \A r : Now(c, r) => cli'[c] = r
  BY <1>t, NowIs
<1>g. \A l : Goto(c, l) => cli'[c].pc = l /\ cli'[c].status = cli[c].status
  BY <1>t, <1>n, NewGoto, AtIs
<1>s. cli'[c].pc \in {"saveopen", "savewrite"}
  BY DEF SaveLabels
<1>1. CASE CreateSpec(c) \/ CreateStat(c) \/ CreateMkdir(c) \/ CreateMkfifo(c) \/ CreateFs(c)
           \/ CreateNet(c) \/ SetupIO(c) \/ CreatePidFile(c) \/ AdjustOomScore(c)
  BY <1>1, <1>g, <1>s DEF CreateSpec, CreateStat, CreateMkdir, CreateMkfifo, CreateFs,
                    CreateNet, SetupIO, CreatePidFile, AdjustOomScore
<1>2. CASE StartOpenRoot(c) \/ Terminate(c)
  BY <1>2, <1>g, <1>s, <1>n, <1>t, NewOpenRoot, RootOpenedIs, NewTerminate, TerminatedIs
<1>3. CASE StartFork(c)
  BY <1>3, <1>g, <1>s, <1>n, <1>t, ForkedIs DEF StartFork, Now
<1>4. CASE Load(c)
  BY <1>4, <1>g, <1>s, <1>n, <1>t, NewLoad, NotThereIs, LoadedIs DEF AfterLoad
<1>5. CASE Probe(c)
  <2>1. ASSUME NEW l \in AfterStatus(cli[c], cli[c].status), Goto(c, l) PROVE FALSE
    BY <2>1, <1>5, <1>g, <1>s, <1>t DEF AfterStatus, StartSwitch, StateSwitch, DeleteSwitch, Probe
  <2> QED BY <1>5, <2>1, <1>n, <1>t, NewProbe, FoundDeadIs
<1>6. CASE ExecRead(c)
  BY <1>6, <1>g, <1>s DEF ExecRead
<1>7. CASE ExecRemove(c) \/ Signal(c) \/ SigKill(c) \/ Poll(c)
  BY <1>7, <1>g, <1>s DEF ExecRemove, Signal, SigKill, Poll
<1>8. CASE Destroy(c)
  BY <1>8, <1>n, <1>s, <1>t, NewDestroy, DestroyingIs
<1>9. CASE SaveOpen(c) \/ SaveWrite(c)
  BY <1>9, <1>g, <1>s, <1>t DEF SaveOpen, SaveWrite, Role, SaveRole, SaveLabels
<1>10. CASE ExecOpen(c)
  BY <1>10, <1>g, <1>n, <1>s, <1>t, NewExecOpen, AtFifoIs
<1>11. CASE NetworkDestroy(c) \/ Rmdir(c) \/ Exit(c)
  BY <1>11, <1>g, <1>s, <1>t DEF NetworkDestroy, Rmdir, AfterDestroy, AfterRmFailure, CliRecords,
       RetLabels, Exit, CliType, IdleCli
<1>12. ASSUME NEW kept \in SUBSET {"file", "fifo", "iso"}, RemoveEntries(c, kept)
      PROVE  FALSE
  BY <1>12, <1>g, <1>s, <1>t DEF RemoveEntries, AfterDestroy, AfterRmFailure, CliRecords, RetLabels
<1> QED BY <1>1, <1>2, <1>3, <1>4, <1>5, <1>6, <1>7, <1>8, <1>9, <1>10, <1>11, <1>12
        DEF CliStep, CreateStep, LoadStep, SharedStep

\* What the command that steps knows of the gate.
LEMMA PassOwn ==
    ASSUME TypeOK, LifeInv, Fifos, Bytes, NEW c \in Clis, CliStep(c), OwnOK(cli[c]), PassOK(cli[c])
    PROVE  PassOK(cli[c])'
<1>t. CliType /\ FsType /\ cli[c] \in CliRecords /\ cli[c].id \in Ids
  BY OneMoves DEF TypeOK, CliType, CliRecords, Busy
<1>1. ASSUME Creates(cli[c])', cli'[c].pc \notin Early,
             NEW p \in Pids, LiveInit(p)', proc'[p].id = cli'[c].id
      PROVE  proc'[p].st \in {"setup", "opening"}
  <2>1. Creates(cli[c]) /\ cli'[c].id = cli[c].id
    BY <1>1, StillCreates DEF Same
  <2>2. CASE StillLives(p) /\ proc'[p] = proc[p]
    <3>1. CASE cli[c].pc \notin Early
      BY <2>1, <2>2, <3>1, <1>1 DEF PassOK, StillLives
    <3>2. CASE cli[c].pc \in Early
      <4>1. ~CreateMkdir(c)
        BY <2>1, <2>2, <1>1, AtHome DEF CreateMkdir, LifeInv, LabelOK, EarlyOK, StillLives
      <4>2. CreateSpec(c) \/ CreateStat(c)
        BY <3>2, <4>1, OnlyStep
      <4>3. cli'[c].pc \in Early \union EndLabels
        BY <4>2, <1>t, NewGoto, NowIs, AtIs DEF CreateSpec, CreateStat, Early, EndLabels
      <4> QED BY <4>3, <1>1 DEF Creates
    <3> QED BY <3>1, <3>2
  <2> QED BY <2>2, <1>1, ForkedHere
<1>2. ASSUME cli'[c].pc \in {"blocked", "read"}
      PROVE  cli'[c].fd = dir'[cli'[c].id]
  <2>1. ExecOpen(c)
    BY <1>2, OpenMoves
  <2>2. UNCHANGED dir /\ cli'[c].fd = FifoAt(cli[c].id) /\ FifoAt(cli[c].id) # 0
                      /\ cli'[c].id = cli[c].id
    BY <2>1, <1>2, <1>t, NewExecOpen, NewGoto, NowIs, AtIs, AtFifoIs DEF ExecOpen, fsVars, Same
  <2>3. FifoAt(cli[c].id) \in {0, dir[cli[c].id]}
    BY <1>t DEF FifoAt, Fifos, FsType
  <2> QED BY <2>2, <2>3
<1>3. ASSUME cli'[c].pc \in SaveLabels, cli'[c].status = "running"
      PROVE  PastGate(dir[cli[c].id])'
  <2>0. ExecRead(c) \/ SaveOpen(c)
    BY <1>3, RunningMoves
  <2>1. PastGate(dir[cli[c].id])
    <3>1. CASE ExecRead(c) /\ cli[c].fd \in byte
      <4>1. cli[c].fd = dir[cli[c].id]
        BY <3>1 DEF ExecRead, PassOK
      <4> QED BY <3>1, <4>1 DEF Bytes
    <3>2. CASE cli[c].pc \in SaveLabels /\ cli[c].status = "running"
      BY <3>2 DEF PassOK
    <3> QED BY <3>1, <3>2, <1>3, RunningMoves
  <2>2. ~StartFork(c) /\ UNCHANGED dir
    BY <2>0 DEF ExecRead, SaveOpen, StartFork, fsVars
  <2>3. cli'[c].id = cli[c].id
    BY <1>3, StillBusy DEF Busy, SaveLabels
  <2>4. dir'[cli'[c].id] = dir[cli[c].id]
    BY <2>2, <2>3
  <2>5. ASSUME NEW d, d = dir[cli[c].id]
        PROVE  PastGate(d)'
    <3>1. PastGate(d)
      BY <2>1, <2>5
    <3> QED BY <2>2, <3>1, PastKept
  <2> QED BY <2>4, <2>5 DEF PastGate
<1> QED BY <1>1, <1>2, <1>3 DEF PassOK

\* A fork is in a directory that no other command works in.
LEMMA ForkApart ==
    ASSUME TypeOK, LifeInv, NEW c \in Clis, OwnOK(cli[c]), StartFork(c),
           NEW o \in Clis, o # c, Busy(o)
    PROVE  cli[o].id # cli[c].id /\ dir[cli[o].id] # dir[cli[c].id]
<1>1. CliStep(c)
  BY DEF CliStep, CreateStep
<1>2. cli[o].id # cli[c].id
  BY <1>1, Apart DEF LifeInv
<1>3. cli[o].id \in Ids /\ cli[c].id \in Ids
  BY <1>1, OneMoves DEF TypeOK, CliType, CliRecords, Busy
<1> QED BY <1>2, <1>3, ForkCreates DEF LifeInv, Dirs

\* What the others know of the gate.
LEMMA PassOthers ==
    ASSUME TypeOK, LifeInv, NEW c \in Clis, CliStep(c), OwnOK(cli[c]),
           NEW o \in Clis, o # c, PassOK(cli[o])
    PROVE  PassOK(cli[o])'
<1>t. CliType
  BY DEF TypeOK
<1>o. cli'[o] = cli[o]
  BY <1>t, OneMoves, NowIs
<1>1. CASE ~Busy(o)
  BY <1>1, <1>o DEF PassOK, Busy, Creates, SaveLabels
<1>2. CASE Busy(o)
  <2>1. dir'[cli[o].id] = dir[cli[o].id]
    BY <1>2, PathKept
  <2>2. ASSUME Creates(cli[o]), cli[o].pc \notin Early,
               NEW p \in Pids, LiveInit(p)', proc'[p].id = cli[o].id
        PROVE  proc'[p].st \in {"setup", "opening"}
    <3>1. StillLives(p) /\ proc'[p] = proc[p]
      BY <1>2, <2>2, ForkedHere, ForkApart
    <3> QED BY <2>2, <3>1 DEF PassOK, StillLives
  <2>3. ASSUME cli[o].pc \in SaveLabels, cli[o].status = "running"
        PROVE  PastGate(dir[cli[o].id])'
    <3>1. ASSUME NEW d, d = dir[cli[o].id]
          PROVE  PastGate(d)'
      <4>1. PastGate(d)
        BY <2>3, <3>1 DEF PassOK
      <4> QED BY <1>2, <3>1, <4>1, PastKept, ForkApart
    <3> QED BY <2>1, <3>1, <1>o DEF PastGate
  <2>4. cli[o].pc \in {"blocked", "read"} => cli[o].fd = dir'[cli[o].id]
    BY <2>1 DEF PassOK
  <2> QED BY <1>o, <2>2, <2>3, <2>4 DEF PassOK, Creates
<1> QED BY <1>1, <1>2

\* Who lets p in is a start on the same container; so no create is at work
\* there, and p is the one init process of its directory.
LEMMA MetAtGate ==
    ASSUME TypeOK, LifeInv, PassInv, NEW p \in Pids, proc[p].st \in {"opening", "writing"},
           Readers(proc[p].fifo) # {}
    PROVE  /\ proc[p].fifo = proc[p].root
           /\ \A o \in Clis : Creates(cli[o]) =>
                cli[o].id # proc[p].id /\ cli[o].num # proc[p].root
           /\ \A q \in Pids : LiveInit(q) /\ proc[q].root = proc[p].root => q = p
<1>1. LiveInit(p) /\ proc[p].fifo # 0
  BY DEF LiveInit, InitStates, TypeOK, ProcType
<1>2. proc[p].fifo = proc[p].root
  BY <1>1 DEF PassInv, Fifos
<1>3. /\ proc[p].id \in Ids /\ dir[proc[p].id] = proc[p].root /\ proc[p].root # 0
  BY <1>1, AtHome
<1>4. PICK c \in Clis : cli[c].pc \in {"blocked", "read"} /\ cli[c].fd = proc[p].fifo
  BY DEF Readers
<1>5. /\ Busy(c) /\ cli[c].cmd # "create" /\ cli[c].id \in Ids
      /\ dir[cli[c].id] = proc[p].root
  BY <1>2, <1>4 DEF Busy, LifeInv, Roles, Role, PassInv, PassOK, TypeOK, CliType, CliRecords
<1>6. cli[c].id = proc[p].id
  BY <1>3, <1>5 DEF LifeInv, Dirs
<1>7. \A o \in Clis : cli[o].cmd = "create" /\ Busy(o) => cli[o].id # proc[p].id
  BY <1>5, <1>6 DEF LifeInv, Alone
<1>8. ASSUME NEW o \in Clis, Creates(cli[o])
      PROVE  cli[o].id # proc[p].id /\ cli[o].num # proc[p].root
  <2>1. cli[o].id # proc[p].id
    BY <1>7, <1>8 DEF Creates, Busy
  <2> QED BY <2>1, <1>3, <1>8 DEF PassInv, OwnOK
<1>9. ASSUME NEW q \in Pids, LiveInit(q), proc[q].root = proc[p].root
      PROVE  q = p
  <2>1. proc[q].id = proc[p].id
    BY <1>3, <1>9, AtHome DEF LifeInv, Dirs
  <2>2. ~Unsaved(q) /\ ~Unsaved(p)
    BY <2>1, <1>7 DEF Unsaved, SaveLabels, Busy
  <2> QED BY <2>2, <1>1, <1>9, AtHome
<1> QED BY <1>2, <1>8, <1>9

\* What a process does to itself, and what init does at the gate.
LEMMA ProcStates ==
    ASSUME TypeOK, NEW q \in Pids, ProcStep(q), NEW p \in Pids, LiveInit(p)'
    PROVE  /\ proc'[p].id = proc[p].id /\ proc'[p].root = proc[p].root
           /\ \/ proc'[p] = proc[p]
              \/ /\ proc[p].st = "setup" /\ proc'[p].st = "opening"
                 /\ proc'[p].fifo = fifo[proc[p].root]
              \/ /\ proc[p].st = "opening" /\ proc'[p].st = "writing"
                 /\ Readers(proc[p].fifo) # {} /\ proc'[p].fifo = proc[p].fifo
              \/ /\ proc[p].st = "writing" /\ proc'[p].st = "gate"
                 /\ Readers(proc[p].fifo) # {} /\ proc'[p].fifo = proc[p].fifo
              \/ /\ proc[p].st = "gate" /\ proc'[p].st = "user"
                 /\ proc'[p].fifo = proc[p].fifo
<1>t. proc \in [Pids -> Procs]
  BY DEF TypeOK, ProcType
<1>1. CASE p # q
  BY <1>1, <1>t DEF ProcStep, InitStep, InitSetup, InitSetupFails, InitOpened, InitWrite,
                    InitLaunch, InitExit, InitDies, Reap, OtherSpawn, OtherExit
<1>2. CASE p = q
  <2>1. CASE InitSetup(q)
    BY <1>2, <2>1, <1>t DEF InitSetup, InitDies, LiveInit, InitStates, Procs
  <2>2. CASE InitOpened(q)
    BY <1>2, <2>2, <1>t DEF InitOpened, LiveInit, InitStates, Procs
  <2>3. CASE InitWrite(q)
    BY <1>2, <2>3, <1>t DEF InitWrite, InitDies, LiveInit, InitStates, Procs
  <2>4. CASE InitLaunch(q)
    BY <1>2, <2>4, <1>t DEF InitLaunch, InitDies, LiveInit, InitStates, Procs
  <2>5. CASE InitSetupFails(q) \/ InitExit(q) \/ Reap(q) \/ OtherSpawn(q) \/ OtherExit(q)
    BY <1>2, <2>5, <1>t DEF InitSetupFails, InitExit, InitDies, Reap, OtherSpawn, OtherExit,
                            LiveInit, InitStates, Procs, OtherProc, NoProc
  <2> QED BY <2>1, <2>2, <2>3, <2>4, <2>5 DEF ProcStep, InitStep
<1> QED BY <1>1, <1>2

\* The only byte is that of an init process at the gate.
LEMMA ByteSteps ==
    ASSUME TypeOK, NEW q \in Pids, ProcStep(q)
    PROVE  \/ UNCHANGED byte
           \/ /\ proc[q].st = "writing" /\ Readers(proc[q].fifo) # {}
              /\ proc'[q].st = "gate" /\ proc'[q].root = proc[q].root
              /\ byte' = byte \union {proc[q].fifo}
<1>1. CASE InitWrite(q)
  BY <1>1 DEF InitWrite, TypeOK, ProcType, Procs, gateVars
<1>2. CASE ~InitWrite(q)
  BY <1>2 DEF ProcStep, InitStep, InitSetup, InitSetupFails, InitOpened,
              InitLaunch, InitExit, Reap, OtherSpawn, OtherExit, gateVars
<1> QED BY <1>1, <1>2

LEMMA ProcPass ==
    ASSUME TypeOK, LifeInv, PassInv, NEW q \in Pids, ProcStep(q)
    PROVE  PassInv'
<1>t. CliType /\ Nums /\ Fifos /\ Bytes /\ creates \in Nat
  BY DEF TypeOK, PassInv, CounterType
<1>f. /\ UNCHANGED <<dir, creates, fifo>>
      /\ UNCHANGED cli \/ \E f : cli' = Woken(f)
  BY ProcFrame
<1>w. \A o \in Clis : \/ cli'[o] = cli[o]
                      \/ /\ cli[o].pc = "blocked" /\ cli'[o].pc = "read"
                         /\ Same(cli'[o], cli[o]) /\ cli'[o].fd = cli[o].fd
  BY <1>f, <1>t DEF Woken, CliType, CliRecords, Same
<1>l. \A p \in Pids : LiveInit(p)' => StillLives(p)
  BY ProcLives
<1>1. Nums'
  BY <1>t, NumsStep
<1>2. Fifos'
  <2>1. ASSUME NEW p \in Pids, LiveInit(p)'
        PROVE  proc'[p].fifo \in {0, proc'[p].root}
    <3>1. LiveInit(p) /\ proc[p].fifo \in {0, proc[p].root} /\ proc[p].root \in Inodes
      BY <2>1, <1>l, <1>t, AtHome DEF StillLives, Fifos
    <3>2. fifo[proc[p].root] \in {0, proc[p].root}
      BY <3>1, <1>t DEF Fifos
    <3> QED BY <2>1, <3>1, <3>2, ProcStates
  <2> QED BY <2>1, <1>f, <1>t DEF Fifos
<1>3. ASSUME NEW d, PastGate(d)
      PROVE  PastGate(d)'
  <2> SUFFICES ASSUME NEW p \in Pids, LiveInit(p)', proc'[p].root = d
               PROVE  proc'[p].st \in {"gate", "user"}
    BY DEF PastGate
  <2>1. proc[p].st \in {"gate", "user"}
    BY <1>3, <1>l DEF PastGate, StillLives
  <2> QED BY <2>1, ProcStates
<1>4. Bytes'
  <2>1. ASSUME NEW d \in byte
        PROVE  /\ d <= creates' /\ PastGate(d)'
               /\ \A o \in Clis : Creates(cli[o])' => cli'[o].num # d
    BY <1>f, <1>t, <1>3, StillCreates DEF Bytes, Same
  <2>2. ASSUME proc[q].st = "writing", Readers(proc[q].fifo) # {},
               proc'[q].st = "gate", proc'[q].root = proc[q].root, NEW d, d = proc[q].fifo
        PROVE  /\ d <= creates' /\ PastGate(d)'
               /\ \A o \in Clis : Creates(cli[o])' => cli'[o].num # d
    <3>1. /\ d = proc[q].root
          /\ \A o \in Clis : Creates(cli[o]) => cli[o].num # proc[q].root
          /\ \A p \in Pids : LiveInit(p) /\ proc[p].root = proc[q].root => p = q
      BY <2>2, MetAtGate
    <3>2. LiveInit(q)
      BY <2>2 DEF LiveInit, InitStates
    <3>3. d \in Inodes /\ \E i \in Ids : dir[i] = d
      BY <3>1, <3>2, AtHome
    <3>4. d <= creates
      BY <3>3, <1>t DEF LifeInv, Dirs, Untouched, Inodes
    <3>5. PastGate(d)'
      BY <2>2, <3>1, <1>l DEF PastGate, StillLives
    <3> QED BY <3>1, <3>4, <3>5, <1>f, StillCreates DEF Same
  <2> QED BY <2>1, <2>2, ByteSteps DEF Bytes
<1>5. ASSUME NEW o \in Clis
      PROVE  OwnOK(cli[o])'
  <2> SUFFICES ASSUME Creates(cli[o])' PROVE OwnOK(cli[o])'
    BY DEF OwnOK
  <2>1. Creates(cli[o]) /\ Same(cli'[o], cli[o])
    BY StillCreates
  <2>2. cli[o].pc \in Early => cli'[o].pc \in Early
    BY <1>w DEF Early
  <2>3. OwnOK(cli[o])
    BY DEF PassInv
  <2> QED BY <2>1, <2>2, <2>3, <1>f DEF OwnOK, Same
<1>6. ASSUME NEW o \in Clis
      PROVE  PassOK(cli[o])'
  <2>o. PassOK(cli[o])
    BY DEF PassInv
  <2>1. ASSUME Creates(cli[o])', cli'[o].pc \notin Early,
               NEW p \in Pids, LiveInit(p)', proc'[p].id = cli'[o].id
        PROVE  proc'[p].st \in {"setup", "opening"}
    <3>1. Creates(cli[o]) /\ cli[o].id = cli'[o].id
      BY <2>1, StillCreates DEF Same
    <3>2. cli[o].pc \notin Early
      BY <2>1, <1>w DEF Early
    <3>3. LiveInit(p) /\ proc[p].id = cli[o].id
      BY <2>1, <3>1, <1>l DEF StillLives
    <3>4. proc[p].st \in {"setup", "opening"}
      BY <3>1, <3>2, <3>3, <2>o DEF PassOK
    <3>5. proc[p].st = "opening" => Readers(proc[p].fifo) = {}
      BY <3>1, <3>3, MetAtGate
    <3> QED BY <2>1, <3>4, <3>5, ProcStates
  <2>2. cli'[o].pc \in {"blocked", "read"} => cli'[o].fd = dir'[cli'[o].id]
    BY <2>o, <1>w, <1>f DEF PassOK, Same
  <2>3. ASSUME cli'[o].pc \in SaveLabels, cli'[o].status = "running"
        PROVE  PastGate(dir[cli[o].id])'
    <3>1. cli'[o] = cli[o]
      BY <2>3, <1>w DEF SaveLabels
    <3>2. ASSUME NEW d, d = dir[cli[o].id]
          PROVE  PastGate(d)'
      <4>1. PastGate(d)
        BY <2>o, <2>3, <3>1, <3>2 DEF PassOK
      <4> QED BY <4>1, <1>3
    <3> QED BY <3>1, <3>2, <1>f DEF PastGate
  <2> QED BY <2>1, <2>2, <2>3 DEF PassOK
<1> QED BY <1>1, <1>2, <1>4, <1>5, <1>6 DEF PassInv

LEMMA InvokePass ==
    ASSUME TypeOK, LifeInv, PassInv, NEW c \in Clis, NEW m \in Commands, NEW i \in Ids,
           Invoke(c, m, i)
    PROVE  PassInv'
<1>t. CliType /\ creates \in Nat /\ Nums /\ Fifos /\ Bytes
  BY DEF TypeOK, CounterType, PassInv
<1>1. /\ UNCHANGED <<dir, fifo, byte, proc>>
      /\ \A o \in Clis : o # c => cli'[o] = cli[o]
  BY <1>t DEF Invoke, CliType, fsVars, gateVars
<1>2. \/ /\ cli'[c].pc = "load" /\ cli'[c].cmd # "create" /\ creates' = creates
      \/ /\ cli'[c].pc = "spec" /\ cli'[c].cmd = "create" /\ cli'[c].num = creates + 1
         /\ creates' = creates + 1 /\ creates' \in Inodes
  BY <1>t DEF Invoke, CliType, IdleCli, Inodes
<1>3. creates' \in {creates, creates + 1} /\ (Creates(cli[c])' => cli'[c].num = creates')
  BY <1>2 DEF Creates
<1>4. Creates(cli[c])' => /\ creates' = creates + 1 /\ cli'[c].pc \in Early
                          /\ \A j \in Ids : dir[j] # creates + 1
  <2>1. Creates(cli[c])' => /\ creates' = creates + 1 /\ cli'[c].pc = "spec"
                            /\ creates + 1 \in Inodes
    BY <1>2 DEF Creates
  <2>2. creates + 1 \in Inodes => \A j \in Ids : dir[j] # creates + 1
    BY <1>t DEF LifeInv, Dirs, Untouched
  <2> QED BY <2>1, <2>2 DEF Early
<1>5. Nums'
  <2>1. \A o \in Clis : o # c /\ Creates(cli[o])' => /\ Creates(cli[o]) /\ cli'[o].num = cli[o].num
                                                     /\ cli[o].num \in 1 .. creates
    BY <1>1, <1>t DEF Creates, Nums
  <2> QED BY <2>1, <1>1, <1>3, <1>4, <1>t DEF Nums
<1>6. Fifos' /\ \A d : PastGate(d) => PastGate(d)'
  BY <1>1, <1>t DEF Fifos, LiveInit, PastGate
<1>7. Bytes'
  <2>1. \A d \in byte : d <= creates /\ d \in Nat
    BY <1>t DEF Bytes, TypeOK, GateType, Inodes
  <2> QED BY <2>1, <1>1, <1>3, <1>4, <1>6, <1>t DEF Bytes, Creates
<1>8. ASSUME NEW o \in Clis
      PROVE  OwnOK(cli[o])' /\ PassOK(cli[o])'
  <2>1. CASE o # c
    <3>1. OwnOK(cli[o]) /\ PassOK(cli[o]) /\ cli'[o] = cli[o]
      BY <1>1, <2>1 DEF PassInv
    <3>2. OwnOK(cli[o])'
      BY <3>1, <1>1 DEF OwnOK, Creates
    <3> QED BY <3>1, <3>2, <1>1 DEF PassOK, Creates, LiveInit, PastGate
  <2>2. CASE o = c
    <3>1. OwnOK(cli[o])'
      BY <2>2, <1>1, <1>3, <1>4 DEF OwnOK
    <3>2. cli'[c].pc \in {"load", "spec"}
      BY <1>2
    <3> QED BY <2>2, <3>1, <3>2, <1>4 DEF PassOK, SaveLabels
  <2> QED BY <2>1, <2>2
<1> QED BY <1>5, <1>6, <1>7, <1>8 DEF PassInv

LEMMA PassInit == Init => PassInv
<1> SUFFICES ASSUME Init PROVE PassInv
  OBVIOUS
<1>1. \A c \in Clis : cli[c] = IdleCli
  BY DEF Init
<1>2. \A p \in Pids : ~LiveInit(p)
  BY DEF Init, NoProc, LiveInit, InitStates
<1>3. Nums /\ \A c \in Clis : OwnOK(cli[c]) /\ PassOK(cli[c])
  BY <1>1 DEF Nums, OwnOK, PassOK, Creates, IdleCli, SaveLabels
<1>4. Fifos /\ Bytes
  BY <1>2 DEF Init, Fifos, Bytes
<1> QED BY <1>3, <1>4 DEF PassInv

LEMMA PassNext ==
    ASSUME Careful, TypeOK, LifeInv, PassInv, [Next]_vars
    PROVE  PassInv'
<1>1. CASE UNCHANGED vars
  <2>1. UNCHANGED <<dir, fifo, byte, proc, cli, creates>>
    BY <1>1 DEF vars, fsVars, gateVars, counters
  <2>2. Nums' /\ Fifos' /\ Bytes'
    BY <2>1 DEF PassInv, Nums, Fifos, Bytes, Creates, PastGate, LiveInit
  <2>3. ASSUME NEW c \in Clis PROVE OwnOK(cli[c])' /\ PassOK(cli[c])'
    <3>1. OwnOK(cli[c]) /\ PassOK(cli[c])
      BY DEF PassInv
    <3> QED BY <2>1, <3>1 DEF OwnOK, PassOK, Creates, PastGate, LiveInit
  <2> QED BY <2>2, <2>3 DEF PassInv
<1>2. \A c \in Clis : ~Crash(c)
  BY DEF Crash, TypeOK, CounterType, Careful
<1>3. ASSUME NEW c \in Clis, CliStep(c)
      PROVE  PassInv'
  <2>1. Nums /\ Fifos /\ Bytes /\ \A o \in Clis : OwnOK(cli[o]) /\ PassOK(cli[o])
    BY DEF PassInv
  <2>2. Nums' /\ Fifos' /\ Bytes'
    BY <1>3, <2>1, NumsStep, FifosStep, BytesStep
  <2>3. ASSUME NEW o \in Clis PROVE OwnOK(cli[o])' /\ PassOK(cli[o])'
    BY <1>3, <2>1, OwnStep, PassOwn, PassOthers
  <2> QED BY <2>2, <2>3 DEF PassInv
<1> QED BY <1>1, <1>2, <1>3, ProcPass, InvokePass DEF Next

LEMMA PassStays == ASSUME Careful PROVE Spec => []PassInv
BY PassInit, PassNext, LifeGoesWell, TypeCorrect, PTL DEF Spec

---------------------------------------------------------------------------
(* The record.                                                             *)

LEMMA StatusStep ==
    ASSUME Careful, TypeOK, LifeInv, PassInv, Next, NEW d \in Inodes
    PROVE  /\ file[d].pid # 0 /\ file[d].status # "created"
                => file'[d].pid = 0 \/ file'[d].status # "created"
           /\ file[d].status # "running" /\ file'[d].status = "running"
                => \A p \in Pids : proc[p].root = d
                      => proc[p].st \notin {"setup", "opening", "writing"}
<1>1. CASE file'[d] = file[d]
  BY <1>1
<1>2. CASE file'[d] # file[d]
  <2>1. PICK c \in Clis : CliStep(c)
    <3>1. \A c \in Clis : ~Crash(c)
      BY DEF Crash, TypeOK, CounterType, Careful
    <3>2. \A c \in Clis, m \in Commands, i \in Ids : ~Invoke(c, m, i)
      BY <1>2, Zenon DEF Invoke, fsVars
    <3>3. \A q \in Pids : ~ProcStep(q)
      BY <1>2, ProcFrame
    <3> QED BY <3>1, <3>2, <3>3 DEF Next
  <2>2. CASE file'[d].status = file[d].status \/ file'[d] = NoFile
    BY <2>2 DEF NoFile
  <2>3. CASE /\ cli[c].pc = "savewrite" /\ d = dir[cli[c].id] /\ c \in file[d].open
             /\ file'[d].status = cli[c].status
    <3>1. SaveRole(cli[c])
      BY <2>3 DEF LifeInv, Roles, Role, SaveLabels
    <3>2. CASE cli[c].cmd = "create"
      <4>1. cli[c].status = "created" /\ file[d].pid = 0
        BY <2>3, <3>2, CreateHolds DEF LifeInv, LabelOK, ForkedOK, SaveLabels
      <4> QED BY <2>3, <4>1
    <3>3. CASE cli[c].cmd # "create" /\ cli[c].status = "running"
      <4>1. PastGate(d)
        BY <2>3, <3>3 DEF PassInv, PassOK, SaveLabels
      <4> QED BY <2>3, <3>3, <4>1 DEF PastGate, LiveInit, InitStates
    <3>4. CASE cli[c].cmd # "create" /\ cli[c].status = "stopped"
      BY <2>3, <3>4
    <3> QED BY <3>1, <3>2, <3>3, <3>4 DEF SaveRole
  <2> QED BY <2>1, <2>2, <2>3, FileSteps DEF Careful, LifeInv
<1> QED BY <1>1, <1>2

\* The status on record never goes back to Created, and no start writes
\* Running before init has passed the gate (container_nabla.go:253-269,
\* 376-402): a start that saves has read the byte of the one init process
\* its directory ever has.
THEOREM StatusNeverBack == ASSUME Careful PROVE Spec => StatusForward
<1>1. TypeOK /\ LifeInv /\ PassInv /\ [Next]_vars =>
        [\A d \in Inodes :
           /\ file[d].pid # 0 /\ file[d].status # "created"
                => file'[d].pid = 0 \/ file'[d].status # "created"
           /\ file[d].status # "running" /\ file'[d].status = "running"
                => \A p \in Pids : proc[p].root = d
                      => proc[p].st \notin {"setup", "opening", "writing"}]_vars
  BY StatusStep
<1> QED BY <1>1, PassStays, LifeGoesWell, TypeCorrect, PTL DEF Spec, StatusForward

---------------------------------------------------------------------------
(* The phases.                                                             *)

LEMMA OneInit ==
    ASSUME TypeOK, LifeInv, NEW p \in Pids, NEW q \in Pids, LiveInit(p), LiveInit(q),
           proc[p].root = proc[q].root
    PROVE  p = q
<1>1. proc[p].id = proc[q].id
  BY AtHome DEF LifeInv, Dirs
<1>2. ASSUME NEW c \in Clis, cli[c].cmd = "create", cli[c].pc \in SaveLabels,
             cli[c].id \in Ids, dir[cli[c].id] # 0
      PROVE  file[dir[cli[c].id]].pid = 0
  BY <1>2 DEF SaveLabels, LifeInv, LabelOK, MakingOK, Making, ForkedOK, NoFile
<1>3. ~(Unsaved(p) /\ file[proc[p].root].pid = q) /\ ~(Unsaved(q) /\ file[proc[q].root].pid = p)
  BY <1>1, <1>2, AtHome DEF Unsaved
<1>4. Unsaved(p) /\ Unsaved(q) => p = q
  BY <1>1 DEF Unsaved, LifeInv, Alone, Busy, SaveLabels
<1> QED BY <1>3, <1>4, AtHome

LEMMA InvisibleOrMove ==
    ASSUME NEW i \in Ids, \A j \in Ids : j # i => Phase(j)' = Phase(j),
           \/ Phase(i)' = Phase(i)
           \/ Phase(i) = "absent" /\ Phase(i)' = "creating"
           \/ Phase(i) = "creating" /\ Phase(i)' \in {"created", "stopped", "absent"}
           \/ Phase(i) = "created" /\ Phase(i)' \in {"running", "stopped"}
           \/ Phase(i) = "running" /\ Phase(i)' = "stopped"
           \/ Phase(i) = "stopped" /\ Phase(i)' = "absent"
    PROVE  [Oci!Next]_([j \in Ids |-> Phase(j)])
<1>1. CASE Phase(i)' = Phase(i)
  BY <1>1
<1>2. ASSUME NEW from, NEW to, Phase(i) \in from, Phase(i)' \in to
      PROVE  Oci!Move(i, from, to)
  <2>1. [j \in Ids |-> Phase(j)]' = [[j \in Ids |-> Phase(j)] EXCEPT ![i] = Phase(i)']
    OBVIOUS
  <2> QED BY <1>2, <2>1 DEF Oci!Move
<1>3. ASSUME Phase(i)' # Phase(i)
      PROVE  Oci!Next
  BY <1>2, <1>3 DEF Oci!Next, Oci!Create, Oci!Created, Oci!CreateFails, Oci!Start, Oci!Die, Oci!Delete
<1> QED BY <1>1, <1>3

AtStart == {"setup", "opening", "writing"}
Through == {"gate", "user"}

LEMMA PhaseIs ==
    ASSUME NEW i \in Ids
    PROVE  /\ dir[i] = 0 => Phase(i) = "absent"
           /\ dir[i] # 0 /\ Creating(i) => Phase(i) = "creating"
           /\ dir[i] # 0 /\ ~Creating(i) /\ InitIn(i, AtStart) => Phase(i) = "created"
           /\ dir[i] # 0 /\ ~Creating(i) /\ ~InitIn(i, AtStart) /\ InitIn(i, Through)
                => Phase(i) = "running"
           /\ dir[i] # 0 /\ ~Creating(i) /\ ~InitIn(i, AtStart) /\ ~InitIn(i, Through)
                => Phase(i) = "stopped"
BY DEF AtStart, Through, Phase

LEMMA PhaseWillBe ==
    ASSUME NEW i \in Ids
    PROVE  /\ dir'[i] = 0 => Phase(i)' = "absent"
           /\ dir'[i] # 0 /\ Creating(i)' => Phase(i)' = "creating"
           /\ dir'[i] # 0 /\ ~Creating(i)' /\ InitIn(i, AtStart)' => Phase(i)' = "created"
           /\ dir'[i] # 0 /\ ~Creating(i)' /\ ~InitIn(i, AtStart)' /\ InitIn(i, Through)'
                => Phase(i)' = "running"
           /\ dir'[i] # 0 /\ ~Creating(i)' /\ ~InitIn(i, AtStart)' /\ ~InitIn(i, Through)'
                => Phase(i)' = "stopped"
BY DEF AtStart, Through, Phase

phases == [i \in Ids |-> Phase(i)]

LEMMA SamePhase ==
    ASSUME NEW i \in Ids, dir'[i] = dir[i],
           Creating(i)' <=> Creating(i),
           InitIn(i, AtStart)' <=> InitIn(i, AtStart),
           InitIn(i, Through)' <=> InitIn(i, Through)
    PROVE  Phase(i)' = Phase(i)
BY PhaseIs, PhaseWillBe

LEMMA CreatingIs ==
    ASSUME NEW i \in Ids
    PROVE  /\ Creating(i) <=> \E c \in Clis : /\ Creates(cli[c]) /\ cli[c].id = i
                                              /\ cli[c].num = dir[i]
           /\ Creating(i)' <=> \E c \in Clis : /\ Creates(cli[c])' /\ cli'[c].id = i
                                               /\ cli'[c].num = dir'[i]
BY DEF Creating, Creates

LEMMA InitInIs ==
    ASSUME NEW i \in Ids, NEW S \in {AtStart, Through}
    PROVE  /\ InitIn(i, S) <=> \E p \in Pids : /\ LiveInit(p) /\ proc[p].st \in S
                                               /\ proc[p].root = dir[i]
           /\ InitIn(i, S)' <=> \E p \in Pids : /\ LiveInit(p)' /\ proc'[p].st \in S
                                                /\ proc'[p].root = dir'[i]
BY DEF InitIn, LiveInit, InitStates, AtStart, Through

\* Where a create is at work no init process has passed the gate.
LEMMA NoneThrough ==
    ASSUME TypeOK, LifeInv, PassInv, NEW i \in Ids, dir[i] # 0, Creating(i)
    PROVE  ~InitIn(i, Through)
<1>1. PICK c \in Clis : Creates(cli[c]) /\ cli[c].id = i /\ cli[c].num = dir[i]
  BY CreatingIs
<1>2. cli[c].pc \notin Early
  BY <1>1 DEF LifeInv, LabelOK, EarlyOK, Untouched
<1>3. ASSUME NEW p \in Pids, LiveInit(p), proc[p].root = dir[i]
      PROVE  proc[p].st \in {"setup", "opening"}
  <2>1. proc[p].id = i
    BY <1>3, AtHome DEF LifeInv, Dirs
  <2> QED BY <1>1, <1>2, <1>3, <2>1 DEF PassInv, PassOK
<1> QED BY <1>3, InitInIs DEF Through

---------------------------------------------------------------------------
(* The steps of a command that kill nobody.                                *)

Kills(c) == Signal(c) \/ SigKill(c) \/ Terminate(c)

LEMMA KeepsAlive ==
    ASSUME TypeOK, NEW c \in Clis, CliStep(c), ~Kills(c), NEW p \in Pids, LiveInit(p)
    PROVE  proc'[p] = proc[p]
<1>1. CASE StartFork(c)
  <2>1. ASSUME NEW q \in Pids, proc[q].st = "free", proc' = [proc EXCEPT ![q] = NewInit(c)]
        PROVE  proc'[p] = proc[p]
    BY <2>1 DEF TypeOK, ProcType, LiveInit, InitStates
  <2> QED BY <1>1, <2>1 DEF StartFork
<1>2. CASE CreateStep(c) /\ ~StartFork(c)
  BY <1>2 DEF Kills, CreateStep, CreateSpec, CreateStat, CreateMkdir, CreateMkfifo,
              CreateFs, CreateNet, SetupIO, StartOpenRoot, CreatePidFile, AdjustOomScore
<1>3. CASE LoadStep(c)
  BY <1>3 DEF Kills, LoadStep, Load, Probe, ExecOpen, ExecRead, ExecRemove, Poll
<1>4. CASE SharedStep(c) \/ Exit(c)
  BY <1>4 DEF SharedStep, SaveOpen, SaveWrite, Destroy, RemoveEntries, Rmdir,
              NetworkDestroy, Exit
<1> QED BY <1>1, <1>2, <1>3, <1>4 DEF CliStep

\* In another directory nothing changes, in its own there may be a new init
\* process that is setting up.
LEMMA InitsElsewhere ==
    ASSUME TypeOK, LifeInv, NEW c \in Clis, CliStep(c), ~Kills(c), OwnOK(cli[c]),
           NEW j \in Ids, dir'[j] = dir[j], j # cli[c].id \/ ~StartFork(c),
           NEW S \in {AtStart, Through}
    PROVE  InitIn(j, S)' <=> InitIn(j, S)
<1>1. ASSUME NEW p \in Pids, LiveInit(p), proc[p].st \in S, proc[p].root = dir[j]
      PROVE  LiveInit(p)' /\ proc'[p].st \in S /\ proc'[p].root = dir'[j]
  BY <1>1, KeepsAlive DEF LiveInit
<1>2. ASSUME NEW p \in Pids, LiveInit(p)', proc'[p].st \in S, proc'[p].root = dir'[j]
      PROVE  LiveInit(p) /\ proc[p].st \in S /\ proc[p].root = dir[j]
  <2>1. CASE StillLives(p) /\ proc'[p] = proc[p]
    BY <1>2, <2>1 DEF StillLives
  <2>2. CASE StartFork(c) /\ proc'[p].root = dir[cli[c].id]
    <3>1. dir[cli[c].id] # 0 /\ cli[c].id \in Ids
      BY <2>2, ForkCreates, OneMoves DEF TypeOK, CliType, CliRecords, Busy
    <3> QED BY <1>2, <2>2, <3>1 DEF LifeInv, Dirs
  <2> QED BY <1>2, <2>1, <2>2, ForkedHere
<1> QED BY <1>1, <1>2, InitInIs

LEMMA OtherPhase ==
    ASSUME TypeOK, LifeInv, PassInv, NEW c \in Clis, CliStep(c), ~Kills(c),
           NEW j \in Ids, j # cli[c].id
    PROVE  Phase(j)' = Phase(j)
<1>t. CliType /\ OwnOK(cli[c])
  BY DEF TypeOK, PassInv
<1>1. dir'[j] = dir[j]
  BY Local DEF LifeInv
<1>2. InitIn(j, AtStart)' <=> InitIn(j, AtStart)
  BY <1>1, <1>t, InitsElsewhere
<1>3. InitIn(j, Through)' <=> InitIn(j, Through)
  BY <1>1, <1>t, InitsElsewhere
<1>4. Creating(j)' <=> Creating(j)
  <2>1. \A o \in Clis : o # c => cli'[o] = cli[o]
    BY <1>t, OneMoves, NowIs
  <2>2. Creates(cli[c])' => cli'[c].id = cli[c].id
    BY StillCreates DEF Same
  <2> QED BY <1>1, <2>1, <2>2, CreatingIs DEF Creates
<1> QED BY <1>1, <1>2, <1>3, <1>4, SamePhase

\* The steps of a command that leave its path and the process table alone.
LEMMA QuietPhase ==
    ASSUME TypeOK, LifeInv, PassInv, NEW c \in Clis, CliStep(c), ~Kills(c), ~StartFork(c),
           NEW i \in Ids, cli[c].id = i, dir'[i] = dir[i]
    PROVE  \/ Phase(i)' = Phase(i)
           \/ Phase(i) = "creating" /\ Phase(i)' \in {"created", "stopped"}
<1>t. OwnOK(cli[c])
  BY DEF PassInv
<1>1. InitIn(i, AtStart)' <=> InitIn(i, AtStart)
  BY <1>t, InitsElsewhere
<1>2. InitIn(i, Through)' <=> InitIn(i, Through)
  BY <1>t, InitsElsewhere
<1>3. Creating(i)' => Creating(i)
  BY StillCreates, CreatingIs DEF Same
<1>4. CASE Creating(i)' <=> Creating(i)
  BY <1>1, <1>2, <1>4, SamePhase
<1>5. CASE dir[i] # 0 /\ Creating(i) /\ ~Creating(i)'
  BY <1>2, <1>5, NoneThrough, PhaseIs, PhaseWillBe
<1>6. CASE dir[i] = 0
  BY <1>6, PhaseIs, PhaseWillBe
<1> QED BY <1>3, <1>4, <1>5, <1>6

LEMMA OwnPhase ==
    ASSUME TypeOK, LifeInv, PassInv, NEW c \in Clis, CliStep(c), ~Kills(c),
           NEW i \in Ids, cli[c].id = i
    PROVE  \/ Phase(i)' = Phase(i)
           \/ Phase(i) = "absent" /\ Phase(i)' = "creating"
           \/ Phase(i) = "creating" /\ Phase(i)' \in {"created", "stopped", "absent"}
           \/ Phase(i) = "stopped" /\ Phase(i)' = "absent"
<1>t. CliType /\ FsType /\ OwnOK(cli[c]) /\ Role(cli[c]) /\ LabelOK(cli[c])
  BY DEF TypeOK, PassInv, LifeInv, Roles
<1>g. \A l : Goto(c, l) => cli'[c].pc = l /\ Same(cli'[c], cli[c])
  BY <1>t, NewGoto, NowIs, AtIs DEF CliType
<1>1. CASE CreateMkdir(c) /\ Goto(c, "mkfifo")
  <2>1. dir[i] = 0 /\ cli[c].cmd = "create" /\ cli[c].pc = "mkdir"
    BY <1>1, <1>t DEF CreateMkdir, LabelOK, EarlyOK, Role, CreateLabels
  <2>2. Creates(cli[c]) /\ cli[c].num # 0
    BY <2>1 DEF Creates, EndLabels, PassInv, Nums, TypeOK, CounterType
  <2>3. dir'[i] = cli[c].num
    <3>1. ~Goto(c, "err")
      BY <1>1, <1>g
    <3> QED BY <1>1, <3>1, <1>t, MkdirMakes DEF FsType
  <2>4. Creates(cli[c])' /\ cli'[c].num = cli[c].num /\ cli'[c].id = i
    BY <1>1, <2>1, <1>g DEF CreateMkdir, Creates, EndLabels, Same
  <2> QED BY <2>1, <2>2, <2>3, <2>4, CreatingIs, PhaseIs, PhaseWillBe
<1>2. CASE Rmdir(c)
  <2>1. CASE dir'[i] = dir[i]
    BY <1>2, <2>1, QuietPhase DEF Rmdir, StartFork
  <2>2. CASE dir'[i] = 0
    <3>1. NoneLives(i)
      BY <1>2, <1>t DEF Rmdir, LabelOK, RemoveOK, RemoveLabels
    <3>2. dir[i] # 0 => NoneRooted(dir[i])
      BY <3>1, DeadHere
    <3>3. dir[i] # 0 => ~InitIn(i, AtStart) /\ ~InitIn(i, Through)
      BY <3>2, InitInIs DEF NoneRooted
    <3> QED BY <2>2, <3>3, PhaseIs, PhaseWillBe
  <2> QED BY <1>2, <2>1, <2>2, <1>t DEF Rmdir, FsType
<1>3. CASE StartFork(c)
  <2>1. Creates(cli[c]) /\ dir[i] = cli[c].num /\ dir[i] # 0 /\ UNCHANGED dir
    BY <1>3, <1>t, ForkCreates DEF StartFork, fsVars
  <2>2. cli'[c].pc \in {"saveopen", "destroy"} /\ Same(cli'[c], cli[c])
    BY <1>3, <1>g, <1>t, NowIs, ForkedIs DEF StartFork, Now, CliType
  <2>3. Creates(cli[c])' /\ cli'[c].num = dir'[i] /\ cli'[c].id = i
    BY <2>1, <2>2 DEF Creates, EndLabels, Same
  <2>4. Creating(i) /\ Creating(i)' /\ dir'[i] # 0
    BY <2>1, <2>3, CreatingIs
  <2> QED BY <2>1, <2>4, PhaseIs, PhaseWillBe
<1>4. CASE CreateMkdir(c) /\ ~Goto(c, "mkfifo")
  <2>1. dir'[i] = dir[i] /\ ~StartFork(c)
    BY <1>4, MkdirMakes DEF CreateMkdir, StartFork
  <2> QED BY <2>1, QuietPhase
<1>5. CASE ~CreateMkdir(c) /\ ~Rmdir(c) /\ ~StartFork(c)
  BY <1>5, DirSteps, QuietPhase
<1> QED BY <1>1, <1>2, <1>3, <1>4, <1>5

---------------------------------------------------------------------------
(* Deaths, and the other steps of the processes.                           *)

\* The death of a process is that of its container, whoever caused it.
LEMMA OneDies ==
    ASSUME TypeOK, LifeInv, UNCHANGED dir, \A i \in Ids : Creating(i)' <=> Creating(i),
           NEW p \in Pids, \A q \in Pids : q # p => proc'[q] = proc[q], ~LiveInit(p)'
    PROVE  [Oci!Next]_phases
<1>q. \A q \in Pids : q # p => (LiveInit(q)' <=> LiveInit(q))
  BY DEF LiveInit
<1>1. CASE ~LiveInit(p)
  <2>1. \A q \in Pids : LiveInit(q)' <=> LiveInit(q)
    BY <1>1, <1>q
  <2>2. \A q \in Pids : LiveInit(q) => proc'[q] = proc[q]
    BY <1>1
  <2>3. ASSUME NEW i \in Ids PROVE Phase(i)' = Phase(i)
    <3>1. ASSUME NEW S \in {AtStart, Through} PROVE InitIn(i, S)' <=> InitIn(i, S)
      BY <2>1, <2>2, <3>1, InitInIs
    <3> QED BY <3>1, SamePhase
  <2> QED BY <2>3 DEF phases
<1>2. CASE LiveInit(p)
  <2> DEFINE i == proc[p].id
  <2>1. i \in Ids /\ dir[i] = proc[p].root /\ dir[i] # 0
    BY <1>2, AtHome
  <2>2. ASSUME NEW j \in Ids, j # i
        PROVE  Phase(j)' = Phase(j)
    <3>1. proc[p].root # dir[j]
      BY <2>1, <2>2 DEF LifeInv, Dirs
    <3>2. ASSUME NEW q \in Pids
          PROVE  LiveInit(q)' /\ proc'[q].root = dir[j] <=> LiveInit(q) /\ proc[q].root = dir[j]
      <4>1. CASE q = p
        BY <3>1, <4>1
      <4>2. CASE q # p
        <5>1. (LiveInit(q)' <=> LiveInit(q)) /\ proc'[q] = proc[q]
          BY <4>2, <1>q
        <5> QED BY <5>1
      <4> QED BY <4>1, <4>2
    <3>3. ASSUME NEW S \in {AtStart, Through}
          PROVE  InitIn(j, S)' <=> InitIn(j, S)
      <4>1. ASSUME NEW q \in Pids, LiveInit(q), proc[q].root = dir[j]
            PROVE  proc'[q] = proc[q]
        BY <3>1, <4>1
      <4> QED BY <3>2, <4>1, InitInIs
    <3> QED BY <3>3, SamePhase
  <2>3. ASSUME NEW j \in Ids, j = i
        PROVE  Phase(j)' = Phase(j) \/ (Phase(j) \in {"created", "running"} /\ Phase(j)' = "stopped")
    <3>1. CASE Creating(j)
      BY <2>1, <2>3, <3>1, PhaseIs, PhaseWillBe
    <3>2. CASE ~Creating(j)
      <4>1. \A q \in Pids : LiveInit(q) /\ proc[q].root = dir[j] => q = p
        BY <1>2, <2>1, <2>3, OneInit
      <4>2. ~InitIn(j, AtStart)' /\ ~InitIn(j, Through)'
        BY <4>1, <1>q, InitInIs
      <4>3. InitIn(j, AtStart) \/ InitIn(j, Through)
        BY <1>2, <2>1, <2>3 DEF InitIn, AtStart, Through, LiveInit, InitStates
      <4> QED BY <2>1, <2>3, <3>2, <4>2, <4>3, PhaseIs, PhaseWillBe
    <3> QED BY <3>1, <3>2
  <2>4. PICK j \in Ids : j = i
    BY <2>1
  <2> QED BY <2>2, <2>3, <2>4, InvisibleOrMove DEF phases
<1> QED BY <1>1, <1>2

LEMMA KillPhase ==
    ASSUME TypeOK, PidKnown, LifeInv, PassInv, NEW c \in Clis, CliStep(c), Kills(c)
    PROVE  [Oci!Next]_phases
<1>t. CliType /\ ProcType /\ Role(cli[c]) /\ cli[c] \in CliRecords
  BY DEF TypeOK, CliType, LifeInv, Roles
<1>o. \A o \in Clis : o # c => cli'[o] = cli[o]
  BY <1>t, OneMoves, NowIs
<1>g. \A l : Goto(c, l) => cli'[c].pc = l /\ Same(cli'[c], cli[c])
  BY <1>t, NewGoto, NowIs, AtIs
<1>1. UNCHANGED dir
  BY DEF Kills, Signal, SigKill, Terminate, fsVars
<1>2. Same(cli'[c], cli[c]) /\ (Creates(cli[c])' <=> Creates(cli[c]))
  <2>1. CASE Signal(c) \/ SigKill(c)
    BY <2>1, <1>g, <1>t DEF Signal, SigKill, Role, Same, Creates
  <2>2. CASE Terminate(c)
    <3>1. cli'[c].pc = "destroy" /\ Same(cli'[c], cli[c])
      BY <2>2, <1>t, NewTerminate, NowIs, TerminatedIs
    <3> QED BY <2>2, <3>1 DEF Terminate, Creates, EndLabels, Same
  <2> QED BY <2>1, <2>2 DEF Kills
<1>3. \A i \in Ids : Creating(i)' <=> Creating(i)
  BY <1>1, <1>2, <1>o, CreatingIs DEF Same, Creates
<1>4. \/ UNCHANGED proc
      \/ \E p \in Pids : /\ \A q \in Pids : q # p => proc'[q] = proc[q]
                         /\ ~LiveInit(p)'
  <2>1. ASSUME proc' = Killed(cli[c].pid)
        PROVE  \/ UNCHANGED proc
               \/ \E p \in Pids : /\ \A q \in Pids : q # p => proc'[q] = proc[q]
                                  /\ ~LiveInit(p)'
    <3>1. CASE cli[c].pid \in Pids
      <4>1. \A q \in Pids : q # cli[c].pid => proc'[q] = proc[q]
        BY <2>1 DEF Killed
      <4>2. PICK p \in Pids : p = cli[c].pid
        BY <3>1
      <4>3. proc'[p].st \notin InitStates
        BY <4>2, <2>1, <1>t DEF Killed, ProcType, Procs, NoProc, InitStates
      <4> QED BY <4>1, <4>2, <4>3 DEF LiveInit
    <3>2. CASE cli[c].pid \notin Pids
      BY <2>1, <3>2, <1>t DEF Killed, ProcType
    <3> QED BY <3>1, <3>2
  <2>2. ASSUME Terminate(c)
        PROVE  \/ UNCHANGED proc
               \/ \E p \in Pids : /\ \A q \in Pids : q # p => proc'[q] = proc[q]
                                  /\ ~LiveInit(p)'
    <3>1. proc' = [proc EXCEPT ![cli[c].child] = NoProc]
      BY <2>2 DEF Terminate
    <3>2. CASE cli[c].child \in Pids
      <4>1. PICK p \in Pids : p = cli[c].child
        BY <3>2
      <4>2. proc'[p] = NoProc /\ \A q \in Pids : q # p => proc'[q] = proc[q]
        BY <3>1, <4>1, <1>t DEF ProcType
      <4> QED BY <4>2 DEF LiveInit, NoProc, InitStates
    <3>3. CASE cli[c].child \notin Pids
      BY <3>1, <3>3, <1>t DEF ProcType
    <3> QED BY <3>2, <3>3
  <2> QED BY <2>1, <2>2 DEF Kills, Signal, SigKill
<1>5. CASE UNCHANGED proc
  <2>1. ASSUME NEW i \in Ids PROVE Phase(i)' = Phase(i)
    BY <1>1, <1>3, <1>5, SamePhase DEF InitIn
  <2> QED BY <2>1 DEF phases
<1> QED BY <1>1, <1>3, <1>4, <1>5, OneDies

LEMMA ProcPhase ==
    ASSUME TypeOK, LifeInv, PassInv, NEW q \in Pids, ProcStep(q)
    PROVE  [Oci!Next]_phases
<1>t. CliType /\ proc \in [Pids -> Procs]
  BY DEF TypeOK, ProcType
<1>f. UNCHANGED dir /\ (UNCHANGED cli \/ \E f : cli' = Woken(f))
  BY ProcFrame
<1>c. \A i \in Ids : Creating(i)' <=> Creating(i)
  <2>1. ASSUME NEW o \in Clis
        PROVE  /\ Creates(cli[o]) => cli'[o] = cli[o]
               /\ Creates(cli[o])' => Creates(cli[o]) /\ Same(cli'[o], cli[o])
    <3>1. cli'[o] = cli[o] \/ cli[o].pc = "blocked"
      BY <1>f, <1>t DEF Woken, CliType
    <3>2. cli[o].pc = "blocked" => cli[o].cmd # "create"
      BY DEF LifeInv, Roles, Role
    <3> QED BY <3>1, <3>2, StillCreates DEF Creates
  <2>2. \A o \in Clis : Creates(cli[o]) => Creates(cli[o])'
    BY <2>1 DEF Creates
  <2> QED BY <2>1, <2>2, <1>f, CreatingIs DEF Same
<1>p. \A p \in Pids : p # q => proc'[p] = proc[p]
  BY <1>t DEF ProcStep, InitStep, InitSetup, InitSetupFails, InitOpened, InitWrite,
              InitLaunch, InitExit, InitDies, Reap, OtherSpawn, OtherExit
<1>1. CASE ~LiveInit(q)'
  BY <1>1, <1>f, <1>c, <1>p, OneDies
<1>2. CASE LiveInit(q)'
  <2>1. LiveInit(q) /\ proc'[q].root = proc[q].root
    BY <1>2, ProcLives DEF StillLives
  <2>2. CASE ~(proc[q].st = "writing" /\ proc'[q].st = "gate" /\ Readers(proc[q].fifo) # {})
    <3>1. ASSUME NEW S \in {AtStart, Through}
          PROVE  proc'[q].st \in S <=> proc[q].st \in S
      BY <1>2, <2>2, ProcStates DEF AtStart, Through
    <3>2. ASSUME NEW i \in Ids, NEW S \in {AtStart, Through}
          PROVE  InitIn(i, S)' <=> InitIn(i, S)
      BY <1>f, <1>p, <2>1, <3>1 DEF InitIn
    <3>3. ASSUME NEW i \in Ids PROVE Phase(i)' = Phase(i)
      BY <1>f, <1>c, <3>2, SamePhase
    <3> QED BY <3>3 DEF phases
  <2>3. CASE proc[q].st = "writing" /\ proc'[q].st = "gate" /\ Readers(proc[q].fifo) # {}
    <3>1. /\ \A o \in Clis : Creates(cli[o]) => cli[o].num # proc[q].root
          /\ \A p \in Pids : LiveInit(p) /\ proc[p].root = proc[q].root => p = q
      BY <2>3, MetAtGate
    <3>2. PICK i \in Ids : i = proc[q].id
      BY <2>1, AtHome
    <3>3. dir[i] = proc[q].root /\ dir[i] # 0
      BY <3>2, <2>1, AtHome
    <3>4. ~Creating(i)
      BY <3>1, <3>3, CreatingIs
    <3>5. InitIn(i, AtStart) /\ InitIn(i, Through)'
      BY <1>f, <2>1, <2>3, <3>3 DEF InitIn, AtStart, Through
    <3>6. ~InitIn(i, AtStart)'
      <4>1. ASSUME NEW p \in Pids, proc'[p].st \in AtStart, proc'[p].root = dir'[i]
            PROVE  FALSE
        BY <1>f, <1>p, <2>3, <3>1, <3>3, <4>1 DEF AtStart, LiveInit, InitStates
      <4> QED BY <4>1 DEF InitIn
    <3>7. Phase(i) = "created" /\ Phase(i)' = "running"
      BY <1>f, <1>c, <3>3, <3>4, <3>5, <3>6, PhaseIs, PhaseWillBe
    <3>8. ASSUME NEW j \in Ids, j # i
          PROVE  Phase(j)' = Phase(j)
      <4>1. dir[j] # proc[q].root
        BY <3>3, <3>8 DEF LifeInv, Dirs
      <4>2. ASSUME NEW S \in {AtStart, Through}
            PROVE  InitIn(j, S)' <=> InitIn(j, S)
        BY <1>f, <1>p, <2>1, <4>1 DEF InitIn
      <4> QED BY <1>f, <1>c, <4>2, SamePhase
    <3> QED BY <3>7, <3>8, InvisibleOrMove DEF phases
  <2> QED BY <2>2, <2>3
<1> QED BY <1>1, <1>2

LEMMA InvokePhase ==
    ASSUME TypeOK, LifeInv, NEW c \in Clis, NEW m \in Commands, NEW k \in Ids, Invoke(c, m, k)
    PROVE  UNCHANGED phases
<1>t. CliType /\ creates \in Nat
  BY DEF TypeOK, CounterType
<1>1. /\ UNCHANGED <<dir, proc>> /\ cli[c].pc = "idle"
      /\ \A o \in Clis : o # c => cli'[o] = cli[o]
  BY <1>t DEF Invoke, CliType, fsVars
<1>2. Creates(cli[c])' => \A i \in Ids : dir[i] # cli'[c].num
  <2>1. Creates(cli[c])' => cli'[c].num = creates + 1 /\ creates + 1 \in Inodes
    BY <1>t DEF Invoke, CliType, IdleCli, Inodes, Creates
  <2> QED BY <2>1, <1>t DEF LifeInv, Dirs, Untouched
<1>3. \A i \in Ids : Creating(i)' <=> Creating(i)
  BY <1>1, <1>2, CreatingIs DEF Creates
<1>4. ASSUME NEW i \in Ids PROVE Phase(i)' = Phase(i)
  BY <1>1, <1>3, <1>4, SamePhase DEF InitIn
<1> QED BY <1>4 DEF phases

\* A container has the life of an OCI container: Runnc, with callers that run
\* create and delete of an id alone and let commands finish, implements
\* OciContainer, whatever fails but a save and the reading of a start time
\* (delete.go:49-94, util_runner.go:41-94, init_nabla.go:147-158).
THEOREM LivesLikeOci == ASSUME Careful PROVE Spec => ImplementsOci
<1>1. Init => Oci!Init
  BY DEF Init, Oci!Init, Phase
<1>2. TypeOK /\ PidKnown /\ LifeInv /\ PassInv /\ [Next]_vars => [Oci!Next]_phases
  <2> SUFFICES ASSUME TypeOK, PidKnown, LifeInv, PassInv, [Next]_vars
               PROVE  [Oci!Next]_phases
    OBVIOUS
  <2>1. CASE UNCHANGED vars
    <3>1. UNCHANGED <<dir, proc, cli>>
      BY <2>1 DEF vars, fsVars
    <3>2. \A i \in Ids : Creating(i)' <=> Creating(i)
      BY <3>1, CreatingIs DEF Creates
    <3>3. ASSUME NEW i \in Ids PROVE Phase(i)' = Phase(i)
      BY <3>1, <3>2, SamePhase DEF InitIn
    <3> QED BY <3>3 DEF phases
  <2>2. \A c \in Clis : ~Crash(c)
    BY DEF Crash, TypeOK, CounterType, Careful
  <2>3. ASSUME NEW c \in Clis, CliStep(c), ~Kills(c)
        PROVE  [Oci!Next]_phases
    <3>1. PICK i \in Ids : i = cli[c].id
      BY <2>3, OneMoves DEF TypeOK, CliType, CliRecords, Busy
    <3> QED BY <2>3, <3>1, OwnPhase, OtherPhase, InvisibleOrMove DEF phases
  <2> QED BY <2>1, <2>2, <2>3, KillPhase, ProcPhase, InvokePhase DEF Next
<1> QED BY <1>1, <1>2, PassStays, LifeGoesWell, TypeCorrect, PidsKnown, PTL
        DEF Spec, ImplementsOci, Oci!Spec, phases

\* Everything the invariants of this project say of a container's life holds
\* together at every label of every command, on a host where what is
\* removed can be removed and nothing fails inside the factory
\* (container_nabla.go:253-402, delete.go:49-94, util_runner.go:41-94).
THEOREM LifetimeCorrect ==
    ASSUME Careful, FreshHost PROVE Spec => []LifetimeInv
<1>1. CleanHost
  BY DEF FreshHost
<1> QED BY <1>1, LifeGoesWell, CleanStays, FreshStays, PassStays, PTL DEF LifetimeInv

============================================================================
