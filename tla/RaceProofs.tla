----------------------------- MODULE RaceProofs -----------------------------
(***************************************************************************)
(* Creates that race for one id or for one TAP name, with starts, states   *)
(* and kills in between, for any number of containers, commands, pids and  *)
(* creates: the TAP device has one owner, and so has the id.               *)
(***************************************************************************)
EXTENDS Racing, LifetimeProofs

USE IdAssumption, PidAssumption, TapAssumption, BoundAssumption

---------------------------------------------------------------------------
(* What one owner of a device means.                                       *)

LEMMA StepTypes ==
    ASSUME TypeOK, NEW c \in Clis, CliStep(c)
    PROVE  CliType /\ FsType /\ cli[c] \in CliRecords /\ cli[c].id \in Ids /\ Busy(c)
BY OneMoves DEF TypeOK, CliType, CliRecords, Busy

\* Two commands that own a device do not work on the same id.
LEMMA OwnApart ==
    ASSUME RaceInv, NEW c \in Clis, NEW o \in Clis, o # c,
           Owning(cli[c]), Owning(cli[o])
    PROVE  cli[c].id # cli[o].id
BY DEF RaceInv, OneUser, OneCommand, TapOfCli

\* A create that removes what it made owns its device.
LEMMA CreateOwns ==
    ASSUME RaceInv, NEW c \in Clis, cli[c].cmd = "create",
           cli[c].pc \in RemoveLabels \union SaveLabels \union {"fork"}
    PROVE  Owning(cli[c])
BY DEF RaceInv, Roles, Role, Owning, RemoveLabels, SaveLabels

\* A command that owns the device of a record is about to hand it over.
LEMMA OwnRecord ==
    ASSUME RaceInv, NEW c \in Clis, Owning(cli[c]), cli[c].id \in Ids,
           HasRecord(cli[c].id)
    PROVE  HandsOver(c)
BY DEF RaceInv, OneUser, CommandOrRecord, TapOfCli

\* The pid that a command holds is on record, and is one.
LEMMA HeldPid ==
    ASSUME RaceInv, PidKnown, NEW c \in Clis, cli[c].cmd # "create", cli[c].pc \in HoldsPid
    PROVE  /\ HasRecord(cli[c].id)
           /\ file[dir[cli[c].id]].pid = cli[c].pid /\ cli[c].pid # 0
           /\ cli[c].status = "stopped" => NoneLives(cli[c].id)
BY DEF RaceInv, RaceLabel, HeldOK, PidKnown, PidOK

\* Whoever owns the device of a living init process is the create that has
\* just forked it.
LEMMA OwnerOfLive ==
    ASSUME TypeOK, RaceInv, NEW c \in Clis, Owning(cli[c]), NEW p \in Pids, LiveInit(p),
           TapOf[proc[p].id] = TapOfCli(c)
    PROVE  /\ cli[c].cmd = "create" /\ cli[c].pc \in SaveLabels
           /\ cli[c].child = p /\ cli[c].id = proc[p].id
<1>i. proc[p].id \in Ids
  BY DEF RaceInv, RaceInits
<1>1. CASE Unsaved(p)
  <2>1. PICK o \in Clis : /\ cli[o].cmd = "create" /\ cli[o].pc \in SaveLabels
                          /\ cli[o].id = proc[p].id /\ cli[o].child = p
    BY <1>1 DEF Unsaved
  <2>2. Owning(cli[o]) /\ TapOfCli(o) = TapOfCli(c)
    BY <2>1, CreateOwns DEF TapOfCli
  <2>3. o = c
    BY <2>2 DEF RaceInv, OneUser, OneCommand
  <2> QED BY <2>1, <2>3
<1>2. CASE HasRecord(proc[p].id) /\ file[dir[proc[p].id]].pid = p
  <2>1. proc[p].id = cli[c].id /\ HandsOver(c)
    BY <1>2, <1>i DEF RaceInv, OneUser, CommandOrRecord
  <2>2. CASE cli[c].cmd = "create" /\ cli[c].pc = "savewrite"
    BY <1>2, <2>1, <2>2 DEF RaceInv, RaceLabel, NewOK, SaveLabels
  <2>3. CASE cli[c].cmd = "delete" /\ cli[c].pc \in {"destroy", "rm"}
    BY <2>1, <2>3 DEF RaceInv, RaceLabel, KilledOK, NoneLives, RemoveLabels
  <2> QED BY <2>1, <2>2, <2>3 DEF HandsOver
<1> QED BY <1>1, <1>2 DEF RaceInv, RaceInits

\* A command that has loaded the container knows its living init process.
LEMMA LiveIsHeld ==
    ASSUME TypeOK, RaceInv, PidKnown, NEW c \in Clis, cli[c].cmd # "create",
           cli[c].pc \in HoldsPid, cli[c].id \in Ids,
           NEW p \in Pids, LiveInit(p), proc[p].id = cli[c].id
    PROVE  p = cli[c].pid
<1>1. HasRecord(cli[c].id) /\ file[dir[cli[c].id]].pid = cli[c].pid /\ cli[c].pid # 0
  BY HeldPid
<1>2. ~Unsaved(p)
  <2> SUFFICES ASSUME NEW o \in Clis, cli[o].cmd = "create", cli[o].pc \in SaveLabels,
                      cli[o].id = cli[c].id
               PROVE  FALSE
    BY DEF Unsaved
  <2>1. HandsOver(o)
    BY <1>1, CreateOwns, OwnRecord
  <2>2. file[dir[cli[o].id]].pid = 0
    BY <2>1 DEF HandsOver, RaceInv, RaceLabel, NewOK
  <2> QED BY <1>1, <2>2
<1> QED BY <1>1, <1>2 DEF RaceInv, RaceInits

---------------------------------------------------------------------------
(* What a step of a command does to a record.                              *)

RecordKept(i) == /\ HasRecord(i) /\ HasRecord(i)' /\ dir'[i] = dir[i]
                 /\ file'[dir[i]].pid = file[dir[i]].pid
                 /\ file'[dir[i]].status = file[dir[i]].status

RecordMade(c, i) == /\ cli[c].cmd = "create" /\ cli[c].pc = "saveopen"
                    /\ ~HasRecord(i) /\ HasRecord(i)' /\ dir'[i] = dir[i]
                    /\ file'[dir[i]].pid = 0

RecordWritten(c, i) == /\ cli[c].pc = "savewrite"
                       /\ HasRecord(i) /\ HasRecord(i)' /\ dir'[i] = dir[i]
                       /\ file'[dir[i]].pid = cli[c].pid
                       /\ file'[dir[i]].status = cli[c].status

RecordRemoved(c, i) == /\ cli[c].cmd = "delete" /\ cli[c].pc = "rm"
                       /\ HasRecord(i) /\ ~HasRecord(i)'

LEMMA RecordSteps ==
    ASSUME TypeOK, RaceInv, "save" \notin Faults, NEW c \in Clis, CliStep(c), NEW i \in Ids
    PROVE  \/ RecordKept(i)
           \/ ~HasRecord(i) /\ ~HasRecord(i)'
           \/ /\ i = cli[c].id
              /\ RecordMade(c, i) \/ RecordWritten(c, i) \/ RecordRemoved(c, i)
<1>t. CliType /\ FsType /\ cli[c] \in CliRecords /\ cli[c].id \in Ids
  BY StepTypes
<1>d. \/ dir'[i] = dir[i]
      \/ CreateMkdir(c) /\ dir[i] = 0 /\ dir'[i] = cli[c].num
      \/ Rmdir(c) /\ dir[i] # 0 /\ dir'[i] = 0 /\ Entries(dir[i]) = {}
  <2>1. CASE CreateMkdir(c)
    BY <2>1, <1>t DEF CreateMkdir, FsType
  <2>2. CASE Rmdir(c)
    <3>1. CASE i = cli[c].id
      BY <2>2, <3>1, <1>t DEF Rmdir, FsType
    <3>2. CASE i # cli[c].id
      BY <2>2, <3>2, <1>t DEF Rmdir, FsType
    <3> QED BY <3>1, <3>2
  <2> QED BY <2>1, <2>2, DirSteps
<1>1. CASE CreateMkdir(c) /\ dir[i] = 0 /\ dir'[i] = cli[c].num
  <2>1. UNCHANGED file /\ file[cli[c].num] = NoFile
    BY <1>1 DEF CreateMkdir, RaceInv, NewDirs, Early, Untouched
  <2> QED BY <1>1, <2>1 DEF HasRecord, NoFile
<1>2. CASE Rmdir(c) /\ dir[i] # 0 /\ dir'[i] = 0 /\ Entries(dir[i]) = {}
  <2>1. file[dir[i]].kind = "none"
    <3>1. "file" \notin Entries(dir[i])
      BY <1>2
    <3> QED BY <3>1 DEF Entries
  <2> QED BY <1>2, <2>1 DEF HasRecord
<1>3. CASE dir'[i] = dir[i] /\ dir[i] # 0
  <2> DEFINE d == dir[i]
  <2>1. d \in Inodes /\ d # 0
    BY <1>3, <1>t DEF FsType
  <2>2. d = dir[cli[c].id] => i = cli[c].id
    BY <1>3, <1>t DEF RaceInv, Dirs
  <2>h. (HasRecord(i) <=> file[d].kind # "none") /\ (HasRecord(i)' <=> file'[d].kind # "none")
    BY <1>3 DEF HasRecord
  <2>3. CASE file'[d] = file[d]
    BY <1>3, <2>3, <2>h DEF RecordKept
  <2>4. CASE /\ cli[c].pc = "saveopen" /\ d = dir[cli[c].id] /\ file'[d].kind = "torn"
             /\ file'[d].pid = file[d].pid /\ file'[d].status = file[d].status
    <3>1. CASE file[d].kind # "none"
      BY <1>3, <2>4, <2>h, <3>1 DEF RecordKept
    <3>2. CASE file[d].kind = "none"
      <4>1. cli[c].cmd = "create"
        BY <2>2, <2>4, <2>h, <3>2 DEF RaceInv, RaceLabel, HeldOK, HoldsPid
      <4>2. file[d].pid = 0
        BY <2>1, <3>2 DEF RaceInv, RaceRecords, NoFile
      <4> QED BY <1>3, <2>2, <2>4, <2>h, <3>2, <4>1, <4>2 DEF RecordMade
    <3> QED BY <3>1, <3>2
  <2>5. CASE /\ cli[c].pc = "savewrite" /\ d = dir[cli[c].id] /\ file'[d].kind = "ok"
             /\ file'[d].pid = cli[c].pid /\ file'[d].status = cli[c].status
    <3>1. HasRecord(i)
      BY <2>2, <2>5 DEF RaceInv, RaceLabel, HeldOK, NewOK, HoldsPid
    <3> QED BY <1>3, <2>2, <2>5, <2>h, <3>1 DEF RecordWritten
  <2>6. CASE cli[c].pc = "rm" /\ d = dir[cli[c].id] /\ file'[d] = NoFile
    <3>1. ~HasRecord(i)'
      BY <2>6, <2>h DEF NoFile
    <3>2. HasRecord(i) => cli[c].cmd = "delete"
      <4>1. cli[c].cmd \in {"create", "delete"}
        BY <2>6 DEF RaceInv, Roles, Role, RemoveLabels
      <4>2. HasRecord(i) /\ cli[c].cmd = "create" => HandsOver(c)
        BY <2>2, <2>6, <1>t, CreateOwns, OwnRecord DEF RemoveLabels
      <4> QED BY <2>6, <4>1, <4>2 DEF HandsOver
    <3> QED BY <2>2, <2>6, <3>1, <3>2 DEF RecordRemoved
  <2>7. Opens
    BY DEF RaceInv
  <2> HIDE DEF d
  <2> QED BY <2>1, <2>3, <2>4, <2>5, <2>6, <2>7, FileSteps
<1>4. CASE dir'[i] = dir[i] /\ dir[i] = 0
  BY <1>4 DEF HasRecord
<1> QED BY <1>d, <1>1, <1>2, <1>3, <1>4

LEMMA MadeOrHad ==
    ASSUME TypeOK, RaceInv, "save" \notin Faults, NEW c \in Clis, CliStep(c), NEW i \in Ids,
           HasRecord(i)'
    PROVE  HasRecord(i) \/ (i = cli[c].id /\ RecordMade(c, i))
<1>1. (RecordKept(i) => HasRecord(i)) /\ (RecordWritten(c, i) => HasRecord(i))
      /\ ~RecordRemoved(c, i)
  BY DEF RecordKept, RecordWritten, RecordRemoved
<1>2. \/ RecordKept(i)
      \/ ~HasRecord(i) /\ ~HasRecord(i)'
      \/ /\ i = cli[c].id
         /\ RecordMade(c, i) \/ RecordWritten(c, i) \/ RecordRemoved(c, i)
  BY RecordSteps
<1> QED BY <1>1, <1>2

---------------------------------------------------------------------------
(* The owners of the devices.                                              *)

\* How a command comes to own its device, or goes on owning it.
StillOwns(c) ==
    /\ Owning(cli[c])
    /\ cli[c].pc # "netdestroy"
    /\ ~(cli[c].cmd = "create" /\ cli[c].pc = "savewrite")
    /\ cli[c].pc = "saveopen" => cli'[c].pc = "savewrite"
    /\ cli[c].pc = "destroy" => cli'[c].pc = "rm"
    /\ cli[c].pc = "rm" => ~HasRecord(cli[c].id)'

AddsTap(c) == /\ cli[c].pc = "net" /\ cli[c].cmd = "create"
              /\ TapOfCli(c) \notin taps
              /\ taps' = taps \union {TapOfCli(c)}

TakesOver(c) == /\ cli[c].cmd = "delete" /\ cli[c].pc \in HoldsPid
                /\ cli'[c].pc = "destroy"

LEMMA CreateOwnSteps ==
    ASSUME TypeOK, RaceInv, NEW c \in Clis, CreateStep(c), Owning(cli'[c])
    PROVE  StillOwns(c) \/ AddsTap(c)
<1>c. CliStep(c)
  BY DEF CliStep
<1>t. CliType /\ cli[c] \in CliRecords /\ Role(cli[c])
  BY <1>c, StepTypes DEF RaceInv, Roles
<1>g. \A l : Goto(c, l) => cli'[c].pc = l
  BY <1>t, NewGoto, NowIs, AtIs
<1> USE DEF Owning, SaveLabels
<1>1. CASE CreateSpec(c) \/ CreateStat(c) \/ CreateMkdir(c) \/ CreateMkfifo(c) \/ CreateFs(c)
           \/ CreatePidFile(c) \/ AdjustOomScore(c) \/ Terminate(c)
  <2>1. ~Terminate(c)
    BY DEF RaceInv, RaceLabel, NewOK, Terminate
  <2>2. ASSUME NEW l \in {"stat", "mkdir", "mkfifo", "fs", "net", "err", "oom", "ok", "terminate"},
               Goto(c, l)
        PROVE  FALSE
    BY <2>2, <1>g
  <2> QED BY <1>1, <2>1, <2>2 DEF CreateSpec, CreateStat, CreateMkdir, CreateMkfifo, CreateFs,
                    CreatePidFile, AdjustOomScore
<1>2. CASE CreateNet(c)
  <2>1. cli[c].cmd = "create"
    BY <1>2, <1>t DEF CreateNet, Role, CreateLabels
  <2> QED BY <1>2, <1>g, <2>1 DEF CreateNet, AddsTap, TapOfCli
<1>3. CASE SetupIO(c) \/ StartOpenRoot(c) \/ StartFork(c)
  BY <1>3, <1>t DEF SetupIO, StartOpenRoot, StartFork, Role, CreateLabels, StillOwns
<1> QED BY <1>1, <1>2, <1>3 DEF CreateStep

LEMMA LoadOwnSteps ==
    ASSUME TypeOK, RaceInv, NEW c \in Clis, LoadStep(c), Owning(cli'[c])
    PROVE  TakesOver(c)
<1>c. CliStep(c)
  BY DEF CliStep
<1>t. CliType /\ cli[c] \in CliRecords /\ Role(cli[c])
  BY <1>c, StepTypes DEF RaceInv, Roles
<1>k. cli[c].cmd # "create"
  BY <1>t DEF LoadStep, Load, Probe, ExecOpen, ExecRead, ExecRemove, Signal, SigKill, Poll,
              Role, LoadLabels
<1>g. \A l : Goto(c, l) => cli'[c].pc = l /\ Same(cli'[c], cli[c])
  BY <1>t, NewGoto, NowIs, AtIs
<1>n. \A r : Now(c, r) => cli'[c] = r
  BY <1>t, NowIs
<1>0. ASSUME NEW l, Goto(c, l), l \notin {"destroy", "netdestroy", "rm", "rmdir"}
      PROVE  FALSE
  BY <1>0, <1>g, <1>k DEF Owning, Same
<1>1. CASE Load(c)
  <2>1. CASE Now(c, NotThere(cli[c]))
    BY <2>1, <1>n, <1>t, <1>k, NotThereIs DEF Owning, Same
  <2>2. CASE Now(c, Loaded(cli[c]))
    BY <2>2, <1>n, <1>t, <1>k, LoadedIs DEF Owning, Same, AfterLoad
  <2> QED BY <1>1, <2>1, <2>2, <1>0, <1>t, NewLoad
<1>2. CASE Probe(c)
  <2>1. cli[c].pc \in HoldsPid
    BY <1>2 DEF Probe, HoldsPid, Signalling
  <2>2. ASSUME NEW l \in AfterStatus(cli[c], cli[c].status), Goto(c, l)
        PROVE  TakesOver(c)
    <3>1. l = "destroy"
      BY <2>2, <1>0 DEF AfterStatus, StartSwitch, StateSwitch, DeleteSwitch
    <3>2. cli[c].cmd = "delete"
      BY <1>2, <1>t, <2>2, <3>1 DEF Probe, Role, AfterStatus, StartSwitch, StateSwitch
    <3> QED BY <2>1, <2>2, <3>1, <3>2, <1>g DEF TakesOver
  <2>3. ASSUME NEW l, Now(c, FoundDead(cli[c], l))
        PROVE  FALSE
    BY <2>3, <1>n, <1>t, <1>k, FoundDeadIs DEF Owning, Same
  <2> QED BY <1>2, <2>2, <2>3, <1>t, NewProbe
<1>3. CASE ExecOpen(c)
  <2>1. ASSUME NEW l \in {"blocked", "read"}, Now(c, AtFifo(cli[c], l))
        PROVE  FALSE
    BY <2>1, <1>n, <1>t, <1>k, AtFifoIs DEF Owning, Same
  <2> QED BY <1>3, <2>1, <1>0, <1>t, NewExecOpen
<1>4. CASE ExecRead(c)
  <2>1. ASSUME Now(c, Started(cli[c]))
        PROVE  FALSE
    BY <2>1, <1>n, <1>t, <1>k, StartedIs DEF Owning, Same
  <2> QED BY <1>4, <2>1, <1>0 DEF ExecRead, Now
<1>5. CASE ExecRemove(c) \/ Signal(c) \/ SigKill(c)
  BY <1>5, <1>0 DEF ExecRemove, Signal, SigKill
<1>6. CASE Poll(c)
  <2>1. Goto(c, "destroy") /\ cli[c].pc = "poll"
    BY <1>6, <1>0 DEF Poll
  <2>2. cli[c].cmd = "delete"
    BY <2>1, <1>t DEF Role
  <2> QED BY <2>1, <2>2, <1>g DEF TakesOver, HoldsPid, Signalling
<1> QED BY <1>1, <1>2, <1>3, <1>4, <1>5, <1>6 DEF LoadStep

LEMMA SharedOwnSteps ==
    ASSUME TypeOK, RaceInv, NEW c \in Clis, SharedStep(c), Owning(cli'[c])
    PROVE  StillOwns(c) \/ TakesOver(c)
<1>c. CliStep(c)
  BY DEF CliStep
<1>t. CliType /\ FsType /\ cli[c] \in CliRecords /\ cli[c].id \in Ids /\ Role(cli[c])
  BY <1>c, StepTypes DEF RaceInv, Roles
<1>g. \A l : Goto(c, l) => cli'[c].pc = l /\ Same(cli'[c], cli[c]) /\ cli'[c].ret = cli[c].ret
  BY <1>t, NewGoto, NowIs, AtIs
<1>1. CASE SaveOpen(c)
  <2>0. cli[c].pc = "saveopen"
    BY <1>1 DEF SaveOpen
  <2>1. dir[cli[c].id] # 0
    BY <2>0 DEF RaceInv, RaceLabel, NewOK, HeldOK, HoldsPid, SaveLabels, HasRecord
  <2>2. Goto(c, "savewrite")
    BY <1>1, <2>1 DEF SaveOpen
  <2>3. cli[c].cmd = "create"
    BY <2>2, <1>g DEF Owning, Same
  <2> QED BY <2>0, <2>2, <2>3, <1>g DEF StillOwns, Owning, SaveLabels
<1>2. CASE SaveWrite(c)
  <2>1. Goto(c, cli[c].ret) /\ SaveRole(cli[c]) /\ cli[c].pc = "savewrite"
    BY <1>2, <1>t DEF SaveWrite, Role, SaveLabels
  <2>2. cli[c].ret = "destroy" /\ cli[c].cmd = "delete"
    BY <2>1, <1>g DEF SaveRole, Owning, Same, SaveLabels
  <2> QED BY <2>1, <2>2, <1>g DEF TakesOver, HoldsPid
<1>3. CASE Destroy(c)
  <2>1. cli'[c].pc = "rm" /\ cli[c].pc = "destroy"
    <3>1. cli'[c] = Destroying(cli[c])
      BY <1>3, <1>t, NewDestroy, NowIs
    <3>2. Destroying(cli[c]).pc = "rm"
      BY <1>t, DestroyingIs
    <3> QED BY <1>3, <3>1, <3>2 DEF Destroy
  <2> QED BY <2>1 DEF StillOwns, Owning
<1>r. cli[c].pc \in {"rm", "rmdir"} =>
        /\ AfterRmFailure(cli[c]) \in {"ok", "err", "undone"}
        /\ cli[c].ret \in {"netdestroy", "err"}
  BY <1>t DEF Role, AfterRmFailure, AfterDestroy
<1>e. ASSUME NEW l \in {"ok", "err", "undone"}, Goto(c, l) PROVE FALSE
  BY <1>e, <1>g DEF Owning, SaveLabels
<1>4. ASSUME NEW kept \in SUBSET {"file", "fifo", "iso"}, RemoveEntries(c, kept)
      PROVE  StillOwns(c)
  <2>0. cli[c].pc = "rm" /\ UNCHANGED dir
    BY <1>4 DEF RemoveEntries
  <2>1. CASE dir[cli[c].id] = 0
    <3>1. Goto(c, cli[c].ret)
      BY <1>4, <2>1 DEF RemoveEntries
    <3>2. cli[c].ret = "netdestroy"
      BY <3>1, <2>0, <1>r, <1>e
    <3>3. ~HasRecord(cli[c].id)'
      BY <2>0, <2>1, <3>1, <1>g DEF HasRecord, Same
    <3> QED BY <2>0, <3>2, <3>3 DEF StillOwns, Owning
  <2>2. CASE dir[cli[c].id] # 0
    <3>1. kept = {} /\ Goto(c, "rmdir")
      BY <1>4, <2>0, <2>2, <1>r, <1>e DEF RemoveEntries
    <3>2. cli[c].ret = "netdestroy"
      BY <3>1, <1>g DEF Owning, SaveLabels
    <3>3. dir[cli[c].id] \in Inodes
      BY <2>2, <1>t DEF FsType
    <3>4. file' = [file EXCEPT ![dir[cli[c].id]] = NoFile]
      BY <1>4, <2>2, <3>1 DEF RemoveEntries
    <3>5. file'[dir[cli[c].id]] = NoFile
      BY <3>3, <3>4, <1>t DEF FsType
    <3>6. ~HasRecord(cli[c].id)'
      BY <2>0, <3>1, <3>5, <1>g DEF HasRecord, NoFile, Same
    <3> QED BY <2>0, <3>2, <3>6 DEF StillOwns, Owning
  <2> QED BY <2>1, <2>2
<1>5. CASE Rmdir(c)
  <2>0. cli[c].pc = "rmdir"
    BY <1>5 DEF Rmdir
  <2>1. Goto(c, cli[c].ret) /\ cli[c].ret = "netdestroy"
    BY <1>5, <2>0, <1>r, <1>e DEF Rmdir
  <2> QED BY <2>0, <2>1 DEF StillOwns, Owning
<1>6. CASE NetworkDestroy(c)
  BY <1>6, <1>e DEF NetworkDestroy, AfterDestroy
<1> QED BY <1>1, <1>2, <1>3, <1>4, <1>5, <1>6 DEF SharedStep

LEMMA OwnSteps ==
    ASSUME TypeOK, RaceInv, NEW c \in Clis, CliStep(c), Owning(cli'[c])
    PROVE  /\ cli'[c].id = cli[c].id /\ cli'[c].cmd = cli[c].cmd
           /\ StillOwns(c) \/ AddsTap(c) \/ TakesOver(c)
<1>1. Busy(c)'
  BY DEF Busy, Owning, SaveLabels
<1>2. ~Exit(c)
  <2>1. Exit(c) => cli'[c].pc = "idle"
    BY DEF Exit, TypeOK, CliType, IdleCli
  <2> QED BY <1>1, <2>1 DEF Busy
<1> QED BY <1>1, <1>2, StillBusy, CreateOwnSteps, LoadOwnSteps, SharedOwnSteps DEF CliStep

\* Whoever does not own its device at the end of a step leaves that of others
\* alone.
LEMMA TapStays ==
    ASSUME TypeOK, RaceInv, NEW c \in Clis, CliStep(c), NEW t \in taps,
           cli[c].pc = "netdestroy" => t # TapOfCli(c)
    PROVE  t \in taps'
<1>1. CASE CreateNet(c)
  BY <1>1 DEF CreateNet
<1>2. CASE NetworkDestroy(c)
  BY <1>2 DEF NetworkDestroy, TapOfCli
<1> QED BY <1>1, <1>2, TapSteps

\* A device that is removed is on no record.
LEMMA RemovesOwn ==
    ASSUME RaceInv, NEW c \in Clis, cli[c].pc = "netdestroy"
    PROVE  /\ Owning(cli[c]) /\ ~HandsOver(c)
           /\ \A i \in Ids : HasRecord(i) => TapOf[i] # TapOfCli(c)
<1>1. Owning(cli[c]) /\ ~HandsOver(c)
  BY DEF Owning, HandsOver
<1> QED BY <1>1 DEF RaceInv, OneUser, CommandOrRecord

LEMMA UserStep ==
    ASSUME TypeOK, RaceInv, PidKnown, "save" \notin Faults, NEW c \in Clis, CliStep(c)
    PROVE  OneUser'
<1> DEFINE k == cli[c].id
<1>t. CliType /\ cli[c] \in CliRecords /\ k \in Ids /\ Busy(c)
  BY StepTypes
<1>o. \A o \in Clis : o # c => cli'[o] = cli[o]
  BY <1>t, OneMoves, NowIs
<1>k. Owning(cli'[c]) => /\ cli'[c].id = k /\ cli'[c].cmd = cli[c].cmd
                         /\ StillOwns(c) \/ AddsTap(c) \/ TakesOver(c)
  BY OwnSteps
<1>u. OwnersHaveTap /\ OneCommand /\ OneRecord /\ CommandOrRecord
  BY DEF RaceInv, OneUser
<1>r. \A i \in Ids : HasRecord(i)' => HasRecord(i) \/ (i = k /\ RecordMade(c, i))
  BY MadeOrHad
<1>m. \A i \in Ids : RecordMade(c, i) => /\ Owning(cli[c]) /\ ~HandsOver(c)
                                         /\ cli[c].pc = "saveopen" /\ cli[c].cmd = "create"
  BY DEF RecordMade, Owning, HandsOver, SaveLabels
<1>h. TakesOver(c) => HasRecord(k) /\ cli[c].pc # "netdestroy"
  BY HeldPid DEF TakesOver, HoldsPid, Signalling
<1>1. OwnersHaveTap'
  <2>1. ASSUME NEW o \in Clis, Owning(cli'[o])
        PROVE  TapOf[cli'[o].id] \in taps'
    <3>1. CASE o # c
      <4>1. Owning(cli[o]) /\ TapOf[cli[o].id] \in taps /\ cli'[o] = cli[o]
        BY <2>1, <3>1, <1>o, <1>u DEF OwnersHaveTap, TapOfCli
      <4>2. cli[c].pc = "netdestroy" => TapOf[cli[o].id] # TapOfCli(c)
        BY <3>1, <4>1, <1>u, RemovesOwn DEF OneCommand, TapOfCli
      <4> QED BY <4>1, <4>2, TapStays
    <3>2. CASE o = c /\ StillOwns(c)
      <4>1. TapOf[k] \in taps /\ cli[c].pc # "netdestroy"
        BY <3>2, <1>u DEF OwnersHaveTap, TapOfCli, StillOwns
      <4> QED BY <2>1, <3>2, <4>1, <1>k, TapStays
    <3>3. CASE o = c /\ AddsTap(c)
      BY <2>1, <3>3, <1>k DEF AddsTap, TapOfCli
    <3>4. CASE o = c /\ TakesOver(c)
      <4>1. TapOf[k] \in taps /\ cli[c].pc # "netdestroy"
        BY <3>4, <1>h, <1>u, <1>t DEF OwnersHaveTap
      <4> QED BY <2>1, <3>4, <4>1, <1>k, TapStays
    <3> QED BY <2>1, <3>1, <3>2, <3>3, <3>4, <1>k
  <2>2. ASSUME NEW i \in Ids, HasRecord(i)'
        PROVE  TapOf[i] \in taps'
    <3>1. CASE HasRecord(i)
      <4>1. TapOf[i] \in taps
        BY <3>1, <1>u DEF OwnersHaveTap
      <4>2. cli[c].pc = "netdestroy" => TapOf[i] # TapOfCli(c)
        BY <3>1, RemovesOwn
      <4> QED BY <4>1, <4>2, TapStays
    <3>2. CASE i = k /\ RecordMade(c, i)
      <4>1. TapOf[i] \in taps /\ cli[c].pc # "netdestroy"
        BY <3>2, <1>m, <1>u DEF OwnersHaveTap, TapOfCli
      <4> QED BY <4>1, TapStays
    <3> QED BY <2>2, <3>1, <3>2, <1>r
  <2> QED BY <2>1, <2>2 DEF OwnersHaveTap, TapOfCli
<1>2. OneCommand'
  <2>1. ASSUME NEW o \in Clis, o # c, Owning(cli'[c]), Owning(cli[o])
        PROVE  TapOf[k] # TapOf[cli[o].id]
    <3>1. CASE StillOwns(c)
      BY <2>1, <3>1, <1>u DEF OneCommand, TapOfCli, StillOwns
    <3>2. CASE AddsTap(c)
      BY <2>1, <3>2, <1>u DEF OwnersHaveTap, TapOfCli, AddsTap
    <3>3. CASE TakesOver(c)
      <4> SUFFICES ASSUME TapOf[k] = TapOf[cli[o].id] PROVE FALSE
        OBVIOUS
      <4>1. k = cli[o].id
        BY <2>1, <3>3, <1>h, <1>u, <1>t DEF CommandOrRecord, TapOfCli
      <4>2. Busy(o)
        BY <2>1 DEF Owning, Busy, SaveLabels
      <4> QED BY <2>1, <3>3, <4>1, <4>2, <1>t DEF RaceInv, DeleteAlone, TakesOver
    <3> QED BY <2>1, <3>1, <3>2, <3>3, <1>k
  <2>2. \A o \in Clis : o # c /\ Owning(cli'[c]) /\ Owning(cli'[o]) => TapOfCli(c)' # TapOfCli(o)'
    BY <2>1, <1>o, <1>k DEF TapOfCli
  <2>3. \A o, q \in Clis : o # c /\ q # c /\ o # q /\ Owning(cli'[o]) /\ Owning(cli'[q])
                             => TapOfCli(o)' # TapOfCli(q)'
    BY <1>o, <1>u DEF OneCommand, TapOfCli
  <2> QED BY <2>2, <2>3 DEF OneCommand
<1>3. OneRecord'
  <2> SUFFICES ASSUME NEW i \in Ids, NEW j \in Ids, HasRecord(i)', HasRecord(j)',
                      TapOf[i] = TapOf[j], i # j
               PROVE  FALSE
    BY DEF OneRecord
  <2>1. HasRecord(i) \/ (i = k /\ RecordMade(c, i))
    BY <1>r
  <2>2. HasRecord(j) \/ (j = k /\ RecordMade(c, j))
    BY <1>r
  <2>3. ~(HasRecord(i) /\ HasRecord(j))
    BY <1>u DEF OneRecord
  <2>4. \A e \in Ids : RecordMade(c, k) /\ HasRecord(e) => TapOf[e] # TapOf[k]
    BY <1>m, <1>u, <1>t DEF CommandOrRecord, TapOfCli
  <2> QED BY <2>1, <2>2, <2>3, <2>4
<1>4. CommandOrRecord'
  <2> SUFFICES ASSUME NEW o \in Clis, NEW i \in Ids, Owning(cli'[o]), HasRecord(i)',
                      TapOf[i] = TapOf[cli'[o].id]
               PROVE  i = cli'[o].id /\ HandsOver(o)'
    BY DEF CommandOrRecord, TapOfCli
  <2>1. CASE o # c
    <3>1. cli'[o] = cli[o] /\ Owning(cli[o])
      BY <2>1, <1>o
    <3>2. HasRecord(i)
      <4>1. RecordMade(c, i) /\ i = k => FALSE
        BY <2>1, <3>1, <1>m, <1>u DEF OneCommand, TapOfCli
      <4> QED BY <4>1, <1>r
    <3> QED BY <3>1, <3>2, <1>u DEF CommandOrRecord, TapOfCli, HandsOver
  <2>2. CASE o = c
    <3>0. cli'[c].id = k /\ cli'[c].cmd = cli[c].cmd /\ TapOf[i] = TapOfCli(c)
      BY <2>2, <1>k DEF TapOfCli
    <3>1. CASE StillOwns(c)
      <4>1. CASE HasRecord(i)
        <5>1. i = k /\ HandsOver(c)
          BY <3>0, <3>1, <4>1, <1>u DEF CommandOrRecord, StillOwns
        <5>2. cli[c].cmd = "delete" /\ cli[c].pc = "destroy"
          BY <2>2, <3>0, <3>1, <5>1 DEF HandsOver, StillOwns, HasRecord
        <5> QED BY <2>2, <3>0, <3>1, <5>1, <5>2 DEF HandsOver, StillOwns
      <4>2. CASE i = k /\ RecordMade(c, i)
        BY <2>2, <3>0, <3>1, <4>2, <1>m DEF HandsOver, StillOwns
      <4> QED BY <4>1, <4>2, <1>r
    <3>2. CASE AddsTap(c)
      BY <3>0, <3>2, <1>r, <1>m, <1>u DEF AddsTap, OwnersHaveTap
    <3>3. CASE TakesOver(c)
      <4>1. HasRecord(i)
        BY <3>3, <1>r, <1>m DEF TakesOver
      <4>2. i = k
        BY <3>0, <3>3, <4>1, <1>h, <1>u, <1>t DEF OneRecord, TapOfCli
      <4> QED BY <2>2, <3>0, <3>3, <4>2 DEF TakesOver, HandsOver
    <3> QED BY <2>2, <3>1, <3>2, <3>3, <1>k
  <2> QED BY <2>1, <2>2
<1> QED BY <1>1, <1>2, <1>3, <1>4 DEF OneUser

---------------------------------------------------------------------------
(* The callers, the directories and the open files.                        *)

LEMMA DeleteAloneStep ==
    ASSUME TypeOK, DeleteAlone, "delete" \in Exclusive,
           \/ \E c \in Clis : \/ CliStep(c)
                              \/ \E m \in Commands, i \in Ids : Invoke(c, m, i)
           \/ \E q \in Pids : ProcStep(q)
    PROVE  DeleteAlone'
<1>t. CliType
  BY DEF TypeOK
<1>1. ASSUME NEW a \in Clis, CliStep(a)
      PROVE  DeleteAlone'
  BY <1>1, StillBusy DEF DeleteAlone
<1>3. ASSUME NEW q \in Pids, ProcStep(q)
      PROVE  DeleteAlone'
  BY <1>3, StillBusy DEF DeleteAlone
<1>2. ASSUME NEW a \in Clis, NEW m \in Commands, NEW i \in Ids, Invoke(a, m, i)
      PROVE  DeleteAlone'
  <2>1. /\ ~Busy(a)
        /\ \A o \in Clis : o # a => cli'[o] = cli[o]
        /\ cli'[a].cmd = m /\ cli'[a].id = i
    BY <1>2, <1>t DEF Invoke, Busy, CliType, IdleCli
  <2>2. \A o \in Clis : Busy(o) /\ cli[o].id = i
                          => m \notin Exclusive /\ cli[o].cmd \notin Exclusive
    BY <1>2 DEF Invoke, Busy
  <2>3. \A o \in Clis \ {a} : Busy(o)' => Busy(o)
    BY <2>1 DEF Busy
  <2> QED BY <2>1, <2>2, <2>3 DEF DeleteAlone
<1> QED BY <1>1, <1>2, <1>3

\* Another command at the same id is no delete, and neither is the one that
\* moves.
LEMMA Together ==
    ASSUME RaceInv, NEW c \in Clis, NEW o \in Clis, o # c, Busy(c), Busy(o),
           cli[c].id = cli[o].id
    PROVE  cli[c].cmd # "delete" /\ cli[o].cmd # "delete"
BY DEF RaceInv, DeleteAlone

LEMMA NewDirsStep ==
    ASSUME TypeOK, RaceInv, NEW c \in Clis, CliStep(c)
    PROVE  NewDirs'
<1> SUFFICES ASSUME NEW o \in Clis, cli'[o].pc \in Early
             PROVE  /\ cli'[o].num \in 1 .. creates' /\ file'[cli'[o].num] = NoFile
                    /\ \A i \in Ids : dir'[i] # cli'[o].num
  BY DEF NewDirs, Untouched
<1>t. CliType /\ cli[c] \in CliRecords /\ UNCHANGED creates
  BY StepTypes, OneMoves DEF counters
<1>o. o # c => cli'[o] = cli[o]
  BY <1>t, OneMoves, NowIs
<1>b. Busy(o)'
  BY DEF Early, Busy
<1>1. cli[o].pc \in Early /\ cli'[o].num = cli[o].num
      /\ (o = c => UNCHANGED <<dir, file>>)
  BY <1>o, <1>b, EarlyMoves, StillBusy DEF Early, fsVars
<1>2. cli[o].num \in 1 .. creates /\ Untouched(cli[o].num) /\ cli[o].num \in Inodes
  BY <1>1 DEF RaceInv, NewDirs, TypeOK, CounterType, Inodes
<1>3. CASE o = c
  BY <1>1, <1>2, <1>3, <1>t DEF Untouched
<1>4. CASE o # c
  <2>1. cli[c].pc = "mkdir" => cli[c].num # cli[o].num
    BY <1>1, <1>4 DEF RaceInv, Dirs, Early
  <2>2. Opens
    BY DEF RaceInv
  <2>3. \A n \in Inodes : n = cli[o].num => Untouched(n)'
    BY <1>2, <2>1, <2>2, StaysUntouched
  <2> QED BY <1>1, <1>2, <1>t, <2>3 DEF Untouched
<1> QED BY <1>3, <1>4

\* Other commands keep their files open until these are removed.
LEMMA OpenKept ==
    ASSUME TypeOK, NEW c \in Clis, CliStep(c), NEW o \in Clis, o # c, NEW d \in Inodes
    PROVE  /\ o \in file'[d].open => o \in file[d].open
           /\ o \in file[d].open => o \in file'[d].open \/ file'[d] = NoFile
<1>t. FsType /\ cli[c].id \in Ids
  BY StepTypes
<1>1. CASE SaveOpen(c)
  <2> DEFINE e == dir[cli[c].id]
  <2>1. CASE e # 0
    <3>1. /\ file'[e].open = file[e].open \union {c}
          /\ \A n \in Inodes : n # e => file'[n] = file[n]
      BY <1>1, <2>1, <1>t, SavedOpen
    <3> HIDE DEF e
    <3>2. CASE d = e
      BY <3>1, <3>2
    <3>3. CASE d # e
      BY <3>1, <3>3
    <3> QED BY <3>2, <3>3
  <2>2. CASE e = 0
    BY <1>1, <2>2 DEF SaveOpen
  <2> QED BY <2>1, <2>2
<1>2. CASE SaveWrite(c)
  BY <1>2, <1>t DEF SaveWrite, Written, Closed, FsType, Files
<1>3. ASSUME NEW kept \in SUBSET {"file", "fifo", "iso"}, RemoveEntries(c, kept)
      PROVE  file'[d] = file[d] \/ file'[d] = NoFile
  BY <1>3, <1>t DEF RemoveEntries, FsType
<1>4. CASE UNCHANGED file
  BY <1>4
<1> QED BY <1>1, <1>2, <1>3, <1>4, FileUntouched DEF CliStep, SharedStep, NoFile

\* What c itself has open after its step.
LEMMA OpenOwn ==
    ASSUME TypeOK, Opens, NEW c \in Clis, CliStep(c), NEW d \in Inodes, c \in file'[d].open
    PROVE  SaveOpen(c) /\ d = dir[cli[c].id] /\ Goto(c, "savewrite") /\ UNCHANGED dir
<1>t. FsType /\ cli[c].id \in Ids
  BY StepTypes
<1>1. CASE SaveOpen(c)
  <2>1. c \notin file[d].open
    BY <1>1 DEF Opens, SaveOpen
  <2>2. dir[cli[c].id] # 0
    BY <1>1, <2>1 DEF SaveOpen
  <2> QED BY <1>1, <2>1, <2>2, <1>t, SavedOpen DEF SaveOpen
<1>2. CASE SaveWrite(c)
  BY <1>2, <1>t DEF SaveWrite, Written, Closed, FsType, Files
<1>3. CASE ~SaveOpen(c) /\ ~SaveWrite(c)
  <2>1. c \notin file[d].open
    BY <1>3, OnlyStep DEF Opens
  <2>2. ASSUME NEW kept \in SUBSET {"file", "fifo", "iso"}, RemoveEntries(c, kept)
        PROVE  file'[d] = file[d] \/ file'[d] = NoFile
    BY <2>2, <1>t DEF RemoveEntries, FsType
  <2> QED BY <1>3, <2>1, <2>2, FileUntouched DEF CliStep, SharedStep, NoFile
<1> QED BY <1>1, <1>2, <1>3

LEMMA RaceOpens ==
    ASSUME TypeOK, RaceInv, NEW c \in Clis, CliStep(c)
    PROVE  Opens'
<1>t. CliType /\ FsType /\ cli[c] \in CliRecords /\ cli[c].id \in Ids
  BY StepTypes
<1> SUFFICES ASSUME NEW d \in Inodes, NEW o \in Clis, o \in file'[d].open
             PROVE  cli'[o].pc = "savewrite" /\ dir'[cli'[o].id] = d
  <2>1. FsType'
    BY CreateTypes, LoadTypes, SharedTypes, CallerTypes DEF CliStep, TypeOK
  <2> QED BY <2>1 DEF Opens, FsType, Files
<1>p. Opens
  BY DEF RaceInv
<1>1. CASE o = c
  <2>1. d = dir[cli[c].id] /\ Goto(c, "savewrite") /\ UNCHANGED dir
    BY <1>1, <1>p, OpenOwn
  <2>2. cli'[c].pc = "savewrite" /\ cli'[c].id = cli[c].id
    BY <2>1, <1>t, NewGoto, NowIs, AtIs DEF Same
  <2> QED BY <1>1, <2>1, <2>2
<1>2. CASE o # c
  <2>1. cli'[o] = cli[o] /\ o \in file[d].open
    BY <1>2, <1>t, OneMoves, NowIs, OpenKept
  <2>2. cli[o].pc = "savewrite" /\ dir[cli[o].id] = d
    BY <2>1, <1>p DEF Opens
  <2>3. cli[o].id \in Ids
    BY <2>2, <1>t DEF CliType, CliRecords
  <2>4. file[d].kind # "none"
    BY <2>1 DEF RaceInv, RaceRecords, NoFile
  <2>5. dir'[cli[o].id] = d
    <3>1. CASE CreateMkdir(c)
      BY <3>1, <2>2, <2>3, <1>t DEF CreateMkdir, FsType, Inodes
    <3>2. CASE Rmdir(c)
      <4>1. CASE cli[o].id = cli[c].id
        <5>1. "file" \in Entries(d)
          BY <2>4 DEF Entries
        <5> QED BY <3>2, <4>1, <5>1, <2>2 DEF Rmdir, Inodes
      <4>2. CASE cli[o].id # cli[c].id
        BY <3>2, <4>2, <2>2, <2>3, <1>t DEF Rmdir, FsType
      <4> QED BY <4>1, <4>2
    <3> QED BY <3>1, <3>2, <2>2, DirSteps
  <2> QED BY <2>1, <2>2, <2>5
<1> QED BY <1>1, <1>2

---------------------------------------------------------------------------
(* What the commands that do not move know.                                *)

\* Only the create that forks adds a living init process, and it owns the
\* device of its id.
LEMMA NoneBorn ==
    ASSUME TypeOK, RaceInv, NEW c \in Clis, CliStep(c), NEW i, NoneLives(i),
           ~(StartFork(c) /\ i = cli[c].id)
    PROVE  NoneLives(i)'
<1> SUFFICES ASSUME NEW p \in Pids, LiveInit(p)', proc'[p].id = i
             PROVE  FALSE
  BY DEF NoneLives
<1>1. ~StillLives(p)
  BY DEF NoneLives, StillLives
<1>2. StartFork(c) /\ proc'[p] = NewInit(c)
  BY <1>1, Lives
<1> QED BY <1>2 DEF NewInit

\* A create that owns its device keeps its directory.
LEMMA OwnDir ==
    ASSUME TypeOK, RaceInv, NEW c \in Clis, NEW o \in Clis, o # c, CliStep(c),
           Busy(o), Owning(cli[o]), cli[o].id \in Ids, dir[cli[o].id] # 0
    PROVE  dir'[cli[o].id] = dir[cli[o].id]
<1>t. CliType /\ FsType /\ cli[c].id \in Ids /\ Busy(c)
  BY StepTypes
<1>1. CASE CreateMkdir(c)
  BY <1>1, <1>t DEF CreateMkdir, FsType
<1>2. CASE Rmdir(c)
  <2>1. CASE cli[o].id = cli[c].id
    <3>1. cli[c].pc = "rmdir" /\ cli[c].cmd # "delete"
      BY <1>2, <2>1, <1>t, Together DEF Rmdir
    <3>2. cli[c].cmd = "create"
      BY <3>1 DEF RaceInv, Roles, Role, RemoveLabels
    <3>3. Owning(cli[c])
      BY <3>1, <3>2, CreateOwns DEF RemoveLabels
    <3> QED BY <2>1, <3>3, OwnApart
  <2>2. CASE cli[o].id # cli[c].id
    BY <1>2, <2>2, <1>t DEF Rmdir, FsType
  <2> QED BY <2>1, <2>2
<1> QED BY <1>1, <1>2, DirSteps

LEMMA OtherRaceLabel ==
    ASSUME TypeOK, RaceInv, PidKnown, "save" \notin Faults, NEW c \in Clis, CliStep(c),
           NEW o \in Clis, o # c, NEW i, i = cli[o].id
    PROVE  RaceLabel(o)'
<1>t. CliType /\ FsType /\ cli[c].id \in Ids /\ Busy(c)
  BY StepTypes
<1>o. cli'[o] = cli[o]
  BY <1>t, OneMoves, NowIs
<1>l. RaceLabel(o)
  BY DEF RaceInv
<1>i. Busy(o) => i \in Ids
  BY <1>t DEF CliType, CliRecords, Busy
<1>c. cli[c].pc = "savewrite" =>
        \/ cli[c].cmd = "create" /\ Owning(cli[c]) /\ file[dir[cli[c].id]].pid = 0
        \/ cli[c].cmd # "create" /\ file[dir[cli[c].id]].pid = cli[c].pid /\ cli[c].pid # 0
  <2>1. cli[c].pc = "savewrite" /\ cli[c].cmd = "create" =>
          Owning(cli[c]) /\ file[dir[cli[c].id]].pid = 0
    BY CreateOwns DEF RaceInv, RaceLabel, NewOK, SaveLabels
  <2>2. cli[c].pc = "savewrite" /\ cli[c].cmd # "create" =>
          file[dir[cli[c].id]].pid = cli[c].pid /\ cli[c].pid # 0
    BY HeldPid DEF HoldsPid
  <2> QED BY <2>1, <2>2
<1>f. StartFork(c) => Owning(cli[c]) /\ ~HandsOver(c)
  BY DEF StartFork, RaceInv, Roles, Role, CreateLabels, Owning, HandsOver
<1>1. NewOK(o)'
  <2>1. ASSUME cli[o].cmd = "create", cli[o].pc \in SaveLabels \union {"fork"}
        PROVE  dir'[i] = dir[i]
    <3>1. Busy(o) /\ Owning(cli[o])
      BY <2>1, CreateOwns DEF Busy, SaveLabels
    <3>2. dir[i] # 0
      BY <2>1, <1>l, <1>t DEF RaceLabel, NewOK, CliType
    <3> QED BY <3>1, <3>2, <1>i, OwnDir
  <2>2. ASSUME cli[o].cmd = "create", cli[o].pc = "savewrite"
        PROVE  HasRecord(i)' /\ file'[dir'[i]].pid = 0 /\ o \in file'[dir'[i]].open
    <3>1. /\ Busy(o) /\ Owning(cli[o]) /\ i \in Ids
          /\ HasRecord(i) /\ file[dir[i]].pid = 0 /\ o \in file[dir[i]].open
      BY <2>2, <1>i, <1>l, CreateOwns DEF Busy, SaveLabels, RaceLabel, NewOK
    <3>2. RecordKept(i)
      <4>1. i = cli[c].id => cli[c].cmd # "delete" /\ ~Owning(cli[c])
        BY <3>1, <1>t, Together, OwnApart
      <4>2. i = cli[c].id => ~RecordWritten(c, i) /\ ~RecordRemoved(c, i) /\ ~RecordMade(c, i)
        BY <3>1, <4>1, <1>c DEF RecordWritten, RecordRemoved, RecordMade
      <4> QED BY <3>1, <4>2, RecordSteps
    <3>3. dir[i] \in Inodes
      BY <3>1, <1>t DEF HasRecord, FsType
    <3>4. o \in file'[dir[i]].open
      <4>1. file'[dir[i]].kind # "none"
        BY <3>2 DEF RecordKept, HasRecord
      <4>2. file'[dir[i]] # NoFile
        BY <4>1 DEF NoFile
      <4> QED BY <3>1, <3>3, <4>2, OpenKept
    <3> QED BY <3>1, <3>2, <3>4 DEF RecordKept
  <2>3. cli[o].pc = "fork" => cli[o].cmd = "create"
    BY DEF RaceInv, Roles, Role, CreateLabels
  <2> QED BY <1>o, <1>l, <2>1, <2>2, <2>3 DEF NewOK, RaceLabel
<1>2. HeldOK(o)'
  <2> SUFFICES ASSUME cli[o].cmd # "create", cli[o].pc \in HoldsPid
               PROVE  /\ HasRecord(i)' /\ file'[dir'[i]].pid = cli[o].pid
                      /\ cli[o].status = "stopped" => NoneLives(i)'
    BY <1>o DEF HeldOK, HasRecord, NoneLives
  <2>1. /\ HasRecord(i) /\ file[dir[i]].pid = cli[o].pid /\ cli[o].pid # 0
        /\ cli[o].status = "stopped" => NoneLives(i)
    BY HeldPid
  <2>2. Busy(o) /\ i \in Ids
    BY <1>i DEF Busy, HoldsPid, Signalling
  <2>3. i = cli[c].id => cli[c].cmd # "delete"
    BY <2>2, <1>t, Together
  <2>4. HasRecord(i)' /\ file'[dir'[i]].pid = cli[o].pid
    <3>1. CASE RecordKept(i)
      BY <2>1, <3>1 DEF RecordKept
    <3>2. CASE i = cli[c].id /\ RecordWritten(c, i)
      BY <2>1, <3>2, <1>c DEF RecordWritten
    <3>3. ~(i = cli[c].id /\ RecordRemoved(c, i)) /\ ~RecordMade(c, i)
      BY <2>1, <2>3 DEF RecordRemoved, RecordMade
    <3> QED BY <2>1, <2>2, <3>1, <3>2, <3>3, RecordSteps
  <2>5. ~(StartFork(c) /\ i = cli[c].id)
    BY <2>1, <1>f, <1>t, OwnRecord
  <2> QED BY <2>1, <2>4, <2>5, NoneBorn
<1>3. KilledOK(o)'
  <2> SUFFICES ASSUME cli[o].cmd = "delete", cli[o].pc \in RemoveLabels
               PROVE  NoneLives(i)'
    BY <1>o DEF KilledOK, NoneLives
  <2>1. NoneLives(i) /\ Busy(o)
    BY <1>l DEF RaceLabel, KilledOK, Busy, RemoveLabels
  <2>2. i # cli[c].id
    BY <2>1, <1>t, Together
  <2> QED BY <2>1, <2>2, NoneBorn
<1> QED BY <1>1, <1>2, <1>3 DEF RaceLabel

---------------------------------------------------------------------------
(* What the command that moves knows.                                      *)

\* The labels at which nothing needs to be so, those of destroy, and those
\* with the pid on record.
LEMMA FreeRaceLabel ==
    ASSUME NEW c \in Clis,
           cli'[c].pc \in {"idle", "ok", "err", "undone", "rmfifo", "load", "spec", "stat",
                           "mkdir", "mkfifo", "fs", "net", "io", "openroot", "pidfile", "oom"}
    PROVE  RaceLabel(c)'
BY DEF RaceLabel, NewOK, HeldOK, KilledOK, SaveLabels, RemoveLabels, HoldsPid, Signalling

LEMMA KillRaceLabel ==
    ASSUME NEW c \in Clis, cli'[c].pc \in RemoveLabels, cli'[c].id = cli[c].id,
           cli'[c].cmd = "delete" => NoneLives(cli[c].id),
           \A p \in Pids : LiveInit(p)' => StillLives(p)
    PROVE  RaceLabel(c)'
<1>1. cli'[c].cmd = "delete" => NoneLives(cli[c].id)'
  BY Fewer DEF NoneLives, StillLives
<1> QED BY <1>1 DEF RaceLabel, NewOK, HeldOK, KilledOK, SaveLabels, RemoveLabels, HoldsPid,
                    Signalling

LEMMA HoldRaceLabel ==
    ASSUME NEW c \in Clis, cli'[c].pc \in HoldsPid, cli'[c].id = cli[c].id,
           cli'[c].cmd # "create", UNCHANGED dir, dir[cli[c].id] # 0,
           file'[dir[cli[c].id]].kind # "none",
           file'[dir[cli[c].id]].pid = cli'[c].pid,
           cli'[c].status = "stopped" => NoneLives(cli[c].id),
           \A p \in Pids : LiveInit(p)' => StillLives(p)
    PROVE  RaceLabel(c)'
<1>1. cli'[c].status = "stopped" => NoneLives(cli[c].id)'
  BY Fewer DEF NoneLives, StillLives
<1>2. HeldOK(c)'
  BY <1>1 DEF HeldOK, HasRecord
<1>3. cli'[c].pc \notin RemoveLabels \union {"fork", "terminate"}
  BY DEF HoldsPid, Signalling, RemoveLabels
<1> QED BY <1>2, <1>3 DEF RaceLabel, NewOK, KilledOK

\* The process on record that does not exist is no living init.
LEMMA NobodyHeld ==
    ASSUME TypeOK, RaceInv, PidKnown, NEW c \in Clis, cli[c].cmd # "create",
           cli[c].pc \in HoldsPid, cli[c].id \in Ids, ~Exists(cli[c].pid)
    PROVE  NoneLives(cli[c].id)
<1> SUFFICES ASSUME NEW p \in Pids, LiveInit(p), proc[p].id = cli[c].id
             PROVE  FALSE
  BY DEF NoneLives
<1>1. p = cli[c].pid
  BY LiveIsHeld
<1> QED BY <1>1 DEF Exists, LiveInit, InitStates

\* A delete that finds no record finds no living init process either.
LEMMA NobodyThereAtAll ==
    ASSUME TypeOK, RaceInv, NEW c \in Clis, Busy(c), cli[c].cmd = "delete",
           cli[c].id \in Ids, ~HasRecord(cli[c].id)
    PROVE  NoneLives(cli[c].id)
<1> SUFFICES ASSUME NEW p \in Pids, LiveInit(p), proc[p].id = cli[c].id
             PROVE  FALSE
  BY DEF NoneLives
<1>1. Unsaved(p)
  BY DEF RaceInv, RaceInits
<1>2. PICK o \in Clis : /\ cli[o].cmd = "create" /\ cli[o].pc \in SaveLabels
                        /\ cli[o].id = proc[p].id
  BY <1>1 DEF Unsaved
<1>3. Busy(o) /\ o # c
  BY <1>2 DEF Busy, SaveLabels
<1> QED BY <1>2, <1>3, Together

LEMMA CreateRaceLabel ==
    ASSUME Racers, TypeOK, RaceInv, NEW c \in Clis, CreateStep(c)
    PROVE  RaceLabel(c)'
<1>c. CliStep(c)
  BY DEF CliStep
<1>t. CliType /\ cli[c] \in CliRecords /\ cli[c].id \in Ids /\ Role(cli[c])
  BY <1>c, StepTypes DEF RaceInv, Roles
<1>g. \A l : Goto(c, l) => cli'[c].pc = l /\ Same(cli'[c], cli[c])
  BY <1>t, NewGoto, NowIs, AtIs
<1>k. cli[c].cmd = "create"
  BY <1>t DEF CreateStep, CreateSpec, CreateStat, CreateMkdir, CreateMkfifo, CreateFs,
     CreateNet, SetupIO, StartOpenRoot, StartFork, CreatePidFile, AdjustOomScore,
     Terminate, Role, CreateLabels
<1>l. NewOK(c)
  BY DEF RaceInv, RaceLabel
<1>d. ASSUME cli'[c].pc = "destroy", Same(cli'[c], cli[c])
      PROVE  RaceLabel(c)'
  BY <1>d, <1>k DEF RaceLabel, NewOK, HeldOK, KilledOK, SaveLabels, RemoveLabels, HoldsPid,
                    Signalling, Same
<1>f. ASSUME NEW l \in {"ok", "err", "stat", "mkdir", "mkfifo", "fs", "net", "io", "openroot",
                        "pidfile", "oom"}, Goto(c, l)
      PROVE  RaceLabel(c)'
  BY <1>f, <1>g, FreeRaceLabel
<1>1. CASE CreateSpec(c) \/ CreateStat(c) \/ CreateMkdir(c) \/ CreateMkfifo(c)
           \/ CreateFs(c) \/ CreateNet(c)
  BY <1>1, <1>f DEF CreateSpec, CreateStat, CreateMkdir, CreateMkfifo, CreateFs, CreateNet
<1>2. CASE SetupIO(c) \/ CreatePidFile(c) \/ AdjustOomScore(c)
  BY <1>2, <1>f, <1>g, <1>d DEF SetupIO, CreatePidFile, AdjustOomScore, Racers
<1>3. CASE StartOpenRoot(c)
  <2>1. UNCHANGED dir
    BY <1>3 DEF StartOpenRoot, fsVars
  <2>2. ASSUME Now(c, RootOpened(cli[c])) PROVE RaceLabel(c)'
    <3>1. cli'[c].pc = "fork" /\ cli'[c].fd = dir[cli[c].id] /\ Same(cli'[c], cli[c])
      BY <2>2, <1>t, NowIs, RootOpenedIs
    <3> QED BY <3>1, <2>1 DEF RaceLabel, NewOK, HeldOK, KilledOK, SaveLabels, RemoveLabels,
                              HoldsPid, Signalling, Same
  <2> QED BY <1>3, <2>2, <1>t, <1>d, <1>g, NewOpenRoot
<1>4. CASE StartFork(c)
  <2>1. /\ cli[c].pc = "fork" /\ UNCHANGED dir
        /\ cli[c].fd = dir[cli[c].id] /\ cli[c].fd # 0
    BY <1>4, <1>l, <1>t DEF StartFork, fsVars, NewOK, CliType
  <2>2. ASSUME NEW p \in Pids, cli' = [cli EXCEPT ![c] = Forked(cli[c], p, "saveopen")]
        PROVE  RaceLabel(c)'
    <3>1. /\ Same(cli'[c], cli[c]) /\ cli'[c].pc = "saveopen" /\ cli'[c].pid = p
          /\ cli'[c].child = p /\ cli'[c].status = "created"
      <4>1. Now(c, Forked(cli[c], p, "saveopen"))
        BY <2>2 DEF Now
      <4> QED BY <4>1, <1>t, NowIs, ForkedIs
    <3> QED BY <3>1, <2>1, <1>k DEF RaceLabel, NewOK, HeldOK, KilledOK, SaveLabels,
                              RemoveLabels, Same
  <2> QED BY <1>4, <2>2, <1>d, <1>g DEF StartFork, Racers
<1>5. ~Terminate(c)
  BY <1>l DEF NewOK, Terminate
<1> QED BY <1>1, <1>2, <1>3, <1>4, <1>5 DEF CreateStep

LEMMA LoadRaceLabel ==
    ASSUME TypeOK, RaceInv, PidKnown, NEW c \in Clis, LoadStep(c)
    PROVE  RaceLabel(c)'
<1>c. CliStep(c)
  BY DEF CliStep
<1>t. CliType /\ FsType /\ cli[c] \in CliRecords /\ cli[c].id \in Ids /\ Busy(c)
  BY <1>c, StepTypes
<1>l. Role(cli[c])
  BY DEF RaceInv, Roles
<1>g. \A l : Goto(c, l) => /\ cli'[c].pc = l /\ Same(cli'[c], cli[c])
                           /\ cli'[c].pid = cli[c].pid /\ cli'[c].status = cli[c].status
  BY <1>t, NewGoto, NowIs, AtIs
<1>f. UNCHANGED <<dir, file>>
  BY DEF LoadStep, Load, Probe, ExecOpen, ExecRead, ExecRemove, Signal, SigKill, Poll, fsVars
<1>k. cli[c].cmd # "create" /\ ~StartFork(c)
  BY <1>l DEF LoadStep, Load, Probe, ExecOpen, ExecRead, ExecRemove, Signal, SigKill, Poll,
              Role, LoadLabels, StartFork
<1>s. \A p \in Pids : LiveInit(p)' => StillLives(p)
  BY <1>c, <1>k, Lives
<1>e. ASSUME NEW l \in {"ok", "err"}, Goto(c, l) PROVE RaceLabel(c)'
  BY <1>e, <1>g, FreeRaceLabel
<1>h. ASSUME cli[c].pc \in HoldsPid
      PROVE  /\ dir[cli[c].id] # 0
             /\ file[dir[cli[c].id]].kind # "none"
             /\ file[dir[cli[c].id]].pid = cli[c].pid
             /\ cli[c].status = "stopped" => NoneLives(cli[c].id)
  BY <1>h, <1>k, HeldPid DEF HasRecord
<1>m. ASSUME cli[c].pc \in HoldsPid, NEW l \in HoldsPid, Goto(c, l)
      PROVE  RaceLabel(c)'
  BY <1>m, <1>h, <1>g, <1>f, <1>s, <1>k, HoldRaceLabel DEF Same
<1>d. ASSUME NoneLives(cli[c].id), Goto(c, "destroy")
      PROVE  RaceLabel(c)'
  BY <1>d, <1>g, <1>s, KillRaceLabel DEF RemoveLabels, Same
<1>1. CASE Load(c)
  <2>1. CASE cli[c].cmd = "delete" /\ FileAt(cli[c].id).kind = "none" /\ Now(c, NotThere(cli[c]))
    <3>1. ~HasRecord(cli[c].id)
      BY <2>1 DEF FileAt, HasRecord
    <3>2. NoneLives(cli[c].id)
      BY <2>1, <3>1, <1>t, NobodyThereAtAll
    <3> QED BY <2>1, <3>2, <1>t, <1>s, NowIs, NotThereIs, KillRaceLabel DEF RemoveLabels, Same
  <2>2. CASE FileAt(cli[c].id).kind = "ok" /\ Now(c, Loaded(cli[c]))
    <3> DEFINE d == dir[cli[c].id]
    <3>1. d # 0 /\ d \in Inodes /\ FileAt(cli[c].id) = file[d] /\ file[d].kind = "ok"
      BY <2>2, <1>t DEF FileAt, NoFile, FsType
    <3>2. file[d].pid # 0
      BY <3>1 DEF PidKnown
    <3>3. file[d].status = "stopped" => NoneLives(cli[c].id)
      BY <3>1, <3>2, <1>t DEF RaceInv, RaceRecords, HasRecord
    <3>4. /\ Same(cli'[c], cli[c]) /\ cli'[c].pc = AfterLoad(cli[c].cmd)
          /\ cli'[c].pid = file[d].pid /\ cli'[c].status = file[d].status
      BY <2>2, <3>1, <1>t, NowIs, LoadedIs
    <3>5. cli'[c].pc \in HoldsPid
      BY <3>4 DEF AfterLoad, HoldsPid, Signalling
    <3> HIDE DEF d
    <3> QED BY <3>1, <3>3, <3>4, <3>5, <1>f, <1>s, <1>k, HoldRaceLabel DEF Same, d
  <2> QED BY <1>1, <2>1, <2>2, <1>e, <1>t, NewLoad
<1>2. CASE Probe(c)
  <2>1. cli[c].pc \in HoldsPid
    BY <1>2 DEF Probe, HoldsPid, Signalling
  <2>2. ASSUME NEW l \in AfterStatus(cli[c], cli[c].status), Goto(c, l)
        PROVE  RaceLabel(c)'
    <3>1. CASE l \in HoldsPid \union {"ok", "err"}
      BY <2>1, <2>2, <3>1, <1>m, <1>e
    <3>2. CASE l = "destroy"
      <4>1. cli[c].status = "stopped"
        BY <2>2, <3>2 DEF AfterStatus, StartSwitch, StateSwitch, DeleteSwitch
      <4> QED BY <4>1, <2>1, <2>2, <3>2, <1>h, <1>d
    <3>3. l \in HoldsPid \union {"ok", "err", "destroy"}
      BY <2>2 DEF AfterStatus, StartSwitch, StateSwitch, DeleteSwitch, HoldsPid, Signalling
    <3> QED BY <3>1, <3>2, <3>3
  <2>3. ASSUME ~Exists(cli[c].pid), NEW l, Now(c, FoundDead(cli[c], l))
        PROVE  RaceLabel(c)'
    <3>1. NoneLives(cli[c].id)
      BY <2>1, <2>3, <1>t, <1>k, NobodyHeld
    <3>2. /\ Same(cli'[c], cli[c]) /\ cli'[c].pc = "saveopen" /\ cli'[c].pid = cli[c].pid
      BY <2>3, <1>t, NowIs, FoundDeadIs
    <3>3. cli'[c].pc \in HoldsPid
      BY <3>2 DEF HoldsPid
    <3> QED BY <2>1, <3>1, <3>2, <3>3, <1>h, <1>f, <1>s, <1>k, HoldRaceLabel DEF Same
  <2> QED BY <1>2, <2>2, <2>3, <1>t, NewProbe
<1>3. CASE ExecOpen(c)
  <2>1. ASSUME NEW l \in {"blocked", "read"}, Now(c, AtFifo(cli[c], l))
        PROVE  RaceLabel(c)'
    <3>1. /\ Same(cli'[c], cli[c]) /\ cli'[c].pc = l /\ cli'[c].pid = cli[c].pid
          /\ cli'[c].status = cli[c].status
      BY <2>1, <1>t, NowIs, AtFifoIs
    <3>2. cli[c].pc \in HoldsPid /\ l \in HoldsPid
      BY <1>3 DEF ExecOpen, HoldsPid
    <3> QED BY <3>1, <3>2, <1>h, <1>f, <1>s, <1>k, HoldRaceLabel DEF Same
  <2> QED BY <1>3, <2>1, <1>e, <1>t, NewExecOpen
<1>4. CASE ExecRead(c)
  <2>1. ASSUME Now(c, Started(cli[c]))
        PROVE  RaceLabel(c)'
    <3>1. /\ Same(cli'[c], cli[c]) /\ cli'[c].pc = "saveopen" /\ cli'[c].pid = cli[c].pid
          /\ cli'[c].status = "running"
      BY <2>1, <1>t, NowIs, StartedIs
    <3>2. cli[c].pc \in HoldsPid /\ cli'[c].pc \in HoldsPid
      BY <1>4, <3>1 DEF ExecRead, HoldsPid
    <3> QED BY <3>1, <3>2, <1>h, <1>f, <1>s, <1>k, HoldRaceLabel DEF Same
  <2> QED BY <1>4, <2>1, <1>e DEF ExecRead, Now
<1>5. CASE ExecRemove(c) \/ Signal(c)
  BY <1>5, <1>e DEF ExecRemove, Signal
<1>6. CASE SigKill(c)
  BY <1>6, <1>m DEF SigKill, HoldsPid, Signalling
<1>7. CASE Poll(c)
  <2>1. cli[c].pc \in HoldsPid
    BY <1>7 DEF Poll, HoldsPid, Signalling
  <2>2. ~Exists(cli[c].pid) => NoneLives(cli[c].id)
    BY <2>1, <1>t, <1>k, NobodyHeld
  <2> QED BY <1>7, <2>2, <1>d, <1>e DEF Poll
<1> QED BY <1>1, <1>2, <1>3, <1>4, <1>5, <1>6, <1>7 DEF LoadStep

\* A create that is about to open state.json has no record.
LEMMA NoRecordYet ==
    ASSUME TypeOK, RaceInv, NEW c \in Clis, cli[c].cmd = "create", cli[c].pc = "saveopen",
           cli[c].id \in Ids
    PROVE  /\ dir[cli[c].id] \in Inodes /\ dir[cli[c].id] # 0
           /\ ~HasRecord(cli[c].id) /\ file[dir[cli[c].id]] = NoFile
<1>1. Owning(cli[c]) /\ ~HandsOver(c)
  BY CreateOwns DEF HandsOver, SaveLabels
<1>2. ~HasRecord(cli[c].id)
  BY <1>1, OwnRecord
<1>3. dir[cli[c].id] \in Inodes /\ dir[cli[c].id] # 0
  BY DEF RaceInv, RaceLabel, NewOK, SaveLabels, TypeOK, FsType
<1> QED BY <1>2, <1>3 DEF HasRecord, RaceInv, RaceRecords

LEMMA SaveRaceLabel ==
    ASSUME TypeOK, RaceInv, PidKnown, "save" \notin Faults, NEW c \in Clis,
           SaveOpen(c) \/ SaveWrite(c)
    PROVE  RaceLabel(c)'
<1>c. CliStep(c)
  BY DEF CliStep, SharedStep
<1>t. CliType /\ FsType /\ cli[c] \in CliRecords /\ cli[c].id \in Ids /\ Busy(c)
  BY <1>c, StepTypes
<1>l. Role(cli[c])
  BY DEF RaceInv, Roles
<1>g. \A l : Goto(c, l) => /\ cli'[c].pc = l /\ Same(cli'[c], cli[c])
                           /\ cli'[c].pid = cli[c].pid /\ cli'[c].status = cli[c].status
                           /\ cli'[c].child = cli[c].child
  BY <1>t, NewGoto, NowIs, AtIs
<1>f. UNCHANGED <<dir, proc>> /\ cli[c].pc \in SaveLabels /\ cli[c].pc \in HoldsPid
  BY DEF SaveOpen, SaveWrite, SaveLabels, HoldsPid
<1>s. \A p \in Pids : LiveInit(p)' => StillLives(p)
  BY <1>f DEF LiveInit, StillLives
<1> DEFINE d == dir[cli[c].id]
<1>0. d # 0 /\ d \in Inodes
  <2>1. d \in Inodes \union {0} /\ NewOK(c)
    BY <1>t DEF FsType, RaceInv, RaceLabel
  <2>2. CASE cli[c].cmd = "create"
    BY <2>1, <2>2, <1>f DEF NewOK
  <2>3. CASE cli[c].cmd # "create"
    <3>1. HasRecord(cli[c].id)
      BY <2>3, <1>f, HeldPid
    <3> QED BY <2>1, <3>1 DEF HasRecord
  <2> QED BY <2>2, <2>3
<1>h. cli[c].cmd # "create" =>
             /\ file[d].kind # "none"
             /\ file[d].pid = cli[c].pid
             /\ cli[c].status = "stopped" => NoneLives(cli[c].id)
  BY <1>f, HeldPid DEF HasRecord
<1>1. CASE SaveOpen(c)
  <2>1. /\ Goto(c, "savewrite")
        /\ file'[d].kind = "torn" /\ file'[d].pid = file[d].pid /\ c \in file'[d].open
    BY <1>1, <1>0, <1>t, SavedOpen
  <2>2. cli'[c].pc = "savewrite" /\ cli'[c].pc \in HoldsPid
    BY <2>1, <1>g DEF HoldsPid
  <2>3. CASE cli[c].cmd # "create"
    BY <2>1, <2>2, <2>3, <1>0, <1>h, <1>g, <1>f, <1>s, HoldRaceLabel DEF Same
  <2>4. CASE cli[c].cmd = "create"
    <3>1. file[d] = NoFile /\ cli[c].pid = cli[c].child /\ cli[c].status = "created"
      BY <1>1, <2>4, <1>t, <1>f, NoRecordYet DEF SaveOpen, RaceInv, RaceLabel, NewOK
    <3> HIDE DEF d
    <3>2. NewOK(c)'
      BY <2>1, <2>2, <3>1, <1>0, <1>g, <1>f DEF NewOK, HasRecord, Same, d, NoFile
    <3> QED BY <2>1, <2>2, <2>4, <3>2, <1>g DEF RaceLabel, HeldOK, KilledOK, RemoveLabels, Same
  <2> QED BY <2>3, <2>4
<1>2. CASE SaveWrite(c)
  <2>1. Goto(c, cli[c].ret) /\ SaveRole(cli[c])
    BY <1>2, <1>l, <1>f DEF SaveWrite, Role
  <2>2. CASE cli[c].ret \in {"pidfile", "rmfifo", "err", "ok"}
    BY <2>1, <2>2, <1>g, FreeRaceLabel
  <2>3. CASE cli[c].ret = "reprobe" /\ cli[c].cmd # "create"
    <3>1. file'[d].pid = cli[c].pid /\ file'[d].kind # "none"
      BY <1>2, <2>3, <1>0, <1>h, SavedWrite DEF RaceInv
    <3>2. cli'[c].pc \in HoldsPid
      BY <2>1, <2>3, <1>g DEF HoldsPid, Signalling
    <3> QED BY <2>1, <2>3, <3>1, <3>2, <1>0, <1>h, <1>g, <1>f, <1>s, HoldRaceLabel DEF Same
  <2>4. CASE cli[c].ret = "destroy" /\ cli[c].cmd # "create" /\ cli[c].status = "stopped"
    BY <2>1, <2>4, <1>h, <1>g, <1>s, KillRaceLabel DEF RemoveLabels, Same
  <2> QED BY <2>1, <2>2, <2>3, <2>4 DEF SaveRole
<1> QED BY <1>1, <1>2

LEMMA DestroyRaceLabel ==
    ASSUME TypeOK, RaceInv, PidKnown, NEW c \in Clis,
           \/ Destroy(c) \/ Rmdir(c) \/ NetworkDestroy(c) \/ Exit(c)
           \/ \E kept \in SUBSET {"file", "fifo", "iso"} : RemoveEntries(c, kept)
    PROVE  RaceLabel(c)'
<1>c. CliStep(c)
  BY DEF CliStep, SharedStep
<1>t. CliType /\ cli[c] \in CliRecords
  BY <1>c, StepTypes
<1>g. \A l : Goto(c, l) => cli'[c].pc = l /\ Same(cli'[c], cli[c])
  BY <1>t, NewGoto, NowIs, AtIs
<1>f. UNCHANGED proc
  BY DEF Destroy, Rmdir, NetworkDestroy, Exit, RemoveEntries
<1>s. \A p \in Pids : LiveInit(p)' => StillLives(p)
  BY <1>f DEF LiveInit, StillLives
<1>1. CASE Exit(c)
  BY <1>1, <1>t, FreeRaceLabel DEF Exit, CliType, IdleCli
<1>2. CASE ~Exit(c)
  <2>1. cli[c].pc \in RemoveLabels
    BY <1>2 DEF Destroy, Rmdir, NetworkDestroy, RemoveEntries, RemoveLabels
  <2>2. cli[c].cmd = "delete" => NoneLives(cli[c].id)
    BY <2>1 DEF RaceInv, RaceLabel, KilledOK
  <2>3. ASSUME NEW l \in RemoveLabels, Goto(c, l) PROVE RaceLabel(c)'
    BY <2>3, <2>2, <1>g, <1>s, KillRaceLabel DEF Same
  <2>4. ASSUME NEW l \in {"ok", "err", "undone"}, Goto(c, l) PROVE RaceLabel(c)'
    BY <2>4, <1>g, FreeRaceLabel
  <2>5. CASE Destroy(c)
    <3>1. Same(cli'[c], cli[c]) /\ cli'[c].pc = "rm"
      BY <2>5, <1>t, NewDestroy, NowIs, DestroyingIs
    <3> QED BY <3>1, <2>2, <1>s, KillRaceLabel DEF RemoveLabels, Same
  <2>6. CASE cli[c].pc \in {"rm", "rmdir"}
    <3>1. cli[c].ret \in {"netdestroy", "err"}
      BY <2>6 DEF PidKnown, PidOK
    <3>2. AfterRmFailure(cli[c]) \in {"ok", "err", "undone"}
      BY <3>1 DEF AfterRmFailure, AfterDestroy
    <3>3. cli[c].ret \in RemoveLabels \union {"err"} /\ "rmdir" \in RemoveLabels
      BY <3>1 DEF RemoveLabels
    <3> QED BY <1>2, <2>6, <3>2, <3>3, <2>3, <2>4
            DEF Destroy, Rmdir, NetworkDestroy, RemoveEntries
  <2>7. CASE NetworkDestroy(c)
    BY <2>7, <2>4 DEF NetworkDestroy, AfterDestroy
  <2> QED BY <1>2, <2>5, <2>6, <2>7 DEF Rmdir, RemoveEntries
<1> QED BY <1>1, <1>2

---------------------------------------------------------------------------
(* The records and the init processes after a step of a command.           *)

LEMMA RaceRecordsStep ==
    ASSUME Racers, TypeOK, RaceInv, PidKnown, NEW c \in Clis, CliStep(c)
    PROVE  RaceRecords'
<1>t. CliType /\ cli[c].id \in Ids
  BY StepTypes
<1>v. "save" \notin Faults
  BY DEF Racers
<1>1. ASSUME NEW d \in Inodes, file'[d].kind = "none"
      PROVE  file'[d] = NoFile
  <2>1. file[d].kind = "none" => file[d] = NoFile
    BY DEF RaceInv, RaceRecords
  <2> QED BY <1>1, <1>v, <2>1, FileSteps DEF RaceInv
<1>2. ASSUME NEW i \in Ids, HasRecord(i)', file'[dir'[i]].pid # 0,
             file'[dir'[i]].status = "stopped"
      PROVE  NoneLives(i)'
  <2>1. CASE RecordKept(i)
    <3>1. NoneLives(i)
      BY <1>2, <2>1 DEF RecordKept, RaceInv, RaceRecords
    <3>2. ~(StartFork(c) /\ i = cli[c].id)
      <4>1. StartFork(c) => Owning(cli[c]) /\ ~HandsOver(c)
        BY DEF StartFork, RaceInv, Roles, Role, CreateLabels, Owning, HandsOver
      <4> QED BY <2>1, <4>1, <1>t, OwnRecord DEF RecordKept
    <3> QED BY <3>1, <3>2, NoneBorn
  <2>2. CASE i = cli[c].id /\ RecordWritten(c, i)
    <3>1. cli[c].pc = "savewrite" /\ cli[c].status = "stopped" /\ cli[c].pc \in HoldsPid
      BY <1>2, <2>2 DEF RecordWritten, HoldsPid
    <3>2. cli[c].cmd # "create"
      BY <3>1 DEF RaceInv, RaceLabel, NewOK, SaveLabels
    <3>3. NoneLives(i)
      BY <2>2, <3>1, <3>2, HeldPid
    <3> QED BY <3>1, <3>3, NoneBorn DEF StartFork
  <2>3. ~(RecordMade(c, i)) /\ ~(RecordRemoved(c, i))
    BY <1>2 DEF RecordMade, RecordRemoved
  <2> QED BY <1>2, <1>v, <2>1, <2>2, <2>3, RecordSteps
<1> QED BY <1>1, <1>2 DEF RaceRecords

\* A command that saves the pid of a process writes it.
LEMMA RaceInitsStep ==
    ASSUME Racers, TypeOK, RaceInv, PidKnown, NEW c \in Clis, CliStep(c)
    PROVE  RaceInits'
<1>t. CliType /\ FsType /\ cli[c] \in CliRecords /\ cli[c].id \in Ids
  BY StepTypes
<1>v. "save" \notin Faults
  BY DEF Racers
<1>o. \A o \in Clis : o # c => cli'[o] = cli[o]
  BY <1>t, OneMoves, NowIs
<1> SUFFICES ASSUME NEW p \in Pids, LiveInit(p)', NEW i, i = proc'[p].id
             PROVE  /\ i \in Ids
                    /\ Unsaved(p)' \/ (HasRecord(i)' /\ file'[dir'[i]].pid = p)
  BY DEF RaceInits, HasRecord
<1>1. CASE StillLives(p)
  <2>1. LiveInit(p) /\ i = proc[p].id /\ i \in Ids
    BY <1>1 DEF StillLives, RaceInv, RaceInits
  <2>2. CASE Unsaved(p)
    <3>1. PICK o \in Clis : /\ cli[o].cmd = "create" /\ cli[o].pc \in SaveLabels
                            /\ cli[o].id = i /\ cli[o].child = p
      BY <2>1, <2>2 DEF Unsaved
    <3>2. CASE o # c
      BY <3>1, <3>2, <2>1, <1>o DEF Unsaved
    <3>3. CASE o = c /\ cli[c].pc = "saveopen"
      <4>1. dir[cli[c].id] # 0
        BY <3>1, <3>3, <2>1, NoRecordYet
      <4>2. Goto(c, "savewrite")
        BY <3>3, <4>1, <1>t, OnlyStep, SavedOpen
      <4>3. Same(cli'[c], cli[c]) /\ cli'[c].pc = "savewrite" /\ cli'[c].child = cli[c].child
        BY <4>2, <1>t, NewGoto, NowIs, AtIs
      <4> QED BY <3>1, <3>3, <4>3, <2>1 DEF Unsaved, Same, SaveLabels
    <3>4. CASE o = c /\ cli[c].pc = "savewrite"
      <4>1. /\ HasRecord(i) /\ c \in file[dir[i]].open /\ cli[c].pid = p
        BY <3>1, <3>4 DEF RaceInv, RaceLabel, NewOK, SaveLabels
      <4>2. SaveWrite(c) /\ UNCHANGED dir /\ dir[i] # 0 /\ dir[i] \in Inodes
        BY <3>4, <4>1, <2>1, <1>t, OnlyStep DEF SaveWrite, HasRecord, FsType
      <4>3. file'[dir[i]].kind = "ok" /\ file'[dir[i]].pid = p
        BY <4>1, <4>2, <1>v, SavedWrite DEF RaceInv
      <4> QED BY <2>1, <4>2, <4>3 DEF HasRecord
    <3> QED BY <2>1, <3>1, <3>2, <3>3, <3>4 DEF SaveLabels
  <2>3. CASE HasRecord(i) /\ file[dir[i]].pid = p
    <3>1. CASE RecordKept(i)
      BY <2>1, <2>3, <3>1 DEF RecordKept
    <3>2. CASE i = cli[c].id /\ RecordWritten(c, i)
      <4>1. cli[c].pc = "savewrite" /\ cli[c].pc \in HoldsPid
        BY <3>2 DEF RecordWritten, HoldsPid
      <4>2. cli[c].cmd # "create"
        <5>1. p # 0
          OBVIOUS
        <5> QED BY <2>3, <3>2, <4>1, <5>1 DEF RaceInv, RaceLabel, NewOK
      <4>3. cli[c].pid = p
        BY <2>3, <3>2, <4>1, <4>2, HeldPid
      <4> QED BY <2>1, <3>2, <4>3 DEF RecordWritten
    <3>3. ~(i = cli[c].id /\ RecordRemoved(c, i))
      <4>1. ASSUME i = cli[c].id, RecordRemoved(c, i) PROVE FALSE
        <5>1. NoneLives(i)
          BY <4>1 DEF RecordRemoved, RemoveLabels, RaceInv, RaceLabel, KilledOK
        <5> QED BY <2>1, <5>1 DEF NoneLives
      <4> QED BY <4>1
    <3>4. ~RecordMade(c, i)
      BY <2>3 DEF RecordMade
    <3> QED BY <2>1, <2>3, <1>v, <3>1, <3>2, <3>3, <3>4, RecordSteps
  <2> QED BY <2>1, <2>2, <2>3 DEF RaceInv, RaceInits
<1>2. CASE StartFork(c) /\ proc'[p] = NewInit(c) /\ ~StillLives(p)
           /\ \E l : cli' = [cli EXCEPT ![c] = Forked(cli[c], p, l)]
  <2>1. cli[c].cmd = "create" /\ i = cli[c].id
    BY <1>2 DEF StartFork, RaceInv, Roles, Role, CreateLabels, NewInit
  <2>2. PICK l : Now(c, Forked(cli[c], p, l))
    BY <1>2 DEF Now
  <2>3. Same(cli'[c], cli[c]) /\ cli'[c].pc = l /\ cli'[c].child = p
    BY <2>2, <1>t, NowIs, ForkedIs
  <2>4. l = "saveopen"
    <3>1. ~UNCHANGED proc
      BY <1>2 DEF StillLives, LiveInit
    <3>2. ASSUME NEW q, cli' = [cli EXCEPT ![c] = Forked(cli[c], q, "saveopen")]
          PROVE  cli'[c].pc = "saveopen"
      <4>1. Now(c, Forked(cli[c], q, "saveopen"))
        BY <3>2 DEF Now
      <4> QED BY <4>1, <1>t, NowIs, ForkedIs
    <3> QED BY <1>2, <2>3, <3>1, <3>2 DEF StartFork, Racers
  <2> QED BY <2>1, <2>3, <2>4, <1>t DEF Unsaved, SaveLabels, Same
<1> QED BY <1>1, <1>2, Lives

---------------------------------------------------------------------------
(* Callers and processes.                                                  *)

\* A command that stays, is started, or is woken at the fifo.
Quiet(o) == \/ cli'[o] = cli[o]
            \/ cli[o].pc = "idle" /\ cli'[o].pc \in {"load", "spec"}
            \/ /\ cli[o].pc = "blocked" /\ cli'[o].pc = "read"
               /\ Same(cli'[o], cli[o]) /\ cli'[o].pid = cli[o].pid
               /\ cli'[o].status = cli[o].status

LEMMA QuietRace ==
    ASSUME TypeOK, RaceInv, PidKnown, UNCHANGED <<dir, file, taps>>,
           \A o \in Clis : Quiet(o),
           \A p \in Pids : LiveInit(p)' => StillLives(p)
    PROVE  /\ Opens' /\ OneUser'
           /\ \A o \in Clis : RaceLabel(o)'
           /\ RaceRecords' /\ RaceInits'
<1>r. \A i : HasRecord(i)' <=> HasRecord(i)
  BY DEF HasRecord
<1>n. \A i : NoneLives(i) => NoneLives(i)'
  BY Fewer
<1>o. \A o \in Clis : Owning(cli'[o]) => cli'[o] = cli[o]
  BY DEF Quiet, Owning, SaveLabels
<1>1. Opens'
  <2>1. \A d \in Inodes : file[d].open \subseteq Clis
    BY DEF TypeOK, FsType, Files
  <2>2. \A o \in Clis : cli[o].pc = "savewrite" => cli'[o] = cli[o]
    BY DEF Quiet
  <2> QED BY <2>1, <2>2 DEF RaceInv, Opens
<1>2. OneUser'
  <2>1. OwnersHaveTap' /\ OneCommand' /\ OneRecord'
    BY <1>o, <1>r DEF RaceInv, OneUser, OwnersHaveTap, OneCommand, OneRecord, TapOfCli
  <2>2. CommandOrRecord'
    BY <1>o, <1>r DEF RaceInv, OneUser, CommandOrRecord, HandsOver, TapOfCli
  <2> QED BY <2>1, <2>2 DEF OneUser
<1>3. ASSUME NEW o \in Clis
      PROVE  RaceLabel(o)'
  <2>l. RaceLabel(o) /\ Role(cli[o])
    BY DEF RaceInv, Roles
  <2>1. CASE cli'[o] = cli[o]
    <3>1. NewOK(o)'
      BY <2>l, <2>1 DEF RaceLabel, NewOK, HasRecord
    <3>2. HeldOK(o)'
      <4>1. NoneLives(cli[o].id) => NoneLives(cli[o].id)'
        BY <2>1, <1>n DEF NoneLives
      <4> QED BY <4>1, <2>l, <2>1 DEF RaceLabel, HeldOK, HasRecord
    <3>3. KilledOK(o)'
      <4>1. NoneLives(cli[o].id) => NoneLives(cli[o].id)'
        BY <2>1, <1>n DEF NoneLives
      <4> QED BY <4>1, <2>l, <2>1 DEF RaceLabel, KilledOK
    <3> QED BY <3>1, <3>2, <3>3 DEF RaceLabel
  <2>2. CASE cli'[o].pc \in {"load", "spec"}
    BY <2>2, FreeRaceLabel
  <2>3. CASE /\ cli[o].pc = "blocked" /\ cli'[o].pc = "read"
             /\ Same(cli'[o], cli[o]) /\ cli'[o].pid = cli[o].pid
             /\ cli'[o].status = cli[o].status
    <3>1. cli[o].pc \in HoldsPid /\ cli'[o].pc \in HoldsPid /\ cli[o].cmd # "create"
      BY <2>3, <2>l DEF HoldsPid, Role
    <3>2. /\ dir[cli[o].id] # 0
          /\ file[dir[cli[o].id]].kind # "none"
          /\ file[dir[cli[o].id]].pid = cli[o].pid
          /\ cli[o].status = "stopped" => NoneLives(cli[o].id)
      BY <3>1, HeldPid DEF HasRecord
    <3> QED BY <2>3, <3>1, <3>2, HoldRaceLabel DEF Same
  <2> QED BY <2>1, <2>2, <2>3 DEF Quiet
<1>4. RaceRecords'
  BY <1>r, <1>n DEF RaceInv, RaceRecords
<1>5. RaceInits'
  <2> SUFFICES ASSUME NEW p \in Pids, LiveInit(p)', NEW i, i = proc'[p].id
               PROVE  /\ i \in Ids
                      /\ Unsaved(p)' \/ (HasRecord(i)' /\ file'[dir'[i]].pid = p)
    BY DEF RaceInits, HasRecord
  <2>1. LiveInit(p) /\ i = proc[p].id /\ proc'[p].id = i
    BY DEF StillLives
  <2>2. ASSUME Unsaved(p) PROVE Unsaved(p)'
    <3>1. PICK o \in Clis : /\ cli[o].cmd = "create" /\ cli[o].pc \in SaveLabels
                            /\ cli[o].id = proc[p].id /\ cli[o].child = p
      BY <2>2 DEF Unsaved
    <3>2. cli'[o] = cli[o]
      BY <3>1 DEF Quiet, SaveLabels
    <3> QED BY <2>1, <3>1, <3>2 DEF Unsaved
  <2>3. i \in Ids /\ (Unsaved(p) \/ (HasRecord(i) /\ file[dir[i]].pid = p))
    BY <2>1 DEF RaceInv, RaceInits
  <2> QED BY <2>2, <2>3 DEF HasRecord
<1> QED BY <1>1, <1>2, <1>3, <1>4, <1>5

LEMMA InvokeRace ==
    ASSUME TypeOK, RaceInv, PidKnown, NEW c \in Clis, NEW m \in Commands, NEW i \in Ids,
           Invoke(c, m, i)
    PROVE  /\ Opens' /\ OneUser' /\ NewDirs'
           /\ \A o \in Clis : RaceLabel(o)'
           /\ RaceRecords' /\ RaceInits'
<1>t. CliType /\ creates \in Nat
  BY DEF TypeOK, CounterType
<1>1. /\ UNCHANGED <<dir, file, proc, taps>> /\ creates' \in {creates, creates + 1}
      /\ \A o \in Clis : o # c => cli'[o] = cli[o]
      /\ cli[c].pc = "idle"
  BY <1>t DEF Invoke, CliType, fsVars
<1>2. \/ cli'[c].pc = "load"
      \/ /\ cli'[c].pc = "spec" /\ cli'[c].num = creates + 1
         /\ creates' = creates + 1 /\ creates' \in Inodes
  BY <1>t DEF Invoke, CliType, IdleCli, Inodes
<1>3. \A o \in Clis : Quiet(o)
  BY <1>1, <1>2 DEF Quiet
<1>4. \A p \in Pids : LiveInit(p)' => StillLives(p)
  BY <1>1 DEF LiveInit, StillLives
<1>5. NewDirs'
  <2> SUFFICES ASSUME NEW o \in Clis, cli'[o].pc \in Early
               PROVE  cli'[o].num \in 1 .. creates' /\ Untouched(cli'[o].num)
    BY <1>1 DEF NewDirs, Untouched
  <2>1. CASE o # c
    <3>1. cli'[o] = cli[o] /\ cli[o].num \in 1 .. creates /\ Untouched(cli[o].num)
      BY <2>1, <1>1 DEF RaceInv, NewDirs
    <3> QED BY <3>1, <1>1, <1>t
  <2>2. CASE o = c
    <3>1. cli'[c].num = creates + 1 /\ creates' = creates + 1 /\ creates + 1 \in Inodes
      BY <2>2, <1>2 DEF Early
    <3>2. Untouched(creates + 1)
      BY <3>1, <1>t DEF RaceInv, Dirs
    <3> QED BY <2>2, <3>1, <3>2, <1>t
  <2> QED BY <2>1, <2>2
<1> QED BY <1>1, <1>3, <1>4, <1>5, QuietRace

LEMMA ProcRace ==
    ASSUME TypeOK, RaceInv, PidKnown, NEW q \in Pids, ProcStep(q)
    PROVE  /\ Opens' /\ OneUser' /\ NewDirs'
           /\ \A o \in Clis : RaceLabel(o)'
           /\ RaceRecords' /\ RaceInits'
<1>t. CliType
  BY DEF TypeOK
<1>1. /\ UNCHANGED <<dir, file, taps, creates>>
      /\ UNCHANGED cli \/ \E f : cli' = Woken(f)
  BY ProcFrame
<1>2. \A p \in Pids : LiveInit(p)' => StillLives(p)
  BY ProcLives
<1>3. \A o \in Clis : Quiet(o)
  BY <1>1, <1>t DEF Quiet, Woken, CliType, CliRecords, Same
<1>4. \A o \in Clis : cli'[o].pc \in Early => cli'[o] = cli[o]
  BY <1>1, <1>t DEF Woken, CliType, CliRecords, Early
<1>5. NewDirs'
  BY <1>1, <1>4 DEF RaceInv, NewDirs, Untouched
<1> QED BY <1>1, <1>2, <1>3, <1>5, QuietRace

---------------------------------------------------------------------------
(* The inductive invariant and what follows from it.                       *)

LEMMA RaceInit == Init => RaceInv
<1> SUFFICES ASSUME Init PROVE RaceInv
  OBVIOUS
<1>1. \A c \in Clis : cli[c] = IdleCli
  BY DEF Init
<1>2. \A d \in Inodes : file[d] = NoFile
  BY DEF Init
<1>3. \A p \in Pids : ~LiveInit(p)
  BY DEF Init, NoProc, LiveInit, InitStates
<1>4. \A i \in Ids : dir[i] = 0 /\ ~HasRecord(i)
  BY DEF Init, HasRecord
<1>5. Roles /\ Dirs /\ Opens
  BY LifeInit DEF LifeInv
<1>6. DeleteAlone /\ NewDirs
  BY <1>1 DEF DeleteAlone, NewDirs, Early, Busy, IdleCli
<1>7. \A c \in Clis : ~Owning(cli[c])
  BY <1>1 DEF Owning, IdleCli, SaveLabels
<1>8. OneUser
  BY <1>4, <1>7 DEF OneUser, OwnersHaveTap, OneCommand, OneRecord, CommandOrRecord
<1>9. \A c \in Clis : RaceLabel(c)
  BY <1>1 DEF RaceLabel, NewOK, HeldOK, KilledOK, SaveLabels, RemoveLabels, HoldsPid,
              Signalling, IdleCli
<1>10. RaceRecords /\ RaceInits
  BY <1>2, <1>3, <1>4 DEF RaceRecords, RaceInits
<1> QED BY <1>5, <1>6, <1>8, <1>9, <1>10 DEF RaceInv

LEMMA RaceNext ==
    ASSUME Racers, TypeOK, PidKnown, RaceInv, Next
    PROVE  RaceInv'
<1>c. \A c \in Clis : ~Crash(c)
  BY DEF Crash, TypeOK, CounterType, Racers
<1>v. "save" \notin Faults /\ "delete" \in Exclusive
  BY DEF Racers
<1>s. \/ \E c \in Clis : \/ CliStep(c)
                         \/ \E m \in Commands, i \in Ids : Invoke(c, m, i)
      \/ \E q \in Pids : ProcStep(q)
  BY <1>c DEF Next
<1>l. Roles /\ DeleteAlone /\ Dirs /\ NewDirs /\ Opens
  BY DEF RaceInv
<1>1. Roles'
  BY <1>s, <1>l, CreateRoles, LoadRoles, SharedRoles, OtherRoles DEF CliStep
<1>2. DeleteAlone'
  BY <1>s, <1>l, <1>v, DeleteAloneStep
<1>3. Dirs'
  BY <1>s, <1>l, DirsStep DEF NewDirs
<1>4. ASSUME NEW c \in Clis, CliStep(c)
      PROVE  /\ Opens' /\ OneUser' /\ NewDirs'
             /\ \A o \in Clis : RaceLabel(o)'
             /\ RaceRecords' /\ RaceInits'
  <2>1. RaceLabel(c)'
    BY <1>4, <1>v, CreateRaceLabel, LoadRaceLabel, SaveRaceLabel, DestroyRaceLabel
       DEF CliStep, SharedStep
  <2>2. \A o \in Clis : RaceLabel(o)'
    BY <1>4, <1>v, <2>1, OtherRaceLabel
  <2> QED BY <1>4, <1>v, <2>2, RaceOpens, UserStep, NewDirsStep, RaceRecordsStep, RaceInitsStep
<1>5. /\ Opens' /\ OneUser' /\ NewDirs'
      /\ \A o \in Clis : RaceLabel(o)'
      /\ RaceRecords' /\ RaceInits'
  BY <1>s, <1>4, InvokeRace, ProcRace
<1> QED BY <1>1, <1>2, <1>3, <1>5 DEF RaceInv

\* Where delete of an id runs alone and a create that has forked its init
\* process succeeds, creates may race for one id or one TAP name in any
\* order, with starts, states and kills in between: the TAP device is in
\* effect their lock (factory_nabla.go:104-162, tap_bridge.go:78-100,
\* container_nabla.go:226-310).
THEOREM DeviceHasOneOwner == ASSUME Racers PROVE Spec => []RaceInv
<1>1. TypeOK /\ PidKnown /\ RaceInv /\ [Next]_vars => RaceInv'
  <2> SUFFICES ASSUME TypeOK, PidKnown, RaceInv, [Next]_vars PROVE RaceInv'
    OBVIOUS
  <2>1. CASE UNCHANGED vars
    <3>1. UNCHANGED <<dir, file, proc, cli, taps, creates>>
      BY <2>1 DEF vars, fsVars, counters
    <3>2. /\ \A o \in Clis : Quiet(o)
          /\ \A p \in Pids : LiveInit(p)' => StillLives(p)
      BY <3>1 DEF Quiet, StillLives, LiveInit
    <3>3. /\ Opens' /\ OneUser'
          /\ \A o \in Clis : RaceLabel(o)'
          /\ RaceRecords' /\ RaceInits'
      BY <3>1, <3>2, QuietRace
    <3>4. Roles' /\ DeleteAlone' /\ Dirs' /\ NewDirs'
      BY <3>1 DEF RaceInv, Roles, Role, SaveRole, DeleteAlone, Busy, Dirs, NewDirs, Untouched
    <3> QED BY <3>3, <3>4 DEF RaceInv
  <2> QED BY <2>1, RaceNext
<1> QED BY <1>1, RaceInit, TypeCorrect, PidsKnown, PTL DEF Spec

\* However many creates race for one id, at most one living init process
\* comes of it, although os.Stat and MkdirAll exclude nobody
\* (factory_nabla.go:114-119).
THEOREM OneInitPerId == ASSUME Racers PROVE Spec => []AtMostOneInit
<1>1. TypeOK /\ PidKnown /\ RaceInv => AtMostOneInit
  <2> SUFFICES ASSUME TypeOK, RaceInv, NEW p \in Pids, NEW q \in Pids,
                      LiveInit(p), LiveInit(q), proc[p].id = proc[q].id
               PROVE  p = q
    BY DEF AtMostOneInit
  <2>1. ASSUME NEW a \in Pids, NEW b \in Pids, LiveInit(a), LiveInit(b),
               proc[a].id = proc[b].id, Unsaved(a)
        PROVE  a = b
    <3>1. PICK o \in Clis : /\ cli[o].cmd = "create" /\ cli[o].pc \in SaveLabels
                            /\ cli[o].id = proc[a].id /\ cli[o].child = a
      BY <2>1 DEF Unsaved
    <3>2. Owning(cli[o]) /\ TapOf[proc[b].id] = TapOfCli(o)
      BY <2>1, <3>1, CreateOwns DEF TapOfCli
    <3>3. cli[o].child = b
      BY <2>1, <3>2, OwnerOfLive
    <3> QED BY <3>1, <3>3
  <2>2. CASE Unsaved(p)
    BY <2>1, <2>2
  <2>3. CASE Unsaved(q)
    BY <2>1, <2>3
  <2>4. CASE ~Unsaved(p) /\ ~Unsaved(q)
    BY <2>4 DEF RaceInv, RaceInits
  <2> QED BY <2>2, <2>3, <2>4
<1> QED BY <1>1, DeviceHasOneOwner, TypeCorrect, PidsKnown, PTL

\* A living init process keeps its TAP device, even when the name of
\* another id is cut to the same device name: the create that finds the name
\* taken fails without removing it (tap_bridge.go:78-83).
THEOREM InitKeepsTap == ASSUME Racers PROVE Spec => []TapHeld
<1>1. RaceInv => TapHeld
  <2> SUFFICES ASSUME RaceInv, NEW p \in Pids, LiveInit(p)
               PROVE  TapOf[proc[p].id] \in taps
    BY DEF TapHeld
  <2>1. CASE Unsaved(p)
    <3>1. PICK o \in Clis : /\ cli[o].cmd = "create" /\ cli[o].pc \in SaveLabels
                            /\ cli[o].id = proc[p].id
      BY <2>1 DEF Unsaved
    <3>2. Owning(cli[o])
      BY <3>1, CreateOwns
    <3> QED BY <3>1, <3>2 DEF RaceInv, OneUser, OwnersHaveTap, TapOfCli
  <2>2. CASE proc[p].id \in Ids /\ HasRecord(proc[p].id)
    BY <2>2 DEF RaceInv, OneUser, OwnersHaveTap
  <2> QED BY <2>1, <2>2 DEF RaceInv, RaceInits
<1> QED BY <1>1, DeviceHasOneOwner, PTL

===========================================================================
