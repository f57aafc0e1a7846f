--------------------------- MODULE LifetimeProofs ---------------------------
(***************************************************************************)
(* The life of a container under callers that run create and delete of an  *)
(* id alone, for any number of containers, commands, pids and creates;     *)
(* then what create and delete leave behind, and what the next create of   *)
(* the id finds, on a host where what is removed can be removed.           *)
(***************************************************************************)
EXTENDS Lifetime, RunncProofs

USE IdAssumption, PidAssumption, TapAssumption, BoundAssumption

---------------------------------------------------------------------------
(* The records of the commands that do more than go to another label.      *)

At(r, l) == [r EXCEPT !.pc = l]
RootOpened(r) == [r EXCEPT !.pc = "fork", !.fd = dir[r.id]]
Terminated(r) == [r EXCEPT !.pc = "destroy", !.child = 0]
NotThere(r) == [r EXCEPT !.pc = "rm", !.ret = "err"]
Loaded(r) == [r EXCEPT !.pc = AfterLoad(r.cmd), !.pid = FileAt(r.id).pid,
                       !.status = FileAt(r.id).status]
FoundDead(r, l) == [r EXCEPT !.pc = "saveopen", !.ret = l, !.status = "stopped"]
AtFifo(r, l) == [r EXCEPT !.fd = FifoAt(r.id), !.pc = l]
Destroying(r) == [r EXCEPT !.pc = "rm", !.ret = "netdestroy", !.pid = 0,
                           !.status = "stopped"]

\* The record of c becomes r, and no other changes.
Now(c, r) == cli' = [cli EXCEPT ![c] = r]

LEMMA NowIs ==
    ASSUME CliType, NEW c \in Clis, NEW r, Now(c, r)
    PROVE  cli'[c] = r /\ \A o \in Clis : o # c => cli'[o] = cli[o]
BY DEF CliType, Now

LEMMA NewGoto ==
    ASSUME CliType, NEW c \in Clis, NEW l, Goto(c, l)
    PROVE  Now(c, At(cli[c], l))
BY DEF CliType, Goto, Now, At

LEMMA NewOpenRoot ==
    ASSUME CliType, NEW c \in Clis, StartOpenRoot(c)
    PROVE  \/ Goto(c, "destroy")
           \/ dir[cli[c].id] # 0 /\ Now(c, RootOpened(cli[c]))
BY DEF CliType, StartOpenRoot, Now, RootOpened

LEMMA NewTerminate ==
    ASSUME CliType, NEW c \in Clis, Terminate(c)
    PROVE  Now(c, Terminated(cli[c]))
BY DEF CliType, Terminate, Now, Terminated

LEMMA NewLoad ==
    ASSUME CliType, NEW c \in Clis, Load(c)
    PROVE  \/ Goto(c, "err")
           \/ /\ cli[c].cmd = "delete" /\ FileAt(cli[c].id).kind = "none"
              /\ Now(c, NotThere(cli[c]))
           \/ FileAt(cli[c].id).kind = "ok" /\ Now(c, Loaded(cli[c]))
BY DEF CliType, Load, Now, NotThere, Loaded

LEMMA NewProbe ==
    ASSUME CliType, NEW c \in Clis, Probe(c)
    PROVE  \/ /\ Exists(cli[c].pid)
              /\ \E l \in AfterStatus(cli[c], cli[c].status) : Goto(c, l)
           \/ /\ ~Exists(cli[c].pid)
              /\ \E l \in AfterStatus(cli[c], "stopped") : Now(c, FoundDead(cli[c], l))
BY DEF CliType, Probe, Now, FoundDead

LEMMA NewExecOpen ==
    ASSUME CliType, NEW c \in Clis, ExecOpen(c)
    PROVE  \/ Goto(c, "err")
           \/ /\ FifoAt(cli[c].id) # 0
              /\ \E l \in {"blocked", "read"} : Now(c, AtFifo(cli[c], l))
<1>1. CASE Writers(FifoAt(cli[c].id)) = {}
  BY <1>1 DEF CliType, ExecOpen, Now, AtFifo
<1>2. CASE Writers(FifoAt(cli[c].id)) # {}
  BY <1>2 DEF CliType, ExecOpen, Now, AtFifo
<1> QED BY <1>1, <1>2

LEMMA NewDestroy ==
    ASSUME CliType, NEW c \in Clis, Destroy(c)
    PROVE  Now(c, Destroying(cli[c]))
BY DEF CliType, Destroy, Now, Destroying

\* What the new records keep and what they change.
Same(n, r) == n.id = r.id /\ n.cmd = r.cmd /\ n.num = r.num

LEMMA AtIs ==
    ASSUME NEW r \in CliRecords, NEW l
    PROVE  /\ Same(At(r, l), r)
           /\ At(r, l).pc = l /\ At(r, l).ret = r.ret /\ At(r, l).pid = r.pid
           /\ At(r, l).status = r.status /\ At(r, l).child = r.child
           /\ At(r, l).fd = r.fd
BY DEF CliRecords, At, Same

LEMMA RootOpenedIs ==
    ASSUME NEW r \in CliRecords
    PROVE  /\ Same(RootOpened(r), r)
           /\ RootOpened(r).pc = "fork" /\ RootOpened(r).fd = dir[r.id]
BY DEF CliRecords, RootOpened, Same

LEMMA ForkedIs ==
    ASSUME NEW r \in CliRecords, NEW p, NEW l
    PROVE  /\ Same(Forked(r, p, l), r)
           /\ Forked(r, p, l).pc = l /\ Forked(r, p, l).ret = "pidfile"
           /\ Forked(r, p, l).pid = p /\ Forked(r, p, l).child = p
           /\ Forked(r, p, l).status = "created"
BY DEF CliRecords, Forked, Same

LEMMA TerminatedIs ==
    ASSUME NEW r \in CliRecords
    PROVE  Same(Terminated(r), r) /\ Terminated(r).pc = "destroy"
BY DEF CliRecords, Terminated, Same

LEMMA NotThereIs ==
    ASSUME NEW r \in CliRecords
    PROVE  Same(NotThere(r), r) /\ NotThere(r).pc = "rm" /\ NotThere(r).ret = "err"
BY DEF CliRecords, NotThere, Same

LEMMA LoadedIs ==
    ASSUME NEW r \in CliRecords
    PROVE  /\ Same(Loaded(r), r)
           /\ Loaded(r).pc = AfterLoad(r.cmd)
           /\ Loaded(r).pid = FileAt(r.id).pid
           /\ Loaded(r).status = FileAt(r.id).status
BY DEF CliRecords, Loaded, Same

LEMMA FoundDeadIs ==
    ASSUME NEW r \in CliRecords, NEW l
    PROVE  /\ Same(FoundDead(r, l), r)
           /\ FoundDead(r, l).pc = "saveopen" /\ FoundDead(r, l).ret = l
           /\ FoundDead(r, l).status = "stopped" /\ FoundDead(r, l).pid = r.pid
BY DEF CliRecords, FoundDead, Same

LEMMA AtFifoIs ==
    ASSUME NEW r \in CliRecords, NEW l
    PROVE  /\ Same(AtFifo(r, l), r)
           /\ AtFifo(r, l).pc = l /\ AtFifo(r, l).fd = FifoAt(r.id)
           /\ AtFifo(r, l).pid = r.pid /\ AtFifo(r, l).status = r.status
BY DEF CliRecords, AtFifo, Same

LEMMA StartedIs ==
    ASSUME NEW r \in CliRecords
    PROVE  /\ Same(Started(r), r)
           /\ Started(r).pc = "saveopen" /\ Started(r).ret = "rmfifo"
           /\ Started(r).status = "running" /\ Started(r).pid = r.pid
BY DEF CliRecords, Started, Same

LEMMA DestroyingIs ==
    ASSUME NEW r \in CliRecords
    PROVE  /\ Same(Destroying(r), r)
           /\ Destroying(r).pc = "rm" /\ Destroying(r).ret = "netdestroy"
BY DEF CliRecords, Destroying, Same

---------------------------------------------------------------------------
(* Which command may be where.                                             *)

\* A new record for one command, or a move to another label.
LEMMA RoleUpdate ==
    ASSUME CliType, Roles, NEW c \in Clis, NEW r, Role(r),
           cli' = [cli EXCEPT ![c] = r]
    PROVE  Roles'
BY DEF CliType, Roles, Role, SaveRole

LEMMA RoleGoto ==
    ASSUME CliType, Roles, NEW c \in Clis, NEW l, Goto(c, l),
           Role([cli[c] EXCEPT !.pc = l])
    PROVE  Roles'
<1>1. cli' = [cli EXCEPT ![c] = [cli[c] EXCEPT !.pc = l]]
  BY DEF Goto, CliType
<1> QED BY <1>1, RoleUpdate

\* The labels that any command may go to, and those of create.
LEMMA RoleEnd ==
    ASSUME CliType, Roles, NEW c \in Clis, NEW l, Goto(c, l),
           \/ l \in {"ok", "err"}
           \/ cli[c].cmd = "create" /\ l \in CreateLabels \union {"destroy", "undone"}
           \/ cli[c].cmd = "delete" /\ l \in {"destroy", "sigkill", "poll"}
           \/ cli[c].cmd \in {"create", "delete"} /\ l = "netdestroy"
    PROVE  Roles'
<1>1. Role([cli[c] EXCEPT !.pc = l])
  BY DEF Role, SaveLabels, RemoveLabels, CreateLabels, LoadLabels, CliType, CliRecords
<1> QED BY <1>1, RoleGoto

\* create.
LEMMA CreateRoles ==
    ASSUME TypeOK, Roles, NEW c \in Clis, CreateStep(c)
    PROVE  Roles'
<1>t. CliType /\ cli[c] \in CliRecords /\ Role(cli[c])
  BY DEF TypeOK, CliType, Roles
<1>1. cli[c].cmd = "create"
  BY <1>t DEF CreateStep, CreateSpec, CreateStat, CreateMkdir, CreateMkfifo, CreateFs,
     CreateNet, SetupIO, StartOpenRoot, StartFork, CreatePidFile, AdjustOomScore,
     Terminate, Role, CreateLabels
<1>2. CASE \E l \in CreateLabels \union {"destroy", "err", "ok"} : Goto(c, l)
  BY <1>1, <1>2, <1>t, RoleEnd
<1>3. ASSUME NEW r, cli' = [cli EXCEPT ![c] = r], r.cmd = "create",
             r.pc \in {"fork", "destroy"} \/ (r.pc = "saveopen" /\ r.ret = "pidfile")
      PROVE  Roles'
  <2>1. Role(r)
    BY <1>3 DEF Role, SaveRole, SaveLabels, RemoveLabels, CreateLabels, LoadLabels
  <2> QED BY <1>3, <2>1, <1>t, RoleUpdate
<1>4. CASE StartOpenRoot(c)
  <2>1. CASE Goto(c, "destroy")
    BY <2>1, <1>2
  <2>2. CASE cli' = [cli EXCEPT ![c].pc = "fork", ![c].fd = dir[cli[c].id]]
    <3> DEFINE r == [cli[c] EXCEPT !.pc = "fork", !.fd = dir[cli[c].id]]
    <3>1. cli' = [cli EXCEPT ![c] = r]
      BY <2>2, <1>t DEF CliType
    <3>2. r.cmd = "create" /\ r.pc = "fork"
      BY <1>1, <1>t DEF CliRecords
    <3> HIDE DEF r
    <3> QED BY <3>1, <3>2, <1>3
  <2> QED BY <1>4, <2>1, <2>2 DEF StartOpenRoot
<1>5. CASE StartFork(c)
  <2>1. CASE Goto(c, "destroy")
    BY <2>1, <1>2
  <2>2. ASSUME NEW p \in Pids, NEW l \in {"saveopen", "destroy"},
               cli' = [cli EXCEPT ![c] = Forked(cli[c], p, l)]
        PROVE  Roles'
    <3>1. /\ Forked(cli[c], p, l).cmd = "create" /\ Forked(cli[c], p, l).pc = l
          /\ Forked(cli[c], p, l).ret = "pidfile"
      BY <1>1, <1>t DEF Forked, CliRecords
    <3> QED BY <2>2, <3>1, <1>3
  <2> QED BY <1>5, <2>1, <2>2 DEF StartFork
<1>6. CASE Terminate(c)
  <2> DEFINE r == [cli[c] EXCEPT !.pc = "destroy", !.child = 0]
  <2>1. cli' = [cli EXCEPT ![c] = r]
    BY <1>6, <1>t DEF Terminate, CliType
  <2>2. r.cmd = "create" /\ r.pc = "destroy"
    BY <1>1, <1>t DEF CliRecords
  <2> HIDE DEF r
  <2> QED BY <2>1, <2>2, <1>3
<1>7. CASE CreateSpec(c) \/ CreateStat(c) \/ CreateMkdir(c) \/ CreateMkfifo(c)
           \/ CreateFs(c) \/ CreateNet(c)
  BY <1>7, <1>2 DEF CreateSpec, CreateStat, CreateMkdir, CreateMkfifo, CreateFs,
                    CreateNet, CreateLabels
<1>8. CASE SetupIO(c) \/ CreatePidFile(c) \/ AdjustOomScore(c)
  BY <1>8, <1>2 DEF SetupIO, CreatePidFile, AdjustOomScore, CreateLabels
<1> QED BY <1>4, <1>5, <1>6, <1>7, <1>8 DEF CreateStep

\* The commands that load a container.
LEMMA LoadRoles ==
    ASSUME TypeOK, Roles, NEW c \in Clis, LoadStep(c)
    PROVE  Roles'
<1>t. CliType /\ cli[c] \in CliRecords /\ Role(cli[c])
  BY DEF TypeOK, CliType, Roles
<1>1. CASE Load(c)
  <2> DEFINE state == FileAt(cli[c].id)
             gone == [cli[c] EXCEPT !.pc = "rm", !.ret = "err"]
             loaded == [cli[c] EXCEPT !.pc = AfterLoad(cli[c].cmd),
                                      !.pid = state.pid, !.status = state.status]
  <2>1. cli[c].cmd # "create"
    BY <1>1, <1>t DEF Load, Role, LoadLabels
  <2>2. \/ Goto(c, "err")
        \/ cli[c].cmd = "delete" /\ cli' = [cli EXCEPT ![c] = gone]
        \/ cli' = [cli EXCEPT ![c] = loaded]
    BY <1>1, <1>t DEF Load, CliType
  <2>3. cli[c].cmd = "delete" => Role(gone)
    BY <1>t DEF Role, SaveLabels, RemoveLabels, CreateLabels, LoadLabels, CliRecords
  <2>4. Role(loaded)
    BY <2>1, <1>t DEF Role, SaveLabels, RemoveLabels, CreateLabels, LoadLabels,
                      AfterLoad, CliRecords, Commands
  <2> QED BY <2>2, <2>3, <2>4, <1>t, RoleUpdate, RoleEnd
<1>2. CASE Probe(c)
  <2>1. cli[c].pc \in {"probe", "reprobe"} /\ cli[c].cmd \in {"start", "state", "delete"}
    BY <1>2, <1>t DEF Probe, Role
  <2>2. ASSUME NEW l \in AfterStatus(cli[c], cli[c].status), Goto(c, l)
        PROVE  Roles'
    <3>1. Role([cli[c] EXCEPT !.pc = l])
      BY <2>1, <2>2, <1>t
         DEF AfterStatus, StartSwitch, StateSwitch, DeleteSwitch, Role, SaveLabels,
             RemoveLabels, CreateLabels, LoadLabels, CliRecords
    <3> QED BY <2>2, <3>1, <1>t, RoleGoto
  <2>3. ASSUME NEW l \in AfterStatus(cli[c], "stopped"),
               cli' = [cli EXCEPT ![c].pc = "saveopen", ![c].ret = l,
                                  ![c].status = "stopped"]
        PROVE  Roles'
    <3> DEFINE r == [cli[c] EXCEPT !.pc = "saveopen", !.ret = l, !.status = "stopped"]
    <3>1. /\ r.pc = "saveopen" /\ r.cmd = cli[c].cmd /\ r.ret = l
          /\ r.status = "stopped"
      BY <1>t DEF CliRecords
    <3>2. /\ cli[c].cmd = "start" => l = "err"
          /\ cli[c].cmd = "state" => l \in {"reprobe", "ok"}
          /\ cli[c].cmd = "delete" => l = "destroy"
      BY <2>3 DEF AfterStatus, StartSwitch, StateSwitch, DeleteSwitch
    <3>3. cli' = [cli EXCEPT ![c] = r]
      BY <2>3, <1>t DEF CliType
    <3> HIDE DEF r
    <3>4. Role(r)
      BY <2>1, <3>1, <3>2
         DEF Role, SaveRole, SaveLabels, RemoveLabels, CreateLabels, LoadLabels
    <3> QED BY <3>3, <3>4, <1>t, RoleUpdate
  <2> QED BY <1>2, <2>2, <2>3 DEF Probe
<1>3. CASE ExecOpen(c)
  <2> DEFINE f == FifoAt(cli[c].id)
             l == IF Writers(f) = {} THEN "blocked" ELSE "read"
             r == [cli[c] EXCEPT !.fd = f, !.pc = l]
  <2>1. cli[c].cmd = "start"
    BY <1>3, <1>t DEF ExecOpen, Role
  <2>2. Goto(c, "err") \/ cli' = [cli EXCEPT ![c] = r]
    BY <1>3, <1>t DEF ExecOpen, CliType
  <2>3. r.cmd = "start" /\ r.pc \in {"blocked", "read"}
    BY <2>1, <1>t DEF CliRecords
  <2> HIDE DEF r
  <2>4. Role(r)
    BY <2>3 DEF Role, SaveLabels, RemoveLabels, CreateLabels, LoadLabels
  <2> QED BY <2>2, <2>4, <1>t, RoleUpdate, RoleEnd
<1>4. CASE ExecRead(c)
  <2>1. cli[c].cmd = "start"
    BY <1>4, <1>t DEF ExecRead, Role
  <2>2. Goto(c, "err") \/ cli' = [cli EXCEPT ![c] = Started(cli[c])]
    BY <1>4 DEF ExecRead
  <2>3. Role(Started(cli[c]))
    BY <2>1, <1>t DEF Started, Role, SaveRole, SaveLabels, RemoveLabels, CreateLabels,
                      LoadLabels, CliRecords
  <2> QED BY <2>2, <2>3, <1>t, RoleUpdate, RoleEnd
<1>5. CASE ExecRemove(c) \/ Signal(c)
  BY <1>5, <1>t, RoleEnd DEF ExecRemove, Signal
<1>6. CASE SigKill(c) \/ Poll(c)
  <2>1. cli[c].cmd = "delete"
    BY <1>6, <1>t DEF SigKill, Poll, Role
  <2> QED BY <1>6, <2>1, <1>t, RoleEnd DEF SigKill, Poll
<1> QED BY <1>1, <1>2, <1>3, <1>4, <1>5, <1>6 DEF LoadStep

\* saveState and destroy.
LEMMA SharedRoles ==
    ASSUME TypeOK, Roles, NEW c \in Clis, SharedStep(c)
    PROVE  Roles'
<1>t. CliType /\ cli[c] \in CliRecords /\ Role(cli[c])
  BY DEF TypeOK, CliType, Roles
<1>s. ASSUME cli[c].pc \in SaveLabels, Goto(c, cli[c].ret)
      PROVE  Roles'
  <2>1. Role([cli[c] EXCEPT !.pc = cli[c].ret])
    BY <1>s, <1>t DEF Role, SaveRole, SaveLabels, RemoveLabels, CreateLabels,
                      LoadLabels, CliRecords
  <2> QED BY <1>s, <2>1, <1>t, RoleGoto
<1>1. CASE SaveOpen(c)
  <2>1. CASE Goto(c, "savewrite")
    <3>1. Role([cli[c] EXCEPT !.pc = "savewrite"])
      BY <1>1, <1>t DEF SaveOpen, Role, SaveRole, SaveLabels, RemoveLabels, CreateLabels,
                        LoadLabels, CliRecords
    <3> QED BY <2>1, <3>1, <1>t, RoleGoto
  <2> QED BY <1>1, <2>1, <1>s DEF SaveOpen, SaveLabels
<1>2. CASE SaveWrite(c)
  BY <1>2, <1>s DEF SaveWrite, SaveLabels
<1>r. cli[c].pc \in RemoveLabels => /\ cli[c].cmd \in {"create", "delete"}
                                    /\ AfterDestroy(cli[c]) \in {"undone", "ok"}
                                    /\ AfterDestroy(cli[c]) = "undone" => cli[c].cmd = "create"
  BY <1>t DEF Role, AfterDestroy
<1>d. cli[c].pc \in {"rm", "rmdir"} =>
        /\ cli[c].ret \in {"netdestroy", "err"}
        /\ AfterRmFailure(cli[c]) \in {"undone", "ok", "err"}
        /\ AfterRmFailure(cli[c]) = "undone" => cli[c].cmd = "create"
  BY <1>t DEF Role, AfterRmFailure, AfterDestroy
<1>3. CASE Destroy(c)
  <2> DEFINE r == [cli[c] EXCEPT !.pc = "rm", !.ret = "netdestroy",
                                 !.pid = 0, !.status = "stopped"]
  <2>1. cli' = [cli EXCEPT ![c] = r]
    BY <1>3, <1>t DEF Destroy, CliType
  <2>2. r.pc = "rm" /\ r.ret = "netdestroy" /\ r.cmd \in {"create", "delete"}
    BY <1>3, <1>r, <1>t DEF Destroy, RemoveLabels, CliRecords
  <2> HIDE DEF r
  <2>3. Role(r)
    BY <2>2 DEF Role, SaveLabels, RemoveLabels, CreateLabels, LoadLabels
  <2> QED BY <2>1, <2>3, <1>t, RoleUpdate
<1>4. ASSUME NEW kept \in SUBSET {"file", "fifo", "iso"}, RemoveEntries(c, kept)
      PROVE  Roles'
  <2>1. CASE Goto(c, "rmdir")
    <3>1. Role([cli[c] EXCEPT !.pc = "rmdir"])
      BY <1>4, <1>t DEF RemoveEntries, Role, SaveLabels, RemoveLabels, CreateLabels,
                        LoadLabels, CliRecords
    <3> QED BY <2>1, <3>1, <1>t, RoleGoto
  <2>2. cli[c].pc = "rm" /\ cli[c].cmd \in {"create", "delete"}
    BY <1>4, <1>r DEF RemoveEntries, RemoveLabels
  <2> QED BY <1>4, <2>1, <2>2, <1>d, <1>t, RoleEnd DEF RemoveEntries
<1>5. CASE Rmdir(c)
  <2>1. cli[c].pc = "rmdir" /\ cli[c].cmd \in {"create", "delete"}
    BY <1>5, <1>r DEF Rmdir, RemoveLabels
  <2> QED BY <1>5, <2>1, <1>d, <1>t, RoleEnd DEF Rmdir
<1>6. CASE NetworkDestroy(c)
  BY <1>6, <1>r, <1>t, RoleEnd DEF NetworkDestroy, RemoveLabels
<1> QED
  BY <1>1, <1>2, <1>3, <1>4, <1>5, <1>6 DEF SharedStep

\* Callers and processes.
LEMMA OtherRoles ==
    ASSUME TypeOK, Roles,
           \/ \E c \in Clis : \/ \E m \in Commands, i \in Ids : Invoke(c, m, i)
                              \/ Exit(c) \/ Crash(c)
           \/ \E p \in Pids : ProcStep(p)
    PROVE  Roles'
<1>t. CliType
  BY DEF TypeOK
<1>1. ASSUME NEW c \in Clis, NEW m \in Commands, NEW i \in Ids, Invoke(c, m, i)
      PROVE  Roles'
  <2> DEFINE l == IF m = "create" THEN "spec" ELSE "load"
             r == [IdleCli EXCEPT !.pc = l, !.cmd = m, !.id = i,
                                  !.num = IF m = "create" THEN creates + 1 ELSE 0]
  <2>1. cli' = [cli EXCEPT ![c] = r]
    BY <1>1 DEF Invoke
  <2>2. r.pc = l /\ r.cmd = m
    BY DEF IdleCli
  <2> HIDE DEF r
  <2>3. Role(r)
    BY <2>2 DEF Role, SaveLabels, RemoveLabels, CreateLabels, LoadLabels
  <2> QED BY <2>1, <2>3, <1>t, RoleUpdate
<1>2. ASSUME NEW c \in Clis, Exit(c) \/ Crash(c)
      PROVE  Roles'
  <2>1. Role(IdleCli)
    BY DEF Role, IdleCli, SaveLabels, RemoveLabels, CreateLabels, LoadLabels
  <2> QED BY <1>2, <2>1, <1>t, RoleUpdate DEF Exit, Crash
<1>3. ASSUME NEW f, cli' = Woken(f)
      PROVE  Roles'
  BY <1>3, <1>t DEF Woken, Roles, Role, SaveLabels, RemoveLabels, CreateLabels,
                    LoadLabels, CliType, CliRecords
<1>4. UNCHANGED cli => Roles'
  BY DEF Roles, Role, SaveRole
<1>5. ASSUME NEW p \in Pids, ProcStep(p)
      PROVE  Roles'
  BY <1>5, <1>3, <1>4
     DEF ProcStep, InitStep, InitSetup, InitSetupFails, InitOpened, InitWrite,
         InitLaunch, InitExit, Reap, OtherSpawn, OtherExit
<1> QED BY <1>1, <1>2, <1>5

---------------------------------------------------------------------------
(* What a step leaves alone.                                               *)

\* A step of a command changes its own record only, and there neither the
\* command nor its id, until it exits.
LEMMA OneMoves ==
    ASSUME TypeOK, NEW c \in Clis, CliStep(c)
    PROVE  /\ Busy(c)
           /\ \E r : Now(c, r) /\ ((Exit(c) /\ r = IdleCli) \/ Same(r, cli[c]))
           /\ UNCHANGED counters
<1>t. CliType /\ cli[c] \in CliRecords
  BY DEF TypeOK, CliType
<1> DEFINE Moved == \E r : Now(c, r) /\ Same(r, cli[c])
<1>g. \A l : Goto(c, l) => Moved
  BY <1>t, NewGoto, AtIs
<1>1. CASE StartOpenRoot(c)
  BY <1>1, <1>g, <1>t, NewOpenRoot, RootOpenedIs DEF StartOpenRoot, Busy
<1>2. CASE StartFork(c)
  BY <1>2, <1>g, <1>t, ForkedIs DEF StartFork, Busy, Now
<1>3. CASE Terminate(c)
  BY <1>3, <1>t, NewTerminate, TerminatedIs DEF Terminate, Busy
<1>4. CASE Load(c)
  BY <1>4, <1>g, <1>t, NewLoad, NotThereIs, LoadedIs DEF Load, Busy
<1>5. CASE Probe(c)
  BY <1>5, <1>g, <1>t, NewProbe, FoundDeadIs DEF Probe, Busy
<1>6. CASE ExecOpen(c)
  BY <1>6, <1>g, <1>t, NewExecOpen, AtFifoIs DEF ExecOpen, Busy
<1>7. CASE ExecRead(c)
  BY <1>7, <1>g, <1>t, StartedIs DEF ExecRead, Busy, Now
<1>8. CASE Destroy(c)
  BY <1>8, <1>t, NewDestroy, DestroyingIs DEF Destroy, Busy
<1>9. CASE Exit(c)
  BY <1>9 DEF Exit, Busy, EndLabels, Now
<1>10. CASE CreateSpec(c) \/ CreateStat(c) \/ CreateMkdir(c) \/ CreateMkfifo(c)
            \/ CreateFs(c) \/ CreateNet(c)
  BY <1>10, <1>g DEF CreateSpec, CreateStat, CreateMkdir, CreateMkfifo, CreateFs,
                     CreateNet, Busy
<1>11. CASE SetupIO(c) \/ CreatePidFile(c) \/ AdjustOomScore(c)
            \/ ExecRemove(c) \/ Signal(c) \/ SigKill(c) \/ Poll(c)
  BY <1>11, <1>g DEF SetupIO, CreatePidFile, AdjustOomScore, ExecRemove, Signal,
                     SigKill, Poll, Busy
<1>12. ASSUME SaveOpen(c) \/ SaveWrite(c) \/ Rmdir(c) \/ NetworkDestroy(c)
              \/ \E kept \in SUBSET {"file", "fifo", "iso"} : RemoveEntries(c, kept)
       PROVE  Moved /\ Busy(c) /\ UNCHANGED counters
  BY <1>12, <1>g DEF SaveOpen, SaveWrite, Rmdir, NetworkDestroy, RemoveEntries, Busy
<1> QED
  BY <1>1, <1>2, <1>3, <1>4, <1>5, <1>6, <1>7, <1>8, <1>9, <1>10, <1>11, <1>12
     DEF CliStep, CreateStep, LoadStep, SharedStep

\* Only mkdir and rmdir change what a path leads to.
LEMMA DirSteps ==
    ASSUME NEW c \in Clis, CliStep(c)
    PROVE  CreateMkdir(c) \/ Rmdir(c) \/ UNCHANGED dir
<1>1. CASE CreateStep(c)
  BY <1>1 DEF CreateStep, CreateSpec, CreateStat, CreateMkfifo,
              CreateFs, CreateNet, SetupIO, StartOpenRoot, StartFork,
              CreatePidFile, AdjustOomScore, Terminate, fsVars
<1>2. CASE LoadStep(c)
  BY <1>2 DEF LoadStep, Load, Probe, ExecOpen, ExecRead, ExecRemove, Signal,
              SigKill, Poll, fsVars
<1>3. CASE SharedStep(c)
  BY <1>3 DEF SharedStep, SaveOpen, SaveWrite, Destroy, RemoveEntries, NetworkDestroy,
              fsVars
<1>4. CASE Exit(c)
  BY <1>4 DEF Exit, fsVars
<1> QED BY <1>1, <1>2, <1>3, <1>4 DEF CliStep

\* Only create adds a TAP device, and only destroy deletes one.
LEMMA TapSteps ==
    ASSUME NEW c \in Clis, CliStep(c)
    PROVE  CreateNet(c) \/ NetworkDestroy(c) \/ UNCHANGED taps
<1>1. CASE CreateStep(c)
  BY <1>1 DEF CreateStep, CreateSpec, CreateStat, CreateMkdir, CreateMkfifo, CreateFs, SetupIO,
              StartOpenRoot, StartFork, CreatePidFile, AdjustOomScore, Terminate
<1>2. CASE LoadStep(c)
  BY <1>2 DEF LoadStep, Load, Probe, ExecOpen, ExecRead, ExecRemove, Signal, SigKill, Poll
<1>3. CASE SharedStep(c)
  BY <1>3 DEF SharedStep, SaveOpen, SaveWrite, Destroy, RemoveEntries, Rmdir
<1>4. CASE Exit(c)
  BY <1>4 DEF Exit
<1> QED BY <1>1, <1>2, <1>3, <1>4 DEF CliStep

\* The path of another id, and the record in another directory, stay.
LEMMA Local ==
    ASSUME TypeOK, Opens, NEW c \in Clis, CliStep(c)
    PROVE  /\ \A i \in Ids : i # cli[c].id => dir'[i] = dir[i]
           /\ \A d \in Inodes : d # dir[cli[c].id] => file'[d] = file[d]
<1>t. CliType /\ FsType
  BY DEF TypeOK
<1>1. \A i \in Ids : i # cli[c].id => dir'[i] = dir[i]
  BY DirSteps, <1>t DEF CreateMkdir, Rmdir, FsType
<1>2. ASSUME NEW d \in Inodes, d # dir[cli[c].id]
      PROVE  file'[d] = file[d]
  <2>1. CASE SaveOpen(c)
    BY <2>1, <1>2, <1>t DEF SaveOpen, FsType
  <2>2. CASE SaveWrite(c)
    <3>1. c \notin file[d].open
      BY <1>2 DEF Opens
    <3>2. file[d].open \ {c} = file[d].open
      BY <3>1
    <3>3. Written(c)[d] = file[d]
      BY <3>1 DEF Written
    <3>4. Closed(c)[d] = file[d]
      BY <3>2, <1>t DEF Closed, FsType, Files
    <3> QED BY <2>2, <3>3, <3>4 DEF SaveWrite
  <2>3. ASSUME NEW kept \in SUBSET {"file", "fifo", "iso"}, RemoveEntries(c, kept)
        PROVE  file'[d] = file[d]
    BY <2>3, <1>2, <1>t DEF RemoveEntries, FsType
  <2>4. CASE UNCHANGED file
    BY <2>4
  <2> QED BY <2>1, <2>2, <2>3, <2>4, FileUntouched DEF CliStep, SharedStep
<1> QED BY <1>1, <1>2

\* A living init process was one before the step, with the same id and
\* directory, or has just been forked.
StillLives(p) == /\ LiveInit(p)
                 /\ proc'[p].id = proc[p].id
                 /\ proc'[p].root = proc[p].root

LEMMA Lives ==
    ASSUME TypeOK, NEW c \in Clis, CliStep(c), NEW p \in Pids, LiveInit(p)'
    PROVE  \/ StillLives(p)
           \/ /\ StartFork(c)
              /\ proc'[p] = NewInit(c)
              /\ \E l : cli' = [cli EXCEPT ![c] = Forked(cli[c], p, l)]
<1>t. ProcType
  BY DEF TypeOK
<1>u. UNCHANGED proc => StillLives(p)
  BY DEF StillLives, LiveInit
<1>1. CASE StartFork(c)
  <2>1. CASE UNCHANGED proc
    BY <2>1, <1>u
  <2>2. ASSUME NEW q \in Pids, proc' = [proc EXCEPT ![q] = NewInit(c)], p # q
        PROVE  StillLives(p)
    BY <2>2, <1>t DEF ProcType, StillLives, LiveInit
  <2> QED BY <1>1, <2>1, <2>2, <1>t DEF StartFork, ProcType
<1>2. CASE Terminate(c)
  BY <1>2, <1>t DEF Terminate, ProcType, StillLives, LiveInit, NoProc, InitStates
<1>3. CASE Signal(c) \/ SigKill(c)
  BY <1>3, <1>u, <1>t
     DEF Signal, SigKill, Killed, LiveInit, StillLives, ProcType, Procs, NoProc, InitStates
<1>4. CASE CreateStep(c) /\ ~StartFork(c) /\ ~Terminate(c)
  BY <1>4, <1>u DEF CreateStep, CreateSpec, CreateStat, CreateMkdir, CreateMkfifo,
              CreateFs, CreateNet, SetupIO, StartOpenRoot, CreatePidFile, AdjustOomScore
<1>5. CASE LoadStep(c) /\ ~Signal(c) /\ ~SigKill(c)
  BY <1>5, <1>u DEF LoadStep, Load, Probe, ExecOpen, ExecRead, ExecRemove, Poll
<1>6. CASE SharedStep(c)
  BY <1>6, <1>u DEF SharedStep, SaveOpen, SaveWrite, Destroy, RemoveEntries, Rmdir,
              NetworkDestroy
<1>7. CASE Exit(c)
  BY <1>7, <1>u DEF Exit
<1> QED BY <1>1, <1>2, <1>3, <1>4, <1>5, <1>6, <1>7 DEF CliStep

\* No process of its own accord becomes a living init.
LEMMA ProcLives ==
    ASSUME TypeOK, NEW q \in Pids, ProcStep(q), NEW p \in Pids, LiveInit(p)'
    PROVE  StillLives(p)
BY DEF TypeOK, ProcType, Procs, ProcStep, InitStep, InitSetup, InitSetupFails, InitOpened,
       InitWrite, InitLaunch, InitExit, InitDies, Reap, OtherSpawn, OtherExit,
       OtherProc, NoProc, LiveInit, StillLives, InitStates

\* Where the living init processes stay the same or get fewer, none appear.
LEMMA Fewer ==
    ASSUME \A p \in Pids : LiveInit(p)' => StillLives(p)
    PROVE  /\ \A i : NoneLives(i) => NoneLives(i)'
           /\ \A d : NoneRooted(d) => NoneRooted(d)'
BY DEF NoneLives, NoneRooted, StillLives

\* A step of a process wakes a start, and changes no path and no record.
LEMMA ProcFrame ==
    ASSUME NEW q \in Pids, ProcStep(q)
    PROVE  /\ UNCHANGED <<dir, file, creates, crashes, iso, fifo, taps>>
           /\ UNCHANGED cli \/ \E f : cli' = Woken(f)
BY DEF ProcStep, InitStep, InitSetup, InitSetupFails, InitOpened, InitWrite,
       InitLaunch, InitExit, InitDies, Reap, OtherSpawn, OtherExit, fsVars, counters

---------------------------------------------------------------------------
(* Callers, directories and open files.                                    *)

\* Who is busy stays with its command and id.
LEMMA StillBusy ==
    ASSUME TypeOK, NEW a \in Clis, NEW c \in Clis,
           CliStep(a) \/ \E q \in Pids : ProcStep(q), Busy(c)'
    PROVE  Busy(c) /\ cli'[c].id = cli[c].id /\ cli'[c].cmd = cli[c].cmd
                   /\ cli'[c].num = cli[c].num
<1>t. CliType /\ cli[c] \in CliRecords
  BY DEF TypeOK, CliType
<1>1. CASE CliStep(a)
  <2>1. PICK r : Now(a, r) /\ (r = IdleCli \/ Same(r, cli[a]))
    BY <1>1, OneMoves
  <2>2. Busy(a)
    BY <1>1, OneMoves
  <2>3. CASE c = a
    BY <2>1, <2>2, <2>3, <1>t, NowIs DEF Busy, IdleCli, Same
  <2>4. CASE c # a
    BY <2>1, <2>4, <1>t, NowIs DEF Busy
  <2> QED BY <2>3, <2>4
<1>2. CASE \E q \in Pids : ProcStep(q)
  <2>1. UNCHANGED cli \/ \E f : cli' = Woken(f)
    BY <1>2, ProcFrame
  <2> QED BY <2>1, <1>t DEF Woken, Busy, CliRecords
<1> QED BY <1>1, <1>2

LEMMA AloneStep ==
    ASSUME TypeOK, Alone, {"create", "delete"} \subseteq Exclusive,
           \/ \E c \in Clis : \/ CliStep(c)
                              \/ \E m \in Commands, i \in Ids : Invoke(c, m, i)
           \/ \E q \in Pids : ProcStep(q)
    PROVE  Alone'
<1>t. CliType
  BY DEF TypeOK
<1>1. ASSUME NEW a \in Clis, CliStep(a)
      PROVE  Alone'
  BY <1>1, StillBusy DEF Alone
<1>3. ASSUME NEW q \in Pids, ProcStep(q)
      PROVE  Alone'
  BY <1>3, StillBusy DEF Alone
<1>2. ASSUME NEW a \in Clis, NEW m \in Commands, NEW i \in Ids, Invoke(a, m, i)
      PROVE  Alone'
  <2>1. /\ ~Busy(a)
        /\ \A o \in Clis : o # a => cli'[o] = cli[o]
        /\ cli'[a].cmd = m /\ cli'[a].id = i
    BY <1>2, <1>t DEF Invoke, Busy, CliType, IdleCli
  <2>2. \A o \in Clis : Busy(o) /\ cli[o].id = i
                          => m \notin Exclusive /\ cli[o].cmd \notin Exclusive
    BY <1>2 DEF Invoke, Busy
  <2>3. \A o \in Clis \ {a} : Busy(o)' => Busy(o)
    BY <2>1 DEF Busy
  <2> QED BY <2>1, <2>2, <2>3 DEF Alone
<1> QED BY <1>1, <1>2, <1>3

\* How a create comes to the labels before its mkdir.
LEMMA EarlyMoves ==
    ASSUME TypeOK, NEW c \in Clis, CliStep(c), cli'[c].pc \in Early
    PROVE  /\ cli[c].pc \in {"spec", "stat"}
           /\ UNCHANGED <<fsVars, proc>>
           /\ cli'[c].pc = "mkdir" => dir[cli[c].id] = 0
<1>t. CliType /\ cli[c] \in CliRecords
  BY DEF TypeOK, CliType
<1>n. \A r : Now(c, r) => cli'[c] = r
  BY <1>t, NowIs
<1>g. \A l : Goto(c, l) => cli'[c].pc = l
  BY <1>t, <1>n, NewGoto, AtIs
<1>r. cli[c].ret \notin Early /\ AfterDestroy(cli[c]) \notin Early
      /\ AfterRmFailure(cli[c]) \notin Early
  BY <1>t DEF CliRecords, RetLabels, Early, AfterDestroy, AfterRmFailure
<1> USE DEF Early
<1>1. CASE CreateSpec(c) \/ CreateStat(c)
  BY <1>1, <1>g DEF CreateSpec, CreateStat
<1>2. CASE CreateMkdir(c) \/ CreateMkfifo(c) \/ CreateFs(c) \/ CreateNet(c) \/ SetupIO(c)
           \/ CreatePidFile(c) \/ AdjustOomScore(c)
  BY <1>2, <1>g DEF CreateMkdir, CreateMkfifo, CreateFs, CreateNet, SetupIO,
                    CreatePidFile, AdjustOomScore
<1>3. CASE StartOpenRoot(c) \/ Terminate(c)
  BY <1>3, <1>g, <1>n, <1>t, NewOpenRoot, RootOpenedIs, NewTerminate, TerminatedIs
<1>4. CASE StartFork(c)
  BY <1>4, <1>g, <1>n, <1>t, ForkedIs DEF StartFork, Now
<1>5. CASE Load(c)
  BY <1>5, <1>g, <1>n, <1>t, NewLoad, NotThereIs, LoadedIs DEF AfterLoad
<1>6. CASE Probe(c)
  <2>1. ASSUME NEW l \in AfterStatus(cli[c], cli[c].status), Goto(c, l) PROVE FALSE
    BY <2>1, <1>g DEF AfterStatus, StartSwitch, StateSwitch, DeleteSwitch
  <2> QED BY <1>6, <2>1, <1>n, <1>t, NewProbe, FoundDeadIs
<1>7. CASE ExecOpen(c)
  BY <1>7, <1>g, <1>n, <1>t, NewExecOpen, AtFifoIs
<1>8. CASE ExecRead(c) \/ Exit(c)
  BY <1>8, <1>g, <1>n, <1>t, StartedIs DEF ExecRead, Exit, IdleCli, Now
<1>9. CASE ExecRemove(c) \/ Signal(c) \/ SigKill(c) \/ Poll(c)
  BY <1>9, <1>g DEF ExecRemove, Signal, SigKill, Poll
<1>10. CASE Destroy(c)
  BY <1>10, <1>n, <1>t, NewDestroy, DestroyingIs
<1>11. CASE SharedStep(c) /\ ~Destroy(c)
  BY <1>11, <1>g, <1>r
     DEF SharedStep, SaveOpen, SaveWrite, RemoveEntries, Rmdir, NetworkDestroy
<1> QED BY <1>1, <1>2, <1>3, <1>4, <1>5, <1>6, <1>7, <1>8, <1>9, <1>10, <1>11
        DEF CliStep, CreateStep, LoadStep

\* The number of a directory is that of one id, and of no create that has
\* yet to make one.
LEMMA DirsStep ==
    ASSUME TypeOK, Dirs, Opens,
           \A c \in Clis : cli[c].pc \in Early =>
               cli[c].num \in 1 .. creates /\ Untouched(cli[c].num),
           \/ \E c \in Clis : \/ CliStep(c)
                              \/ \E m \in Commands, i \in Ids : Invoke(c, m, i)
           \/ \E q \in Pids : ProcStep(q)
    PROVE  Dirs'
<1>t. /\ CliType /\ FsType
      /\ creates \in Nat
  BY DEF TypeOK, CounterType
<1>1. ASSUME NEW a \in Clis, NEW m \in Commands, NEW i \in Ids, Invoke(a, m, i)
      PROVE  Dirs'
  <2>1. /\ UNCHANGED <<dir, file>>
        /\ creates' \in {creates, creates + 1}
        /\ \A o \in Clis : o # a => cli'[o] = cli[o]
        /\ cli'[a].pc \in Early => cli'[a].num = creates + 1
    BY <1>1, <1>t DEF Invoke, CliType, IdleCli, fsVars, Early
  <2>2. \A d \in Inodes : d > creates' => d > creates
    BY <2>1, <1>t DEF Inodes
  <2>3. \A o \in Clis : cli[o].pc \in Early => cli[o].num # creates + 1
    BY <1>t
  <2> QED BY <2>1, <2>2, <2>3 DEF Dirs, Untouched
<1>2. ASSUME NEW c \in Clis, CliStep(c)
      PROVE  Dirs'
  <2>1. /\ Busy(c) /\ UNCHANGED creates
        /\ \A o \in Clis : o # c => cli'[o] = cli[o]
        /\ cli'[c].num = cli[c].num \/ cli'[c].pc = "idle"
    BY <1>2, <1>t, OneMoves, NowIs DEF counters, IdleCli, Same
  <2>2. cli'[c].pc \in Early => cli[c].pc \in Early
    BY <1>2, EarlyMoves DEF Early
  <2>3. CASE CreateMkdir(c)
    <3>1. UNCHANGED file /\ cli[c].pc = "mkdir" /\ cli'[c].pc \notin Early
      BY <2>3, <1>t DEF CreateMkdir, Goto, CliType, CliRecords, Early
    <3>2. cli[c].num \in 1 .. creates /\ Untouched(cli[c].num)
      BY <3>1 DEF Early
    <3>3. \A i \in Ids : dir'[i] \in {dir[i], cli[c].num}
      BY <2>3, <1>t DEF CreateMkdir, FsType
    <3>4. \A i \in Ids : i # cli[c].id => dir'[i] = dir[i]
      BY <2>3, <1>t DEF CreateMkdir, FsType
    <3>5. \A d \in Inodes : d > creates => d # cli[c].num
      BY <3>2, <1>t DEF Inodes
    <3> QED BY <2>1, <2>2, <3>1, <3>2, <3>3, <3>4, <3>5 DEF Dirs, Untouched
  <2>4. CASE ~CreateMkdir(c)
    <3>1. \A i \in Ids : dir'[i] \in {dir[i], 0}
      BY <1>2, <2>4, DirSteps, <1>t DEF Rmdir, FsType
    <3>2. \A d \in Inodes : Untouched(d) => Untouched(d)'
      <4> SUFFICES ASSUME NEW d \in Inodes, Untouched(d) PROVE Untouched(d)'
        OBVIOUS
      <4>1. \A i \in Ids : dir'[i] # d
        BY <3>1 DEF Untouched, Inodes
      <4>2. cli[c].id \in Ids
        BY <2>1, <1>t DEF CliType, CliRecords, Busy
      <4>3. file'[d] = file[d]
        BY <1>2, <4>2, Local DEF Untouched
      <4> QED BY <4>1, <4>3 DEF Untouched
    <3>3. \A i, j \in Ids : dir'[i] = dir'[j] /\ dir'[i] # 0 => dir[i] = dir[j] /\ dir[i] # 0
      BY <3>1
    <3>4. \A o \in Clis : cli'[o].pc \in Early => cli[o].pc \in Early /\ cli'[o].num = cli[o].num
      BY <2>1, <2>2 DEF Early
    <3> QED BY <2>1, <3>2, <3>3, <3>4 DEF Dirs
  <2> QED BY <2>3, <2>4
<1>3. ASSUME NEW q \in Pids, ProcStep(q)
      PROVE  Dirs'
  <2>1. UNCHANGED <<dir, file, creates>> /\ (UNCHANGED cli \/ \E f : cli' = Woken(f))
    BY <1>3, ProcFrame
  <2>2. \A c \in Clis : cli'[c].pc \in Early => cli'[c] = cli[c]
    BY <2>1, <1>t DEF Woken, Early, CliType, CliRecords
  <2> QED BY <2>1, <2>2 DEF Dirs, Untouched
<1> QED BY <1>1, <1>2, <1>3

\* At a label only the step of that label is taken.
LEMMA OnlyStep ==
    ASSUME NEW c \in Clis, CliStep(c)
    PROVE  /\ cli[c].pc = "savewrite" => SaveWrite(c)
           /\ cli[c].pc = "saveopen" => SaveOpen(c)
           /\ cli[c].pc = "netdestroy" => NetworkDestroy(c)
           /\ cli[c].pc = "rmdir" => Rmdir(c)
           /\ cli[c].pc = "rm" =>
                \E kept \in SUBSET {"file", "fifo", "iso"} : RemoveEntries(c, kept)
           /\ cli[c].pc \in Early => CreateSpec(c) \/ CreateStat(c) \/ CreateMkdir(c)
           /\ cli[c].pc \in EndLabels => Exit(c)
<1> USE DEF CliStep, Early, EndLabels
<1>1. CASE CreateStep(c)
  BY <1>1 DEF CreateStep, CreateSpec, CreateStat, CreateMkdir, CreateMkfifo,
              CreateFs, CreateNet, SetupIO, StartOpenRoot, StartFork,
              CreatePidFile, AdjustOomScore, Terminate
<1>2. CASE LoadStep(c)
  BY <1>2 DEF LoadStep, Load, Probe, ExecOpen, ExecRead, ExecRemove, Signal,
              SigKill, Poll
<1>3. CASE SharedStep(c)
  BY <1>3 DEF SharedStep, Destroy, RemoveEntries, Rmdir, NetworkDestroy, SaveOpen, SaveWrite
<1>4. CASE Exit(c)
  BY <1>4 DEF Exit
<1> QED BY <1>1, <1>2, <1>3, <1>4

\* A command that works on the path of its id alone is the only one there.
LEMMA Apart ==
    ASSUME TypeOK, Alone, Roles, NEW c \in Clis, NEW o \in Clis, o # c,
           CliStep(c), Busy(o), cli[o].id = cli[c].id
    PROVE  /\ cli[c].cmd \notin {"create", "delete"} /\ cli[o].cmd \notin {"create", "delete"}
           /\ UNCHANGED dir
           /\ ~StartFork(c) /\ \A kept : ~RemoveEntries(c, kept)
<1>1. Busy(c)
  BY OneMoves
<1>2. cli[c].cmd \notin {"create", "delete"} /\ cli[o].cmd \notin {"create", "delete"}
  BY <1>1 DEF Alone
<1>3. /\ cli[c].pc \notin {"mkdir", "fork", "rm", "rmdir"}
  BY <1>2 DEF Roles, Role, CreateLabels, RemoveLabels
<1>4. UNCHANGED dir
  BY <1>3, DirSteps DEF CreateMkdir, Rmdir
<1> QED BY <1>2, <1>3, <1>4 DEF StartFork, RemoveEntries

LEMMA OpensStep ==
    ASSUME TypeOK, Alone, Roles, Opens,
           \/ \E c \in Clis : \/ CliStep(c)
                              \/ \E m \in Commands, i \in Ids : Invoke(c, m, i)
           \/ \E q \in Pids : ProcStep(q)
    PROVE  Opens'
<1>t. CliType /\ FsType
  BY DEF TypeOK
<1>1. ASSUME NEW a \in Clis, NEW m \in Commands, NEW i \in Ids, Invoke(a, m, i)
      PROVE  Opens'
  <2>1. /\ UNCHANGED <<dir, file>> /\ cli[a].pc = "idle"
        /\ \A o \in Clis : o # a => cli'[o] = cli[o]
    BY <1>1, <1>t DEF Invoke, CliType, fsVars
  <2>2. \A d \in Inodes : file[d].open \subseteq Clis
    BY <1>t DEF FsType, Files
  <2> QED BY <2>1, <2>2 DEF Opens
<1>2. ASSUME NEW a \in Clis, CliStep(a)
      PROVE  Opens'
  <2> SUFFICES ASSUME NEW d \in Inodes, NEW c \in Clis, c \in file'[d].open
               PROVE  cli'[c].pc = "savewrite" /\ dir'[cli'[c].id] = d
    <3>1. FsType'
      BY <1>2, CreateTypes, LoadTypes, SharedTypes, CallerTypes DEF CliStep, TypeOK
    <3> QED BY <3>1 DEF Opens, FsType, Files
  <2>1. CASE c # a
    <3>1. cli'[c] = cli[c]
      BY <1>2, <2>1, <1>t, OneMoves, NowIs
    <3>2. c \in file[d].open
      <4>1. CASE SaveOpen(a)
        <5> DEFINE e == dir[cli[a].id]
        <5>0. cli[a].id \in Ids
          BY <1>2, OneMoves DEF TypeOK, CliType, CliRecords, Busy
        <5>1. CASE e # 0 /\ d = e
          BY <2>1, <4>1, <5>0, <5>1, SavedOpen
        <5>2. CASE e = 0
          BY <4>1, <5>2 DEF SaveOpen
        <5>3. CASE e # 0 /\ d # e
          BY <4>1, <5>0, <5>3, SavedOpen
        <5> QED BY <5>1, <5>2, <5>3
      <4>2. CASE SaveWrite(a)
        BY <2>1, <4>2, <1>t DEF SaveWrite, Written, Closed, FsType, Files
      <4>3. ASSUME NEW kept \in SUBSET {"file", "fifo", "iso"}, RemoveEntries(a, kept)
            PROVE  c \in file[d].open
        BY <2>1, <4>3, <1>t DEF RemoveEntries, NoFile, FsType, Files
      <4> QED BY <1>2, <4>1, <4>2, <4>3, FileUntouched DEF CliStep, SharedStep
    <3>3. cli[c].pc = "savewrite" /\ dir[cli[c].id] = d
      BY <3>2 DEF Opens
    <3>4. dir'[cli[c].id] = dir[cli[c].id]
      <4>1. cli[c].id \in Ids /\ Busy(c)
        BY <3>3, <1>t DEF CliType, CliRecords, Busy
      <4> QED BY <1>2, <2>1, <4>1, Apart, Local
    <3> QED BY <3>1, <3>3, <3>4
  <2>2. CASE c = a
    <3>1. CASE SaveOpen(a)
      <4>1. CASE UNCHANGED file
        BY <2>2, <3>1, <4>1 DEF Opens, SaveOpen
      <4>2. CASE ~UNCHANGED file
        <5> DEFINE e == dir[cli[a].id]
        <5>1. e # 0 /\ Goto(a, "savewrite") /\ UNCHANGED dir
          BY <3>1, <4>2 DEF SaveOpen
        <5>2. cli'[a].pc = "savewrite" /\ cli'[a].id = cli[a].id
          <6>1. cli'[a] = At(cli[a], "savewrite")
            BY <5>1, <1>t, NewGoto, NowIs
          <6> QED BY <6>1, <1>t, AtIs DEF CliType, Same
        <5>3. d = e
          <6>1. cli[a].id \in Ids
            BY <1>2, OneMoves DEF TypeOK, CliType, CliRecords, Busy
          <6>2. a \notin file[d].open
            BY <3>1 DEF Opens, SaveOpen
          <6>3. d # e => file'[d] = file[d]
            BY <3>1, <5>1, <6>1, SavedOpen
          <6> QED BY <2>2, <6>2, <6>3
        <5> QED BY <2>2, <5>1, <5>2, <5>3
      <4> QED BY <4>1, <4>2
    <3>2. CASE SaveWrite(a)
      BY <2>2, <3>2, <1>t DEF SaveWrite, Written, Closed, FsType, Files
    <3>3. CASE ~SaveOpen(a) /\ ~SaveWrite(a)
      <4>1. \A e \in Inodes : a \notin file[e].open
        BY <1>2, <3>3, OnlyStep DEF Opens
      <4>2. a \notin file'[d].open
        <5>1. ASSUME NEW kept \in SUBSET {"file", "fifo", "iso"}, RemoveEntries(a, kept)
              PROVE  a \notin file'[d].open
          BY <4>1, <5>1, <1>t DEF RemoveEntries, NoFile, FsType
        <5> QED BY <1>2, <3>3, <4>1, <5>1, FileUntouched DEF CliStep, SharedStep
      <4> QED BY <2>2, <4>2
    <3> QED BY <3>1, <3>2, <3>3
  <2> QED BY <2>1, <2>2
<1>3. ASSUME NEW q \in Pids, ProcStep(q)
      PROVE  Opens'
  <2>1. UNCHANGED <<dir, file>> /\ (UNCHANGED cli \/ \E f : cli' = Woken(f))
    BY <1>3, ProcFrame
  <2>2. \A c \in Clis : cli[c].pc = "savewrite" => cli'[c] = cli[c]
    BY <2>1, <1>t DEF Woken, CliType, CliRecords
  <2>3. \A d \in Inodes : file[d].open \subseteq Clis
    BY <1>t DEF FsType, Files
  <2> QED BY <2>1, <2>2, <2>3 DEF Opens
<1> QED BY <1>1, <1>2, <1>3

---------------------------------------------------------------------------
(* What the commands that do not move know.                                *)

\* What the path of o leads to, and what is known of the init processes
\* there, is not changed by the step of another command.
LEMMA PathKept ==
    ASSUME TypeOK, LifeInv, NEW c \in Clis, NEW o \in Clis, o # c, CliStep(c), Busy(o)
    PROVE  /\ cli'[o] = cli[o] /\ cli[o].id \in Ids
           /\ dir'[cli[o].id] = dir[cli[o].id]
           /\ dir[cli[o].id] # 0 =>
                /\ file'[dir[cli[o].id]].pid = file[dir[cli[o].id]].pid
                /\ file[dir[cli[o].id]].kind # "none" => file'[dir[cli[o].id]].kind # "none"
                /\ cli[o].cmd \in {"create", "delete"}
                     => file'[dir[cli[o].id]] = file[dir[cli[o].id]]
                /\ NoneRooted(dir[cli[o].id]) => NoneRooted(dir[cli[o].id])'
           /\ NoneLives(cli[o].id) => NoneLives(cli[o].id)'
<1> DEFINE i == cli[o].id
           d == dir[i]
<1>t. /\ CliType /\ FsType /\ cli[o].id \in Ids /\ cli[c].id \in Ids
      /\ d \in Inodes \union {0}
  BY OneMoves DEF TypeOK, CliType, CliRecords, Busy, FsType
<1>l. LabelOK(cli[c]) /\ Roles /\ Alone /\ Opens
  BY DEF LifeInv
<1>o. cli'[o] = cli[o]
  BY <1>t, OneMoves, NowIs
<1>d. dir'[i] = d
  BY <1>t, <1>l, Apart, Local
<1>1. CASE i = cli[c].id
  <2>1. /\ cli[c].cmd \notin {"create", "delete"} /\ cli[o].cmd \notin {"create", "delete"}
        /\ ~StartFork(c) /\ \A kept : ~RemoveEntries(c, kept)
    BY <1>1, <1>l, Apart
  <2>2. \A p \in Pids : LiveInit(p)' => StillLives(p)
    BY <2>1, Lives
  <2>3. d # 0 => file'[d].pid = file[d].pid /\ (file[d].kind # "none" => file'[d].kind # "none")
    <3> SUFFICES ASSUME d # 0
                 PROVE  /\ file'[d].pid = file[d].pid
                        /\ file[d].kind # "none" => file'[d].kind # "none"
      OBVIOUS
    <3>1. CASE SaveOpen(c)
      BY <3>1, <1>1, <1>t, <1>d, SavedOpen
    <3>2. CASE SaveWrite(c)
      <4>1. file[d].pid = cli[c].pid
        BY <1>l, <1>1, <2>1, <3>2 DEF LabelOK, LoadedOK, HoldsPid, SaveWrite
      <4>2. file' = Written(c) \/ file' = Closed(c)
        BY <3>2 DEF SaveWrite
      <4>3. d \in Inodes /\ file[d] \in Files
        BY <1>t DEF FsType
      <4>4. Written(c)[d].pid = file[d].pid /\ (file[d].kind # "none" => Written(c)[d].kind # "none")
        BY <4>1, <4>3 DEF Written
      <4>5. Closed(c)[d].pid = file[d].pid /\ Closed(c)[d].kind = file[d].kind
        BY <4>3 DEF Closed, Files
      <4> QED BY <4>2, <4>4, <4>5
    <3> QED BY <2>1, <3>1, <3>2, FileUntouched DEF CliStep, SharedStep
  <2> QED BY <1>o, <1>d, <1>t, <2>1, <2>2, <2>3, Fewer
<1>2. CASE i # cli[c].id
  <2>1. d # 0 => d # dir[cli[c].id] /\ d \in Inodes
    BY <1>2, <1>t DEF LifeInv, Dirs
  <2>2. d # 0 => file'[d] = file[d]
    BY <2>1, <1>l, Local
  <2>3. \A p \in Pids : LiveInit(p)' => \/ StillLives(p)
                                        \/ proc'[p].id = cli[c].id /\ proc'[p].root = dir[cli[c].id]
    <3> SUFFICES ASSUME NEW p \in Pids, LiveInit(p)', ~StillLives(p)
                 PROVE  proc'[p].id = cli[c].id /\ proc'[p].root = dir[cli[c].id]
      OBVIOUS
    <3>1. StartFork(c) /\ proc'[p] = NewInit(c)
      BY Lives
    <3>2. cli[c].fd = dir[cli[c].id]
      BY <3>1, <1>l DEF LabelOK, MakingOK, StartFork
    <3> QED BY <3>1, <3>2 DEF NewInit
  <2>4. NoneLives(i) => NoneLives(i)'
    BY <2>3, <1>2, <1>o DEF NoneLives, StillLives
  <2>5. d # 0 /\ NoneRooted(d) => NoneRooted(d)'
    BY <2>3, <2>1, <1>o, <1>d DEF NoneRooted, StillLives
  <2> QED BY <1>o, <1>d, <1>t, <2>2, <2>4, <2>5
<1> QED BY <1>1, <1>2

\* A directory that no create has made is made by its own create only.
LEMMA StaysUntouched ==
    ASSUME TypeOK, Opens, NEW c \in Clis, CliStep(c), NEW d \in Inodes, Untouched(d),
           cli[c].pc = "mkdir" => cli[c].num # d
    PROVE  Untouched(d)'
<1>t. CliType /\ FsType /\ cli[c].id \in Ids
  BY OneMoves DEF TypeOK, CliType, CliRecords, Busy
<1>1. file'[d] = file[d]
  BY <1>t, Local DEF Untouched
<1>2. \A i \in Ids : dir'[i] # d
  <2>1. CASE CreateMkdir(c)
    BY <2>1, <1>t DEF CreateMkdir, FsType, Untouched
  <2>2. CASE Rmdir(c)
    BY <2>2, <1>t DEF Rmdir, FsType, Untouched, Inodes
  <2> QED BY <2>1, <2>2, DirSteps DEF Untouched
<1> QED BY <1>1, <1>2 DEF Untouched

LEMMA OtherLabels ==
    ASSUME TypeOK, LifeInv, NEW c \in Clis, NEW o \in Clis, o # c, CliStep(c)
    PROVE  LabelOK(cli[o])'
<1>t. CliType /\ FsType
  BY DEF TypeOK
<1>l. LabelOK(cli[o]) /\ Roles /\ Alone /\ Dirs /\ Role(cli[o])
  BY DEF LifeInv, Roles
<1>o. cli'[o] = cli[o]
  BY <1>t, OneMoves, NowIs
<1>1. CASE ~Busy(o)
  BY <1>1, <1>o DEF Busy, LabelOK, EarlyOK, MakingOK, ForkedOK, LoadedOK, RemoveOK, Early,
     Making, SaveLabels, RemoveLabels, HoldsPid, Signalling
<1>2. CASE Busy(o)
  <2> DEFINE i == cli[o].id
             d == dir[i]
  <2>p. /\ i \in Ids /\ dir'[i] = d
        /\ d # 0 => /\ file'[d].pid = file[d].pid
                    /\ file[d].kind # "none" => file'[d].kind # "none"
                    /\ cli[o].cmd \in {"create", "delete"} => file'[d] = file[d]
                    /\ NoneRooted(d) => NoneRooted(d)'
        /\ NoneLives(i) => NoneLives(i)'
    BY <1>2, PathKept
  <2>1. EarlyOK(cli[o])'
    <3>1. ASSUME cli[o].pc \in Early
          PROVE  cli[o].num \in 1 .. creates /\ UNCHANGED creates /\ Untouched(cli[o].num)'
      <4>1. cli[o].num \in Inodes /\ cli[o].num \in 1 .. creates /\ Untouched(cli[o].num)
        BY <3>1, <1>l, <1>t DEF LabelOK, EarlyOK, TypeOK, CounterType, Inodes
      <4>2. cli[c].pc = "mkdir" => cli[c].num # cli[o].num
        BY <3>1, <1>l DEF Dirs, Early
      <4>3. \A n \in Inodes : n = cli[o].num => Untouched(n)'
        BY <4>1, <4>2, StaysUntouched DEF LifeInv
      <4>4. Untouched(cli[o].num)'
        BY <4>1, <4>3, <1>o DEF Untouched
      <4> QED BY <4>1, <4>4, OneMoves DEF counters
    <3> QED BY <3>1, <2>p, <1>o, <1>l DEF EarlyOK, LabelOK, Untouched
  <2>2. MakingOK(cli[o])'
    BY <2>p, <1>o, <1>l DEF MakingOK, LabelOK
  <2>3. ForkedOK(cli[o])'
    <3>1. cli[o].pc \in {"pidfile", "oom", "terminate"} => cli[o].cmd = "create"
      BY <1>l DEF Role, CreateLabels
    <3> QED BY <3>1, <2>p, <1>o, <1>l DEF ForkedOK, LabelOK
  <2>4. LoadedOK(cli[o])'
    BY <2>p, <1>o, <1>l DEF LoadedOK, LabelOK
  <2>5. RemoveOK(cli[o])'
    BY <2>p, <1>o, <1>l DEF RemoveOK, LabelOK
  <2> QED BY <2>1, <2>2, <2>3, <2>4, <2>5 DEF LabelOK
<1> QED BY <1>1, <1>2

---------------------------------------------------------------------------
(* What the command that moves knows.                                      *)

\* A living init process has its directory on its own path.
LEMMA AtHome ==
    ASSUME TypeOK, LifeInv, NEW p \in Pids, LiveInit(p)
    PROVE  /\ proc[p].id \in Ids /\ proc[p].root \in Inodes /\ proc[p].root # 0
           /\ dir[proc[p].id] = proc[p].root
           /\ Unsaved(p) \/ file[proc[p].root].pid = p
BY DEF LifeInv, Inits, TypeOK, ProcType, Procs, LiveInit, Inodes

\* Where no create is about to save, the living init process of an id is the
\* one on record.
LEMMA OnRecord ==
    ASSUME TypeOK, LifeInv, NEW c \in Clis, Busy(c),
           ~(cli[c].cmd = "create" /\ cli[c].pc \in SaveLabels),
           NEW p \in Pids, LiveInit(p), proc[p].id = cli[c].id
    PROVE  /\ dir[cli[c].id] = proc[p].root /\ proc[p].root # 0
           /\ file[dir[cli[c].id]].pid = p
<1>1. ~Unsaved(p)
  BY DEF Unsaved, LifeInv, Alone, Busy, SaveLabels
<1> QED BY <1>1, AtHome

LEMMA DeadThere ==
    ASSUME TypeOK, LifeInv, NEW i \in Ids, NoneRooted(dir[i])
    PROVE  NoneLives(i)
BY AtHome DEF NoneLives, NoneRooted

LEMMA DeadHere ==
    ASSUME TypeOK, LifeInv, NEW i \in Ids, dir[i] # 0, NoneLives(i)
    PROVE  NoneRooted(dir[i])
BY AtHome DEF NoneLives, NoneRooted, LifeInv, Dirs

\* Without a record there is no init process.
LEMMA NoRecordNoInit ==
    ASSUME TypeOK, LifeInv, NEW c \in Clis, Busy(c),
           ~(cli[c].cmd = "create" /\ cli[c].pc \in SaveLabels),
           dir[cli[c].id] = 0 \/ file[dir[cli[c].id]].kind = "none"
    PROVE  NoneLives(cli[c].id)
<1> SUFFICES ASSUME NEW p \in Pids, LiveInit(p), proc[p].id = cli[c].id
             PROVE  FALSE
  BY DEF NoneLives
<1>1. /\ dir[cli[c].id] # 0 /\ file[dir[cli[c].id]].pid = p
      /\ dir[cli[c].id] \in Inodes
  <2>1. /\ dir[cli[c].id] = proc[p].root /\ proc[p].root # 0
        /\ file[dir[cli[c].id]].pid = p
    BY OnRecord
  <2>2. proc[p].root \in Inodes
    BY <2>1, AtHome
  <2> QED BY <2>1, <2>2
<1>2. file[dir[cli[c].id]].pid = 0
  BY <1>1 DEF LifeInv, Records, NoFile
<1> QED BY <1>1, <1>2

\* When the process on record is gone, none is left.
LEMMA GoneFromRecord ==
    ASSUME TypeOK, LifeInv, NEW c \in Clis, Busy(c),
           ~(cli[c].cmd = "create" /\ cli[c].pc \in SaveLabels),
           dir[cli[c].id] # 0, ~LiveInit(file[dir[cli[c].id]].pid)
    PROVE  NoneLives(cli[c].id)
BY OnRecord DEF NoneLives

\* The labels at which nothing needs to be so, and those of destroy.
LEMMA FreeLabel ==
    ASSUME NEW c \in Clis,
           cli'[c].pc \in {"idle", "ok", "err", "undone", "rmfifo", "load"}
    PROVE  LabelOK(cli[c])'
BY DEF LabelOK, EarlyOK, MakingOK, ForkedOK, LoadedOK, RemoveOK, Early, Making, SaveLabels,
       RemoveLabels, HoldsPid, Signalling

LEMMA RemoveLabel ==
    ASSUME NEW c \in Clis, cli'[c].pc \in RemoveLabels, cli'[c].id = cli[c].id,
           NoneLives(cli[c].id), \A p \in Pids : LiveInit(p)' => StillLives(p)
    PROVE  LabelOK(cli[c])'
<1>1. NoneLives(cli[c].id)'
  BY Fewer DEF NoneLives, StillLives
<1> QED BY <1>1 DEF LabelOK, EarlyOK, MakingOK, ForkedOK, LoadedOK, RemoveOK, Early, Making,
       SaveLabels, RemoveLabels, HoldsPid, Signalling

LEMMA HoldLabel ==
    ASSUME NEW c \in Clis, cli'[c].pc \in HoldsPid, cli'[c].id = cli[c].id,
           cli'[c].cmd # "create", UNCHANGED dir, dir[cli[c].id] # 0,
           file'[dir[cli[c].id]].kind # "none",
           file'[dir[cli[c].id]].pid = cli'[c].pid,
           cli'[c].status = "stopped" => NoneRooted(dir[cli[c].id]),
           \A p \in Pids : LiveInit(p)' => StillLives(p)
    PROVE  LabelOK(cli[c])'
<1>1. cli'[c].status = "stopped" => NoneRooted(dir[cli[c].id])'
  BY Fewer DEF NoneRooted, StillLives
<1>2. LoadedOK(cli[c])'
  BY <1>1 DEF LoadedOK
<1>3. cli'[c].pc \notin Early \union RemoveLabels \union {"fork", "pidfile", "oom", "terminate", "mkdir"}
  BY DEF Early, HoldsPid, Signalling, RemoveLabels
<1> QED BY <1>2, <1>3 DEF LabelOK, EarlyOK, MakingOK, ForkedOK, RemoveOK, Early

LEMMA MakingLabel ==
    ASSUME NEW c \in Clis, cli'[c].pc \in {"mkfifo", "fs", "net", "io", "openroot", "fork"},
           cli'[c].id = cli[c].id, dir'[cli[c].id] # 0, file'[dir'[cli[c].id]] = NoFile,
           cli'[c].pc = "fork" => cli'[c].fd = dir'[cli[c].id]
    PROVE  LabelOK(cli[c])'
BY DEF LabelOK, EarlyOK, MakingOK, ForkedOK, LoadedOK, RemoveOK, Early, Making, SaveLabels,
       RemoveLabels, HoldsPid, Signalling

\* create makes its directory, under its own number, or fails.
LEMMA MkdirMakes ==
    ASSUME TypeOK, LifeInv, NEW c \in Clis, CreateMkdir(c)
    PROVE  /\ dir[cli[c].id] = 0 /\ file[cli[c].num] = NoFile /\ UNCHANGED file
           /\ cli[c].num \in 1 .. creates /\ cli[c].num # 0
           /\ \/ dir' = [dir EXCEPT ![cli[c].id] = cli[c].num] /\ Goto(c, "mkfifo")
              \/ UNCHANGED dir /\ Goto(c, "err")
<1>1. LabelOK(cli[c]) /\ creates \in Nat
  BY DEF LifeInv, TypeOK, CounterType
<1>2. dir[cli[c].id] = 0 /\ cli[c].num \in 1 .. creates /\ file[cli[c].num] = NoFile
  BY <1>1 DEF CreateMkdir, LabelOK, EarlyOK, Early, Untouched
<1> QED BY <1>1, <1>2 DEF CreateMkdir

\* create before its first save.
LEMMA MakingMoves ==
    ASSUME TypeOK, LifeInv, NEW c \in Clis,
           \/ CreateSpec(c) \/ CreateStat(c) \/ CreateMkdir(c) \/ CreateMkfifo(c)
           \/ CreateFs(c) \/ CreateNet(c) \/ SetupIO(c) \/ StartOpenRoot(c)
    PROVE  LabelOK(cli[c])'
<1>c. CliStep(c)
  BY DEF CliStep, CreateStep
<1>t. CliType /\ FsType /\ cli[c] \in CliRecords /\ cli[c].id \in Ids /\ Busy(c)
  BY <1>c, OneMoves DEF TypeOK, CliType, CliRecords, Busy
<1>l. LabelOK(cli[c]) /\ Role(cli[c])
  BY DEF LifeInv, Roles
<1>g. \A l : Goto(c, l) => cli'[c].pc = l /\ Same(cli'[c], cli[c])
  BY <1>t, NewGoto, NowIs, AtIs
<1>p. UNCHANGED proc
  BY DEF CreateSpec, CreateStat, CreateMkdir, CreateMkfifo, CreateFs, CreateNet, SetupIO,
         StartOpenRoot
<1>s. \A p \in Pids : LiveInit(p)' => StillLives(p)
  BY <1>p DEF LiveInit, StillLives
<1>1. CASE CreateSpec(c)
  <2>1. CASE Goto(c, "err")
    BY <2>1, <1>g, FreeLabel
  <2>2. CASE Goto(c, "stat")
    BY <1>1, <2>2, <1>g, <1>l
       DEF CreateSpec, fsVars, counters, LabelOK, EarlyOK, MakingOK, ForkedOK, LoadedOK,
           RemoveOK, Early, Making, SaveLabels, RemoveLabels, HoldsPid, Signalling, Same,
           Untouched
  <2> QED BY <1>1, <2>1, <2>2 DEF CreateSpec
<1>2. CASE CreateStat(c)
  <2>1. CASE Goto(c, "err")
    BY <2>1, <1>g, FreeLabel
  <2>2. CASE dir[cli[c].id] = 0 /\ Goto(c, "mkdir")
    BY <1>2, <2>2, <1>g, <1>l
       DEF CreateStat, fsVars, counters, LabelOK, EarlyOK, MakingOK, ForkedOK, LoadedOK,
           RemoveOK, Early, Making, SaveLabels, RemoveLabels, HoldsPid, Signalling, Same,
           Untouched
  <2> QED BY <1>2, <2>1, <2>2 DEF CreateStat
<1>3. CASE CreateMkdir(c)
  <2>1. CASE Goto(c, "err")
    BY <2>1, <1>g, FreeLabel
  <2>2. CASE Goto(c, "mkfifo") /\ dir' = [dir EXCEPT ![cli[c].id] = cli[c].num]
    <3>1. dir'[cli[c].id] = cli[c].num /\ cli[c].num # 0 /\ file'[cli[c].num] = NoFile
      BY <1>3, <2>2, <1>t, MkdirMakes DEF FsType
    <3> QED BY <1>3, <2>2, <3>1, <1>g, MakingLabel DEF CreateMkdir, Same
  <2> QED BY <1>3, <2>1, <2>2, MkdirMakes
<1>4. CASE ~(CreateSpec(c) \/ CreateStat(c) \/ CreateMkdir(c))
  <2>1. /\ cli[c].pc \in Making /\ cli[c].pc # "saveopen" /\ cli[c].cmd = "create"
        /\ UNCHANGED <<dir, file>>
    BY <1>4, <1>l DEF CreateMkfifo, CreateFs, CreateNet, SetupIO, StartOpenRoot, fsVars,
                      Making, Role, CreateLabels
  <2>2. dir[cli[c].id] # 0 /\ file[dir[cli[c].id]] = NoFile
    BY <2>1, <1>l DEF LabelOK, MakingOK
  <2>3. NoneLives(cli[c].id)
    BY <2>1, <2>2, <1>t, NoRecordNoInit DEF Making, SaveLabels, NoFile
  <2>4. ASSUME Goto(c, "destroy") PROVE LabelOK(cli[c])'
    BY <2>3, <2>4, <1>g, <1>s, RemoveLabel DEF RemoveLabels, Same
  <2>5. ASSUME Goto(c, "err") PROVE LabelOK(cli[c])'
    BY <2>5, <1>g, FreeLabel
  <2>6. ASSUME NEW l \in {"fs", "net", "io", "openroot"}, Goto(c, l) PROVE LabelOK(cli[c])'
    BY <2>1, <2>2, <2>6, <1>g, MakingLabel DEF Same
  <2>7. ASSUME Now(c, RootOpened(cli[c])) PROVE LabelOK(cli[c])'
    BY <2>1, <2>2, <2>7, <1>t, NowIs, RootOpenedIs, MakingLabel DEF Same
  <2>8. CASE StartOpenRoot(c)
    BY <2>8, <2>4, <2>7, <1>t, NewOpenRoot
  <2>9. CASE CreateMkfifo(c) \/ CreateFs(c) \/ CreateNet(c) \/ SetupIO(c)
    BY <2>9, <2>4, <2>5, <2>6 DEF CreateMkfifo, CreateFs, CreateNet, SetupIO
  <2> QED BY <1>4, <2>8, <2>9
<1> QED BY <1>1, <1>2, <1>3, <1>4

\* create from the fork on.
LEMMA ForkMoves ==
    ASSUME TypeOK, LifeInv, "starttime" \notin Faults, NEW c \in Clis,
           StartFork(c) \/ CreatePidFile(c) \/ AdjustOomScore(c) \/ Terminate(c)
    PROVE  LabelOK(cli[c])'
<1>c. CliStep(c)
  BY DEF CliStep, CreateStep
<1>t. CliType /\ FsType /\ cli[c] \in CliRecords /\ cli[c].id \in Ids /\ Busy(c)
  BY <1>c, OneMoves DEF TypeOK, CliType, CliRecords, Busy
<1>l. LabelOK(cli[c]) /\ Role(cli[c])
  BY DEF LifeInv, Roles
<1>g. \A l : Goto(c, l) => cli'[c].pc = l /\ Same(cli'[c], cli[c])
                           /\ cli'[c].child = cli[c].child
  BY <1>t, NewGoto, NowIs, AtIs
<1>1. CASE StartFork(c)
  <2>0. UNCHANGED <<dir, file>> /\ cli[c].pc = "fork"
    BY <1>1 DEF StartFork, fsVars
  <2>1. dir[cli[c].id] # 0 /\ file[dir[cli[c].id]] = NoFile /\ cli[c].cmd = "create"
    BY <2>0, <1>l DEF LabelOK, MakingOK, Making, Role, CreateLabels
  <2>2. CASE Goto(c, "destroy") /\ UNCHANGED proc
    <3>1. NoneLives(cli[c].id)
      BY <2>0, <2>1, <1>t, NoRecordNoInit DEF SaveLabels, NoFile
    <3>2. \A p \in Pids : LiveInit(p)' => StillLives(p)
      BY <2>2 DEF LiveInit, StillLives
    <3> QED BY <2>2, <3>1, <3>2, <1>g, RemoveLabel DEF RemoveLabels, Same
  <2>3. ASSUME NEW p \in Pids, cli' = [cli EXCEPT ![c] = Forked(cli[c], p, "saveopen")]
        PROVE  LabelOK(cli[c])'
    <3>1. /\ Same(cli'[c], cli[c]) /\ cli'[c].pc = "saveopen" /\ cli'[c].pid = p
          /\ cli'[c].child = p /\ cli'[c].status = "created"
      <4>1. Now(c, Forked(cli[c], p, "saveopen"))
        BY <2>3 DEF Now
      <4> QED BY <4>1, <1>t, NowIs, ForkedIs
    <3> QED BY <2>0, <2>1, <3>1
            DEF LabelOK, EarlyOK, MakingOK, ForkedOK, LoadedOK, RemoveOK, Early, Making,
                SaveLabels, RemoveLabels, Same
  <2> QED BY <1>1, <2>2, <2>3 DEF StartFork
<1>2. CASE CreatePidFile(c) \/ AdjustOomScore(c)
  <2>1. UNCHANGED <<dir, file>> /\ cli[c].pc \in {"pidfile", "oom"}
    BY <1>2 DEF CreatePidFile, AdjustOomScore, fsVars
  <2>2. ASSUME NEW l \in {"oom", "terminate"}, Goto(c, l) PROVE LabelOK(cli[c])'
    BY <2>1, <2>2, <1>g, <1>l
       DEF LabelOK, EarlyOK, MakingOK, ForkedOK, LoadedOK, RemoveOK, Early, Making,
           SaveLabels, RemoveLabels, HoldsPid, Signalling, Same
  <2>3. ASSUME Goto(c, "ok") PROVE LabelOK(cli[c])'
    BY <2>3, <1>g, FreeLabel
  <2> QED BY <1>2, <2>2, <2>3 DEF CreatePidFile, AdjustOomScore
<1>3. CASE Terminate(c)
  <2>1. /\ Same(cli'[c], cli[c]) /\ cli'[c].pc = "destroy"
    BY <1>3, <1>t, NewTerminate, NowIs, TerminatedIs
  <2>2. /\ cli[c].pc = "terminate" /\ file[dir[cli[c].id]].pid = cli[c].child
    BY <1>3, <1>l DEF Terminate, LabelOK, ForkedOK
  <2>3. \A p \in Pids : LiveInit(p)' => StillLives(p) /\ p # cli[c].child
    <3> SUFFICES ASSUME NEW p \in Pids, LiveInit(p)'
                 PROVE  StillLives(p) /\ p # cli[c].child
      OBVIOUS
    <3>1. StillLives(p)
      BY <1>3, <1>c, Lives DEF Terminate, StartFork
    <3>2. p # cli[c].child
      BY <1>3 DEF Terminate, TypeOK, ProcType, LiveInit, NoProc, InitStates
    <3> QED BY <3>1, <3>2
  <2>4. \A p \in Pids : LiveInit(p) /\ proc[p].id = cli[c].id => p = cli[c].child
    BY <2>2, <1>t, OnRecord DEF SaveLabels
  <2>5. NoneLives(cli[c].id)'
    BY <2>1, <2>3, <2>4 DEF NoneLives, StillLives, Same
  <2> QED BY <2>1, <2>5
          DEF LabelOK, EarlyOK, MakingOK, ForkedOK, LoadedOK, RemoveOK, Early, Making,
              SaveLabels, RemoveLabels, HoldsPid, Signalling
<1> QED BY <1>1, <1>2, <1>3

\* The process on record that does not exist is no living init.
LEMMA NobodyThere ==
    ASSUME TypeOK, LifeInv, NEW c \in Clis, Busy(c), cli[c].cmd # "create",
           cli[c].pc \in HoldsPid, ~Exists(cli[c].pid)
    PROVE  NoneLives(cli[c].id)
<1>1. dir[cli[c].id] # 0 /\ file[dir[cli[c].id]].pid = cli[c].pid
  BY DEF LifeInv, LabelOK, LoadedOK
<1>2. ~LiveInit(cli[c].pid)
  BY DEF Exists, LiveInit, InitStates
<1> QED BY <1>1, <1>2, GoneFromRecord

\* The commands that load a container.
LEMMA LoadMoves ==
    ASSUME TypeOK, LifeInv, PidKnown, NEW c \in Clis, LoadStep(c)
    PROVE  LabelOK(cli[c])'
<1>c. CliStep(c)
  BY DEF CliStep
<1>t. CliType /\ FsType /\ cli[c] \in CliRecords /\ cli[c].id \in Ids /\ Busy(c)
  BY <1>c, OneMoves DEF TypeOK, CliType, CliRecords, Busy
<1>l. LabelOK(cli[c]) /\ Role(cli[c])
  BY DEF LifeInv, Roles
<1>g. \A l : Goto(c, l) => /\ cli'[c].pc = l /\ Same(cli'[c], cli[c])
                           /\ cli'[c].pid = cli[c].pid /\ cli'[c].status = cli[c].status
  BY <1>t, NewGoto, NowIs, AtIs
<1>f. UNCHANGED <<dir, file>>
  BY DEF LoadStep, Load, Probe, ExecOpen, ExecRead, ExecRemove, Signal, SigKill, Poll, fsVars
<1>s. \A p \in Pids : LiveInit(p)' => StillLives(p)
  BY <1>c, <1>l, Lives DEF LoadStep, Load, Probe, ExecOpen, ExecRead, ExecRemove, Signal,
                           SigKill, Poll, StartFork
<1>k. cli[c].cmd # "create"
  BY <1>l DEF LoadStep, Load, Probe, ExecOpen, ExecRead, ExecRemove, Signal, SigKill, Poll,
              Role, LoadLabels
<1>e. ASSUME NEW l \in {"ok", "err"}, Goto(c, l) PROVE LabelOK(cli[c])'
  BY <1>e, <1>g, FreeLabel
<1>h. ASSUME cli[c].pc \in HoldsPid
      PROVE  /\ dir[cli[c].id] # 0
             /\ file[dir[cli[c].id]].kind # "none"
             /\ file[dir[cli[c].id]].pid = cli[c].pid
             /\ cli[c].status = "stopped" => NoneRooted(dir[cli[c].id])
  BY <1>h, <1>k, <1>l DEF LabelOK, LoadedOK
<1>m. ASSUME cli[c].pc \in HoldsPid, NEW l \in HoldsPid, Goto(c, l)
      PROVE  LabelOK(cli[c])'
  BY <1>m, <1>h, <1>g, <1>f, <1>s, <1>k, HoldLabel DEF Same
<1>d. ASSUME NoneLives(cli[c].id), Goto(c, "destroy")
      PROVE  LabelOK(cli[c])'
  BY <1>d, <1>g, <1>s, RemoveLabel DEF RemoveLabels, Same
<1>1. CASE Load(c)
  <2>1. CASE FileAt(cli[c].id).kind = "none" /\ Now(c, NotThere(cli[c]))
    <3>1. dir[cli[c].id] = 0 \/ file[dir[cli[c].id]].kind = "none"
      BY <2>1 DEF FileAt
    <3>2. NoneLives(cli[c].id)
      BY <3>1, <1>t, <1>k, NoRecordNoInit
    <3> QED BY <2>1, <3>2, <1>t, <1>s, NowIs, NotThereIs, RemoveLabel DEF RemoveLabels, Same
  <2>2. CASE FileAt(cli[c].id).kind = "ok" /\ Now(c, Loaded(cli[c]))
    <3> DEFINE d == dir[cli[c].id]
    <3>1. d # 0 /\ d \in Inodes /\ FileAt(cli[c].id) = file[d] /\ file[d].kind = "ok"
      BY <2>2, <1>t DEF FileAt, NoFile, FsType
    <3>2. file[d].pid # 0
      BY <3>1 DEF PidKnown
    <3>3. file[d].status = "stopped" => NoneRooted(d)
      BY <3>1, <3>2 DEF LifeInv, Records
    <3>4. /\ Same(cli'[c], cli[c]) /\ cli'[c].pc = AfterLoad(cli[c].cmd)
          /\ cli'[c].pid = file[d].pid /\ cli'[c].status = file[d].status
      BY <2>2, <3>1, <1>t, NowIs, LoadedIs
    <3>5. cli'[c].pc \in HoldsPid
      BY <3>4 DEF AfterLoad, HoldsPid, Signalling
    <3> HIDE DEF d
    <3> QED BY <3>1, <3>3, <3>4, <3>5, <1>f, <1>s, <1>k, HoldLabel DEF Same, d
  <2> QED BY <1>1, <2>1, <2>2, <1>e, <1>t, NewLoad
<1>2. CASE Probe(c)
  <2>1. cli[c].pc \in HoldsPid
    BY <1>2 DEF Probe, HoldsPid, Signalling
  <2>2. ASSUME NEW l \in AfterStatus(cli[c], cli[c].status), Goto(c, l)
        PROVE  LabelOK(cli[c])'
    <3>1. CASE l \in HoldsPid \union {"ok", "err"}
      BY <2>1, <2>2, <3>1, <1>m, <1>e
    <3>2. CASE l = "destroy"
      <4>1. cli[c].status = "stopped"
        BY <2>2, <3>2 DEF AfterStatus, StartSwitch, StateSwitch, DeleteSwitch
      <4>2. NoneLives(cli[c].id)
        BY <4>1, <2>1, <1>h, <1>t, DeadThere
      <4> QED BY <4>2, <2>2, <3>2, <1>d
    <3>3. l \in HoldsPid \union {"ok", "err", "destroy"}
      BY <2>2 DEF AfterStatus, StartSwitch, StateSwitch, DeleteSwitch, HoldsPid, Signalling
    <3> QED BY <3>1, <3>2, <3>3
  <2>3. ASSUME ~Exists(cli[c].pid), NEW l, Now(c, FoundDead(cli[c], l))
        PROVE  LabelOK(cli[c])'
    <3>1. NoneRooted(dir[cli[c].id])
      BY <2>1, <2>3, <1>t, <1>k, <1>h, NobodyThere, DeadHere
    <3>2. /\ Same(cli'[c], cli[c]) /\ cli'[c].pc = "saveopen" /\ cli'[c].pid = cli[c].pid
      BY <2>3, <1>t, NowIs, FoundDeadIs
    <3>3. cli'[c].pc \in HoldsPid
      BY <3>2 DEF HoldsPid
    <3> QED BY <2>1, <3>1, <3>2, <3>3, <1>h, <1>f, <1>s, <1>k, HoldLabel DEF Same
  <2> QED BY <1>2, <2>2, <2>3, <1>t, NewProbe
<1>3. CASE ExecOpen(c)
  <2>1. ASSUME NEW l \in {"blocked", "read"}, Now(c, AtFifo(cli[c], l))
        PROVE  LabelOK(cli[c])'
    <3>1. /\ Same(cli'[c], cli[c]) /\ cli'[c].pc = l /\ cli'[c].pid = cli[c].pid
          /\ cli'[c].status = cli[c].status
      BY <2>1, <1>t, NowIs, AtFifoIs
    <3>2. cli[c].pc \in HoldsPid /\ l \in HoldsPid
      BY <1>3 DEF ExecOpen, HoldsPid
    <3> QED BY <3>1, <3>2, <1>h, <1>f, <1>s, <1>k, HoldLabel DEF Same
  <2> QED BY <1>3, <2>1, <1>e, <1>t, NewExecOpen
<1>4. CASE ExecRead(c)
  <2>1. ASSUME Now(c, Started(cli[c]))
        PROVE  LabelOK(cli[c])'
    <3>1. /\ Same(cli'[c], cli[c]) /\ cli'[c].pc = "saveopen" /\ cli'[c].pid = cli[c].pid
          /\ cli'[c].status = "running"
      BY <2>1, <1>t, NowIs, StartedIs
    <3>2. cli[c].pc \in HoldsPid /\ cli'[c].pc \in HoldsPid
      BY <1>4, <3>1 DEF ExecRead, HoldsPid
    <3> QED BY <3>1, <3>2, <1>h, <1>f, <1>s, <1>k, HoldLabel DEF Same
  <2> QED BY <1>4, <2>1, <1>e DEF ExecRead, Now
<1>5. CASE ExecRemove(c) \/ Signal(c)
  BY <1>5, <1>e DEF ExecRemove, Signal
<1>6. CASE SigKill(c)
  BY <1>6, <1>m DEF SigKill, HoldsPid, Signalling
<1>7. CASE Poll(c)
  <2>1. cli[c].pc \in HoldsPid
    BY <1>7 DEF Poll, HoldsPid, Signalling
  <2>2. ~Exists(cli[c].pid) => NoneLives(cli[c].id)
    BY <2>1, <1>t, <1>k, NobodyThere
  <2> QED BY <1>7, <2>2, <1>d, <1>e DEF Poll
<1> QED BY <1>1, <1>2, <1>3, <1>4, <1>5, <1>6, <1>7 DEF LoadStep

\* create still has the file open that it is about to write.
LEMMA CreateHolds ==
    ASSUME TypeOK, LifeInv, NEW c \in Clis, cli[c].cmd = "create", cli[c].pc = "savewrite"
    PROVE  /\ dir[cli[c].id] \in Inodes /\ dir[cli[c].id] # 0
           /\ c \in file[dir[cli[c].id]].open
           /\ file[dir[cli[c].id]].pid = 0
<1> DEFINE d == dir[cli[c].id]
<1>t. /\ cli[c].id \in Ids /\ Busy(c)
      /\ d \in Inodes \union {0}
      /\ \A o \in Clis : Busy(o) => cli[o].id \in Ids
  BY DEF TypeOK, CliType, CliRecords, Busy, FsType
<1>1. d # 0 /\ file[d].pid = 0 /\ file[d].open # {}
  BY DEF LifeInv, LabelOK, ForkedOK
<1>2. PICK o \in file[d].open : TRUE
  BY <1>1
<1>3. o \in Clis /\ d \in Inodes
  BY <1>1, <1>2, <1>t DEF TypeOK, FsType, Files
<1>4. cli[o].pc = "savewrite" /\ dir[cli[o].id] = d
  BY <1>2, <1>3 DEF LifeInv, Opens
<1>5. Busy(o)
  BY <1>4 DEF Busy
<1>6. cli[o].id = cli[c].id
  BY <1>1, <1>4, <1>5, <1>t, <1>3 DEF LifeInv, Dirs
<1>7. o = c
  BY <1>5, <1>6, <1>3, <1>t DEF LifeInv, Alone
<1> QED BY <1>1, <1>2, <1>3, <1>7

\* What it leaves in the directory when it is done.
LEMMA SavedWrite ==
    ASSUME TypeOK, Opens, "save" \notin Faults, NEW c \in Clis, SaveWrite(c), NEW d \in Inodes
    PROVE  \/ /\ c \in file[d].open /\ d = dir[cli[c].id]
              /\ file'[d].kind = "ok" /\ file'[d].pid = cli[c].pid
              /\ file'[d].status = cli[c].status
           \/ c \notin file[d].open /\ file'[d] = file[d]
<1>1. file' = Written(c)
  BY DEF SaveWrite
<1>2. c \in file[d].open => d = dir[cli[c].id]
  BY DEF Opens
<1> QED BY <1>1, <1>2 DEF Written

LEMMA SaveMoves ==
    ASSUME TypeOK, LifeInv, "save" \notin Faults, NEW c \in Clis, SaveOpen(c) \/ SaveWrite(c)
    PROVE  LabelOK(cli[c])'
<1>c. CliStep(c)
  BY DEF CliStep, SharedStep
<1>t. CliType /\ FsType /\ cli[c] \in CliRecords /\ cli[c].id \in Ids /\ Busy(c)
  BY <1>c, OneMoves DEF TypeOK, CliType, CliRecords, Busy
<1>l. LabelOK(cli[c]) /\ Role(cli[c])
  BY DEF LifeInv, Roles
<1>g. \A l : Goto(c, l) => /\ cli'[c].pc = l /\ Same(cli'[c], cli[c])
                           /\ cli'[c].pid = cli[c].pid /\ cli'[c].status = cli[c].status
                           /\ cli'[c].child = cli[c].child
  BY <1>t, NewGoto, NowIs, AtIs
<1>f. UNCHANGED <<dir, proc>> /\ cli[c].pc \in SaveLabels /\ cli[c].pc \in HoldsPid
  BY DEF SaveOpen, SaveWrite, SaveLabels, HoldsPid
<1>s. \A p \in Pids : LiveInit(p)' => StillLives(p)
  BY <1>f DEF LiveInit, StillLives
<1> DEFINE d == dir[cli[c].id]
<1>0. d # 0 /\ d \in Inodes
  BY <1>f, <1>l, <1>t DEF LabelOK, LoadedOK, MakingOK, ForkedOK, Making, SaveLabels, FsType
<1>h. cli[c].cmd # "create" =>
             /\ file[d].kind # "none"
             /\ file[d].pid = cli[c].pid
             /\ cli[c].status = "stopped" => NoneRooted(d)
  BY <1>f, <1>l DEF LabelOK, LoadedOK
<1>1. CASE SaveOpen(c)
  <2>1. /\ Goto(c, "savewrite")
        /\ file'[d].kind = "torn" /\ file'[d].pid = file[d].pid /\ c \in file'[d].open
    BY <1>1, <1>0, <1>t, SavedOpen
  <2>2. cli'[c].pc = "savewrite" /\ cli'[c].pc \in HoldsPid
    BY <2>1, <1>g DEF HoldsPid
  <2>3. CASE cli[c].cmd # "create"
    BY <2>1, <2>2, <2>3, <1>0, <1>h, <1>g, <1>f, <1>s, HoldLabel DEF Same
  <2>4. CASE cli[c].cmd = "create"
    <3>1. /\ file[d] = NoFile
          /\ cli[c].pid = cli[c].child /\ cli[c].status = "created"
      BY <1>1, <2>4, <1>l, <1>f DEF SaveOpen, LabelOK, MakingOK, ForkedOK, Making
    <3> HIDE DEF d
    <3>2. ForkedOK(cli[c])'
      BY <2>1, <2>2, <3>1, <1>0, <1>g, <1>f DEF ForkedOK, Same, d, NoFile
    <3> QED BY <2>1, <2>2, <2>4, <3>2, <1>g
            DEF LabelOK, EarlyOK, MakingOK, LoadedOK, RemoveOK, Early, Making,
                RemoveLabels, Same
  <2> QED BY <2>3, <2>4
<1>2. CASE SaveWrite(c)
  <2>1. Goto(c, cli[c].ret) /\ SaveRole(cli[c])
    BY <1>2, <1>l, <1>f DEF SaveWrite, Role
  <2>2. CASE cli[c].cmd = "create"
    <3>1. file'[d].pid = cli[c].pid
      BY <1>2, <2>2, <1>0, CreateHolds, SavedWrite DEF SaveWrite, LifeInv
    <3>2. cli'[c].pc = "pidfile" /\ cli[c].pid = cli[c].child
      BY <2>1, <2>2, <1>g, <1>l, <1>f DEF SaveRole, LabelOK, ForkedOK
    <3> QED BY <2>1, <3>1, <3>2, <1>g, <1>0, <1>f
            DEF LabelOK, EarlyOK, MakingOK, LoadedOK, RemoveOK, ForkedOK, Early, Making,
                RemoveLabels, SaveLabels, HoldsPid, Signalling, Same
  <2>3. CASE cli[c].cmd # "create"
    <3>1. file'[d].pid = cli[c].pid /\ file'[d].kind # "none"
      BY <1>2, <2>3, <1>0, <1>h, SavedWrite DEF LifeInv
    <3>2. CASE cli[c].ret \in {"rmfifo", "err", "ok"}
      BY <3>2, <2>1, <1>g, FreeLabel
    <3>3. CASE cli[c].ret = "reprobe"
      <4>1. cli'[c].pc \in HoldsPid
        BY <3>3, <2>1, <1>g DEF HoldsPid, Signalling
      <4> QED BY <4>1, <2>1, <2>3, <3>1, <1>0, <1>h, <1>g, <1>f, <1>s, HoldLabel DEF Same
    <3>4. CASE cli[c].ret = "destroy"
      <4>1. NoneLives(cli[c].id)
        BY <3>4, <2>1, <2>3, <1>h, <1>t, DeadThere DEF SaveRole
      <4> QED BY <3>4, <4>1, <2>1, <1>g, <1>s, RemoveLabel DEF RemoveLabels, Same
    <3> QED BY <2>1, <2>3, <3>2, <3>3, <3>4 DEF SaveRole
  <2> QED BY <2>2, <2>3
<1> QED BY <1>1, <1>2

\* destroy, and the end.
LEMMA DestroyMoves ==
    ASSUME TypeOK, LifeInv, PidKnown, NEW c \in Clis,
           \/ Destroy(c) \/ Rmdir(c) \/ NetworkDestroy(c) \/ Exit(c)
           \/ \E kept \in SUBSET {"file", "fifo", "iso"} : RemoveEntries(c, kept)
    PROVE  LabelOK(cli[c])'
<1>c. CliStep(c)
  BY DEF CliStep, SharedStep
<1>t. CliType /\ cli[c] \in CliRecords
  BY DEF TypeOK, CliType
<1>g. \A l : Goto(c, l) => cli'[c].pc = l /\ Same(cli'[c], cli[c])
  BY <1>t, NewGoto, NowIs, AtIs
<1>f. UNCHANGED proc
  BY DEF Destroy, Rmdir, NetworkDestroy, Exit, RemoveEntries
<1>s. \A p \in Pids : LiveInit(p)' => StillLives(p)
  BY <1>f DEF LiveInit, StillLives
<1>1. CASE Exit(c)
  BY <1>1, <1>t, FreeLabel DEF Exit, CliType, IdleCli
<1>2. CASE ~Exit(c)
  <2>1. cli[c].pc \in RemoveLabels
    BY <1>2 DEF Destroy, Rmdir, NetworkDestroy, RemoveEntries, RemoveLabels
  <2>2. NoneLives(cli[c].id)
    BY <2>1 DEF LifeInv, LabelOK, RemoveOK
  <2>3. ASSUME NEW l \in RemoveLabels, Goto(c, l) PROVE LabelOK(cli[c])'
    BY <2>3, <2>2, <1>g, <1>s, RemoveLabel DEF Same
  <2>4. ASSUME NEW l \in {"ok", "err", "undone"}, Goto(c, l) PROVE LabelOK(cli[c])'
    BY <2>4, <1>g, FreeLabel
  <2>5. CASE Destroy(c)
    BY <2>5, <2>2, <1>t, <1>s, NewDestroy, NowIs, DestroyingIs, RemoveLabel
       DEF RemoveLabels, Same
  <2>6. CASE cli[c].pc \in {"rm", "rmdir"}
    <3>1. cli[c].ret \in {"netdestroy", "err"}
      BY <2>6 DEF PidKnown, PidOK
    <3>2. AfterRmFailure(cli[c]) \in {"ok", "err", "undone"}
      BY <3>1 DEF AfterRmFailure, AfterDestroy
    <3>3. cli[c].ret \in RemoveLabels \union {"err"} /\ "rmdir" \in RemoveLabels
      BY <3>1 DEF RemoveLabels
    <3> QED BY <1>2, <2>6, <3>2, <3>3, <2>3, <2>4
            DEF Destroy, Rmdir, NetworkDestroy, RemoveEntries
  <2>7. CASE NetworkDestroy(c)
    BY <2>7, <2>4 DEF NetworkDestroy, AfterDestroy
  <2> QED BY <1>2, <2>5, <2>6, <2>7 DEF Rmdir, RemoveEntries
<1> QED BY <1>1, <1>2

---------------------------------------------------------------------------
(* The records and the init processes after a step of a command.           *)

\* Nothing is rooted in a directory that gets no new init process.
LEMMA RootedStep ==
    ASSUME TypeOK, LifeInv, NEW c \in Clis, CliStep(c), NEW d \in Inodes, NoneRooted(d),
           StartFork(c) => d # dir[cli[c].id]
    PROVE  NoneRooted(d)'
<1> SUFFICES ASSUME NEW p \in Pids, LiveInit(p)', proc'[p].root = d
             PROVE  FALSE
  BY DEF NoneRooted
<1>1. CASE StillLives(p)
  BY <1>1 DEF NoneRooted, StillLives
<1>2. CASE StartFork(c) /\ proc'[p] = NewInit(c)
  <2>1. cli[c].fd = dir[cli[c].id]
    BY <1>2 DEF LifeInv, LabelOK, MakingOK, StartFork
  <2> QED BY <1>2, <2>1 DEF NewInit
<1> QED BY <1>1, <1>2, Lives

\* What a step does to the record of a directory: nothing, it is truncated
\* or written by a save, or removed.
LEMMA FileSteps ==
    ASSUME TypeOK, Opens, "save" \notin Faults, NEW c \in Clis, CliStep(c), NEW d \in Inodes
    PROVE  \/ file'[d] = file[d]
           \/ /\ cli[c].pc = "saveopen" /\ d = dir[cli[c].id] /\ file'[d].kind = "torn"
              /\ file'[d].pid = file[d].pid /\ file'[d].status = file[d].status
           \/ /\ cli[c].pc = "savewrite" /\ d = dir[cli[c].id] /\ c \in file[d].open
              /\ file'[d].kind = "ok"
              /\ file'[d].pid = cli[c].pid /\ file'[d].status = cli[c].status
           \/ cli[c].pc = "rm" /\ d = dir[cli[c].id] /\ file'[d] = NoFile
<1>t. CliType /\ FsType /\ cli[c].id \in Ids
  BY OneMoves DEF TypeOK, CliType, CliRecords, Busy
<1>1. CASE SaveOpen(c)
  <2>1. CASE dir[cli[c].id] = 0
    BY <1>1, <2>1 DEF SaveOpen
  <2>2. CASE dir[cli[c].id] # 0
    BY <1>1, <2>2, <1>t, SavedOpen DEF SaveOpen
  <2> QED BY <2>1, <2>2
<1>2. CASE SaveWrite(c)
  BY <1>2, SavedWrite DEF SaveWrite
<1>3. ASSUME NEW kept \in SUBSET {"file", "fifo", "iso"}, RemoveEntries(c, kept),
             file'[d] # file[d]
      PROVE  cli[c].pc = "rm" /\ d = dir[cli[c].id] /\ file'[d] = NoFile
  BY <1>3, <1>t DEF RemoveEntries, FsType
<1> QED BY <1>1, <1>2, <1>3, FileUntouched DEF CliStep, SharedStep

LEMMA RecordsStep ==
    ASSUME TypeOK, LifeInv, "save" \notin Faults, NEW c \in Clis, CliStep(c)
    PROVE  Records'
<1> SUFFICES ASSUME NEW d \in Inodes
             PROVE  /\ file'[d].kind = "none" => file'[d] = NoFile
                    /\ file'[d].pid # 0 /\ file'[d].status = "stopped" => NoneRooted(d)'
  BY DEF Records
<1>t. cli[c].id \in Ids /\ d # 0
  BY OneMoves DEF TypeOK, CliType, CliRecords, Busy, Inodes
<1>l. LabelOK(cli[c])
  BY DEF LifeInv
<1>r. /\ file[d].kind = "none" => file[d] = NoFile
      /\ file[d].pid # 0 /\ file[d].status = "stopped" => NoneRooted(d)
  BY DEF LifeInv, Records
<1>n. StartFork(c) /\ d = dir[cli[c].id] => file[d] = NoFile /\ UNCHANGED file
  BY <1>l, <1>t DEF StartFork, LabelOK, MakingOK, Making, fsVars, LifeInv, Roles, Role, CreateLabels
<1>1. NoneRooted(d) /\ (StartFork(c) => d # dir[cli[c].id]) => NoneRooted(d)'
  BY RootedStep
<1>2. CASE file'[d] = file[d]
  BY <1>2, <1>1, <1>r, <1>n DEF NoFile
<1>3. CASE /\ cli[c].pc = "saveopen" /\ file'[d].kind = "torn"
           /\ file'[d].pid = file[d].pid /\ file'[d].status = file[d].status
  BY <1>3, <1>1, <1>r DEF StartFork
<1>4. CASE /\ cli[c].pc = "savewrite" /\ d = dir[cli[c].id]
           /\ file'[d].kind = "ok" /\ file'[d].status = cli[c].status
  <2>1. cli[c].cmd # "create" /\ cli[c].status = "stopped" => NoneRooted(d)
    BY <1>4, <1>l DEF LabelOK, LoadedOK, HoldsPid
  <2>2. cli[c].cmd = "create" => cli[c].status = "created"
    BY <1>4, <1>l DEF LabelOK, ForkedOK, SaveLabels
  <2> QED BY <1>4, <1>1, <2>1, <2>2 DEF StartFork
<1>5. CASE file'[d] = NoFile
  BY <1>5 DEF NoFile
<1> QED BY <1>2, <1>3, <1>4, <1>5, FileSteps DEF LifeInv

\* The path of a living init process stays, and so does the record that
\* names it.
LEMMA HomeKept ==
    ASSUME TypeOK, LifeInv, "save" \notin Faults, NEW c \in Clis, CliStep(c),
           NEW p \in Pids, StillLives(p)
    PROVE  /\ dir'[proc[p].id] = dir[proc[p].id]
           /\ file[proc[p].root].pid = p => file'[proc[p].root].pid = p
<1> DEFINE i == proc[p].id
           d == proc[p].root
<1>h. /\ i \in Ids /\ d \in Inodes /\ d # 0 /\ dir[i] = d
  BY AtHome DEF StillLives
<1>t. FsType /\ cli[c].id \in Ids
  BY OneMoves DEF TypeOK, CliType, CliRecords, Busy
<1>l. LabelOK(cli[c])
  BY DEF LifeInv
<1>i. cli[c].pc \in RemoveLabels => cli[c].id # i
  BY <1>l DEF LabelOK, RemoveOK, NoneLives, StillLives
<1>1. dir'[i] = dir[i]
  <2>1. CASE CreateMkdir(c)
    <3>1. dir[cli[c].id] = 0
      BY <2>1, <1>l DEF CreateMkdir, LabelOK, EarlyOK
    <3> QED BY <2>1, <3>1, <1>h, <1>t DEF CreateMkdir, FsType
  <2>2. CASE Rmdir(c)
    BY <2>2, <1>i, <1>h, <1>t DEF Rmdir, RemoveLabels, FsType
  <2> QED BY <2>1, <2>2, DirSteps
<1>2. ASSUME file[d].pid = p
      PROVE  file'[d].pid = p
  <2>1. d = dir[cli[c].id] => cli[c].id = i
    BY <1>h, <1>t DEF LifeInv, Dirs
  <2>2. CASE cli[c].pc = "savewrite" /\ d = dir[cli[c].id]
    <3>1. cli[c].cmd # "create"
      BY <2>2, <1>2, <1>h, CreateHolds
    <3>2. file[d].pid = cli[c].pid
      BY <2>2, <3>1, <1>l DEF LabelOK, LoadedOK, HoldsPid
    <3> QED BY <2>2, <3>2, <1>2, <1>h, FileSteps DEF LifeInv
  <2>3. CASE ~(cli[c].pc = "savewrite" /\ d = dir[cli[c].id])
    <3>1. ~(cli[c].pc = "rm" /\ d = dir[cli[c].id])
      BY <2>1, <1>i DEF RemoveLabels
    <3> QED BY <2>3, <3>1, <1>2, <1>h, FileSteps DEF LifeInv
  <2> QED BY <2>2, <2>3
<1> QED BY <1>1, <1>2

LEMMA InitsStep ==
    ASSUME TypeOK, LifeInv, "save" \notin Faults, "starttime" \notin Faults,
           NEW c \in Clis, CliStep(c)
    PROVE  Inits'
<1> SUFFICES ASSUME NEW p \in Pids, LiveInit(p)'
             PROVE  /\ proc'[p].id \in Ids
                    /\ dir'[proc'[p].id] = proc'[p].root
                    /\ Unsaved(p)' \/ file'[proc'[p].root].pid = p
  BY DEF Inits
<1>t. CliType /\ cli[c] \in CliRecords /\ cli[c].id \in Ids
  BY OneMoves DEF TypeOK, CliType, CliRecords, Busy
<1>l. LabelOK(cli[c])
  BY DEF LifeInv
<1>1. CASE StillLives(p)
  <2>1. /\ proc'[p].id = proc[p].id /\ proc'[p].root = proc[p].root
        /\ proc[p].id \in Ids /\ dir[proc[p].id] = proc[p].root
        /\ proc[p].root \in Inodes /\ proc[p].root # 0
        /\ Unsaved(p) \/ file[proc[p].root].pid = p
    BY <1>1, AtHome DEF StillLives
  <2>2. ASSUME Unsaved(p)
        PROVE  Unsaved(p)' \/ file'[proc[p].root].pid = p
    <3>1. PICK o \in Clis : /\ cli[o].cmd = "create" /\ cli[o].pc \in SaveLabels
                            /\ cli[o].id = proc[p].id /\ cli[o].child = p
      BY <2>2 DEF Unsaved
    <3>2. CASE o # c
      <4>1. cli'[o] = cli[o]
        BY <3>2, <1>t, OneMoves, NowIs
      <4> QED BY <3>1, <4>1, <2>1 DEF Unsaved
    <3>3. CASE o = c /\ cli[c].pc = "saveopen"
      <4>1. dir[cli[c].id] # 0
        BY <3>1, <3>3, <2>1
      <4>2. Goto(c, "savewrite")
        BY <3>3, <4>1, <1>t, OnlyStep, SavedOpen
      <4>3. Same(cli'[c], cli[c]) /\ cli'[c].pc = "savewrite" /\ cli'[c].child = cli[c].child
        BY <4>2, <1>t, NewGoto, NowIs, AtIs
      <4> QED BY <3>1, <3>3, <4>3, <2>1 DEF Unsaved, Same, SaveLabels
    <3>4. CASE o = c /\ cli[c].pc = "savewrite"
      <4>1. c \in file[proc[p].root].open
        BY <3>1, <3>4, <2>1, CreateHolds
      <4>2. file'[proc[p].root].pid = cli[c].pid
        BY <3>4, <4>1, <2>1, OnlyStep, SavedWrite DEF LifeInv
      <4>3. cli[c].pid = cli[c].child
        BY <3>1, <3>4, <1>l DEF LabelOK, ForkedOK
      <4> QED BY <3>1, <3>4, <4>2, <4>3
    <3> QED BY <3>1, <3>2, <3>3, <3>4 DEF SaveLabels
  <2> QED BY <1>1, <2>1, <2>2, HomeKept
<1>2. CASE StartFork(c) /\ proc'[p] = NewInit(c) /\ \E l : cli' = [cli EXCEPT ![c] = Forked(cli[c], p, l)]
  <2>1. UNCHANGED dir /\ cli[c].pc = "fork" /\ cli[c].fd = dir[cli[c].id]
        /\ cli[c].cmd = "create"
    BY <1>2, <1>l DEF StartFork, fsVars, LabelOK, MakingOK, LifeInv, Roles, Role, CreateLabels
  <2>2. PICK l : Now(c, Forked(cli[c], p, l))
    BY <1>2 DEF Now
  <2>3. /\ Same(cli'[c], cli[c]) /\ cli'[c].pc = l /\ cli'[c].child = p
    BY <2>2, <1>t, NowIs, ForkedIs
  <2>4. l = "saveopen"
    <3>1. CASE Goto(c, "destroy") /\ UNCHANGED proc
      <4>1. file[dir[cli[c].id]].kind = "none"
        BY <2>1, <1>l DEF LabelOK, MakingOK, Making, NoFile
      <4>2. NoneLives(cli[c].id)
        BY <2>1, <4>1, NoRecordNoInit DEF SaveLabels, Busy
      <4> QED BY <1>2, <3>1, <4>2 DEF LiveInit, NewInit, NoneLives
    <3>2. ASSUME NEW q, cli' = [cli EXCEPT ![c] = Forked(cli[c], q, "saveopen")]
          PROVE  cli'[c].pc = "saveopen"
      <4>1. Now(c, Forked(cli[c], q, "saveopen"))
        BY <3>2 DEF Now
      <4> QED BY <4>1, <1>t, NowIs, ForkedIs
    <3> QED BY <1>2, <2>3, <3>1, <3>2 DEF StartFork
  <2> QED BY <1>2, <2>1, <2>3, <2>4, <1>t DEF Unsaved, NewInit, SaveLabels, Same
<1> QED BY <1>1, <1>2, Lives

---------------------------------------------------------------------------
(* Callers and processes.                                                  *)

LEMMA InvokeLife ==
    ASSUME TypeOK, LifeInv, NEW c \in Clis, NEW m \in Commands, NEW i \in Ids, Invoke(c, m, i)
    PROVE  /\ \A o \in Clis : LabelOK(cli[o])'
           /\ Records' /\ Inits'
<1>t. CliType /\ creates \in Nat
  BY DEF TypeOK, CounterType
<1>1. /\ UNCHANGED <<dir, file, proc>> /\ creates' \in {creates, creates + 1}
      /\ \A o \in Clis : o # c => cli'[o] = cli[o]
      /\ cli[c].pc = "idle"
  BY <1>t DEF Invoke, CliType, fsVars
<1>2. \/ cli'[c].pc = "load"
      \/ /\ cli'[c].pc = "spec" /\ cli'[c].num = creates + 1
         /\ creates' = creates + 1 /\ creates' \in Inodes
  BY <1>t DEF Invoke, CliType, IdleCli, Inodes
<1>3. ASSUME NEW o \in Clis
      PROVE  LabelOK(cli[o])'
  <2>1. CASE o # c
    <3>1. LabelOK(cli[o]) /\ cli'[o] = cli[o]
      BY <1>1, <2>1 DEF LifeInv
    <3>2. cli[o].num \in 1 .. creates => cli[o].num \in 1 .. creates'
      BY <1>1, <1>t
    <3> QED BY <3>1, <3>2, <1>1
            DEF LabelOK, EarlyOK, MakingOK, LoadedOK, RemoveOK, ForkedOK, Untouched,
                NoneRooted, NoneLives, LiveInit
  <2>2. CASE o = c /\ cli'[c].pc = "load"
    BY <2>2, FreeLabel
  <2>3. CASE o = c /\ cli'[c].pc = "spec" /\ cli'[c].num = creates + 1
             /\ creates' = creates + 1 /\ creates' \in Inodes
    <3>1. Untouched(creates + 1)
      BY <2>3, <1>t DEF LifeInv, Dirs
    <3>2. creates + 1 \in 1 .. creates'
      BY <2>3, <1>t
    <3> QED BY <2>3, <3>1, <3>2, <1>1
            DEF LabelOK, EarlyOK, MakingOK, LoadedOK, RemoveOK, ForkedOK, Early, Making,
                RemoveLabels, SaveLabels, HoldsPid, Signalling, Untouched
  <2> QED BY <1>2, <2>1, <2>2, <2>3
<1>4. Records'
  BY <1>1 DEF LifeInv, Records, NoneRooted, LiveInit
<1>5. Inits'
  <2>1. \A p \in Pids : Unsaved(p) => Unsaved(p)'
    BY <1>1 DEF Unsaved, SaveLabels
  <2> QED BY <1>1, <2>1 DEF LifeInv, Inits, LiveInit
<1> QED BY <1>3, <1>4, <1>5

LEMMA ProcLife ==
    ASSUME TypeOK, LifeInv, NEW q \in Pids, ProcStep(q)
    PROVE  /\ \A o \in Clis : LabelOK(cli[o])'
           /\ Records' /\ Inits'
<1>t. CliType
  BY DEF TypeOK
<1>1. /\ UNCHANGED <<dir, file, creates>>
      /\ UNCHANGED cli \/ \E f : cli' = Woken(f)
  BY ProcFrame
<1>2. /\ \A p \in Pids : LiveInit(p)' => StillLives(p)
      /\ \A i : NoneLives(i) => NoneLives(i)'
      /\ \A d : NoneRooted(d) => NoneRooted(d)'
  BY ProcLives, Fewer
<1>3. \A o \in Clis : \/ cli'[o] = cli[o]
                      \/ /\ cli[o].pc = "blocked" /\ cli'[o].pc = "read"
                         /\ Same(cli'[o], cli[o]) /\ cli'[o].pid = cli[o].pid
                         /\ cli'[o].status = cli[o].status
  BY <1>1, <1>t DEF Woken, CliType, CliRecords, Same
<1>4. ASSUME NEW o \in Clis
      PROVE  LabelOK(cli[o])'
  <2>l. LabelOK(cli[o]) /\ Role(cli[o])
    BY DEF LifeInv, Roles
  <2>1. CASE cli'[o] = cli[o]
    <3>1. NoneLives(cli[o].id) => NoneLives(cli[o].id)'
      BY <2>1, <1>2 DEF NoneLives, StillLives
    <3>2. NoneRooted(dir[cli[o].id]) => NoneRooted(dir[cli[o].id])'
      BY <2>1, <1>1, <1>2 DEF NoneRooted, StillLives
    <3> QED BY <2>l, <2>1, <3>1, <3>2, <1>1
            DEF LabelOK, EarlyOK, MakingOK, LoadedOK, RemoveOK, ForkedOK, Untouched
  <2>2. CASE /\ cli[o].pc = "blocked" /\ cli'[o].pc = "read"
             /\ Same(cli'[o], cli[o]) /\ cli'[o].pid = cli[o].pid
             /\ cli'[o].status = cli[o].status
    <3>1. cli[o].pc \in HoldsPid /\ cli'[o].pc \in HoldsPid /\ cli[o].cmd # "create"
      BY <2>2, <2>l DEF HoldsPid, Role
    <3>2. /\ dir[cli[o].id] # 0
          /\ file[dir[cli[o].id]].kind # "none"
          /\ file[dir[cli[o].id]].pid = cli[o].pid
          /\ cli[o].status = "stopped" => NoneRooted(dir[cli[o].id])
      BY <3>1, <2>l DEF LabelOK, LoadedOK
    <3> QED BY <2>2, <3>1, <3>2, <1>1, <1>2, HoldLabel DEF Same
  <2> QED BY <2>1, <2>2, <1>3
<1>5. Records'
  BY <1>1, <1>2 DEF LifeInv, Records
<1>6. Inits'
  <2>1. ASSUME NEW p \in Pids, Unsaved(p), StillLives(p)
        PROVE  Unsaved(p)'
    <3>1. PICK o \in Clis : /\ cli[o].cmd = "create" /\ cli[o].pc \in SaveLabels
                            /\ cli[o].id = proc[p].id /\ cli[o].child = p
      BY <2>1 DEF Unsaved
    <3>2. cli'[o] = cli[o]
      BY <3>1, <1>3 DEF SaveLabels
    <3> QED BY <2>1, <3>1, <3>2 DEF Unsaved, StillLives
  <2> QED BY <1>1, <1>2, <2>1 DEF LifeInv, Inits, StillLives
<1> QED BY <1>4, <1>5, <1>6

---------------------------------------------------------------------------
(* The inductive invariant and what follows from it.                       *)

LEMMA LifeInit == Init => LifeInv
<1> SUFFICES ASSUME Init PROVE LifeInv
  OBVIOUS
<1>1. \A c \in Clis : cli[c] = IdleCli
  BY DEF Init
<1>2. \A d \in Inodes : file[d] = NoFile
  BY DEF Init
<1>3. \A p \in Pids : ~LiveInit(p)
  BY DEF Init, NoProc, LiveInit, InitStates
<1>4. Roles
  BY <1>1 DEF Roles, Role, IdleCli, SaveLabels, RemoveLabels, CreateLabels, LoadLabels
<1>5. Alone
  BY <1>1 DEF Alone, Busy, IdleCli
<1>6. Dirs
  <2>1. \A i \in Ids : dir[i] = 0
    BY DEF Init
  <2>2. \A d \in Inodes : Untouched(d)
    BY <2>1, <1>2 DEF Untouched, Inodes
  <2> QED BY <2>1, <2>2, <1>1 DEF Dirs, IdleCli, Early
<1>7. Opens
  BY <1>2 DEF Opens, NoFile
<1>8. \A c \in Clis : LabelOK(cli[c])
  BY <1>1 DEF LabelOK, EarlyOK, MakingOK, LoadedOK, RemoveOK, ForkedOK, Early, Making,
              RemoveLabels, SaveLabels, HoldsPid, Signalling, IdleCli
<1>9. Records
  BY <1>2, <1>3 DEF Records, NoFile, NoneRooted
<1>10. Inits
  BY <1>3 DEF Inits
<1> QED BY <1>4, <1>5, <1>6, <1>7, <1>8, <1>9, <1>10 DEF LifeInv

LEMMA LifeNext ==
    ASSUME Careful, TypeOK, PidKnown, LifeInv, Next
    PROVE  LifeInv'
<1> USE DEF Careful
<1>c. \A c \in Clis : ~Crash(c)
  BY DEF Crash, TypeOK, CounterType
<1>s. \/ \E c \in Clis : \/ CliStep(c)
                         \/ \E m \in Commands, i \in Ids : Invoke(c, m, i)
      \/ \E q \in Pids : ProcStep(q)
  BY <1>c DEF Next
<1>l. /\ Roles /\ Alone /\ Dirs /\ Opens
      /\ \A c \in Clis : LabelOK(cli[c]) /\ EarlyOK(cli[c])
  BY DEF LifeInv, LabelOK
<1>1. Roles'
  BY <1>s, <1>l, CreateRoles, LoadRoles, SharedRoles, OtherRoles DEF CliStep
<1>2. Alone' /\ Opens'
  BY <1>s, <1>l, AloneStep, OpensStep
<1>3. Dirs'
  BY <1>s, <1>l, DirsStep DEF EarlyOK
<1>4. ASSUME NEW c \in Clis, CliStep(c)
      PROVE  /\ \A o \in Clis : LabelOK(cli[o])'
             /\ Records' /\ Inits'
  <2>1. LabelOK(cli[c])'
    BY <1>4, MakingMoves, ForkMoves, LoadMoves, SaveMoves, DestroyMoves
       DEF CliStep, CreateStep, SharedStep
  <2> QED BY <1>4, <2>1, OtherLabels, RecordsStep, InitsStep
<1>5. /\ \A o \in Clis : LabelOK(cli[o])'
      /\ Records' /\ Inits'
  BY <1>s, <1>4, InvokeLife, ProcLife
<1> QED BY <1>1, <1>2, <1>3, <1>5 DEF LifeInv

\* With callers that run create and delete of an id alone and let every
\* command finish, the record of a container, the path to it and its init
\* process stay together at every label of every command, however start,
\* state and kill overlap (container_nabla.go:226-310, 376-402).
THEOREM LifeGoesWell == ASSUME Careful PROVE Spec => []LifeInv
<1>1. TypeOK /\ PidKnown /\ LifeInv /\ [Next]_vars => LifeInv'
  <2> SUFFICES ASSUME TypeOK, PidKnown, LifeInv, [Next]_vars PROVE LifeInv'
    OBVIOUS
  <2>1. CASE UNCHANGED vars
    <3>1. UNCHANGED <<dir, file, proc, cli, creates>>
      BY <2>1 DEF vars, fsVars, counters
    <3>2. Roles' /\ Alone' /\ Dirs' /\ Opens'
      BY <3>1 DEF LifeInv, Roles, Role, SaveRole, Alone, Busy, Dirs, Untouched, Opens
    <3>3. Records' /\ Inits'
      BY <3>1 DEF LifeInv, NoneRooted, LiveInit, Records, Inits, Unsaved
    <3>4. ASSUME NEW c \in Clis PROVE LabelOK(cli[c])'
      <4>1. LabelOK(cli[c])
        BY DEF LifeInv
      <4> QED BY <4>1, <3>1 DEF LabelOK, EarlyOK, MakingOK, LoadedOK, RemoveOK, ForkedOK,
                 Untouched, NoneRooted, NoneLives, LiveInit
    <3> QED BY <3>2, <3>3, <3>4 DEF LifeInv
  <2> QED BY <2>1, LifeNext
<1> QED BY <1>1, LifeInit, TypeCorrect, PidsKnown, PTL DEF Spec

\* A state.json that says Stopped never speaks of a directory with a living
\* init process, although start, state and delete write back what they
\* loaded long before (container_nabla.go:265, 376-380): whoever writes
\* Stopped still has the pid that is on record, and has found it dead.
THEOREM StoppedIsDead == ASSUME Careful PROVE Spec => []StoppedMeansDead
<1>1. LifeInv /\ PidKnown => StoppedMeansDead
  BY DEF LifeInv, Records, NoneRooted, PidKnown, StoppedMeansDead
<1> QED BY <1>1, LifeGoesWell, PidsKnown, PTL

\* A living init process is named by the record at its container's path,
\* unless the create that forked it is still busy
\* (container_nabla.go:226-247, delete.go:57-94).
THEOREM InitsAreFound == ASSUME Careful PROVE Spec => []NoOrphanInit
<1>1. LifeInv /\ TypeOK => NoOrphanInit
  <2> SUFFICES ASSUME LifeInv, TypeOK, NEW p \in Pids, LiveInit(p),
                      ~\E c \in Clis : cli[c].child = p
               PROVE  /\ dir[proc[p].id] = proc[p].root
                      /\ file[proc[p].root].kind # "none"
                      /\ file[proc[p].root].pid = p
    BY DEF NoOrphanInit
  <2>1. /\ proc[p].root \in Inodes /\ dir[proc[p].id] = proc[p].root
        /\ file[proc[p].root].pid = p
    BY AtHome DEF Unsaved
  <2> QED BY <2>1 DEF LifeInv, Records, NoFile
<1> QED BY <1>1, LifeGoesWell, TypeCorrect, PTL

---------------------------------------------------------------------------
(* What is left of a container that is removed.                            *)

Removal(c) == \/ Rmdir(c) \/ NetworkDestroy(c)
              \/ \E kept \in SUBSET {"file", "fifo", "iso"} : RemoveEntries(c, kept)

\* A command comes to the last labels of destroy through destroy only.
LEMMA RemovalMoves ==
    ASSUME TypeOK, LifeInv, NEW c \in Clis, CliStep(c),
           \/ cli'[c].pc \in {"rmdir", "netdestroy", "undone"}
           \/ cli'[c].pc = "ok" /\ cli[c].cmd = "delete"
    PROVE  Removal(c)
<1>t. CliType /\ cli[c] \in CliRecords /\ Role(cli[c])
  BY DEF TypeOK, CliType, LifeInv, Roles
<1>n. \A r : Now(c, r) => cli'[c] = r
  BY <1>t, NowIs
<1>g. \A l : Goto(c, l) => cli'[c].pc = l
  BY <1>t, <1>n, NewGoto, AtIs
<1>1. CASE CreateSpec(c) \/ CreateStat(c) \/ CreateMkdir(c) \/ CreateMkfifo(c) \/ CreateFs(c)
           \/ CreateNet(c) \/ SetupIO(c)
  BY <1>1, <1>g DEF CreateSpec, CreateStat, CreateMkdir, CreateMkfifo, CreateFs,
                    CreateNet, SetupIO
<1>2. CASE CreatePidFile(c) \/ AdjustOomScore(c)
  BY <1>2, <1>g, <1>t DEF CreatePidFile, AdjustOomScore, Role, CreateLabels
<1>3. CASE StartOpenRoot(c) \/ Terminate(c)
  BY <1>3, <1>g, <1>n, <1>t, NewOpenRoot, RootOpenedIs, NewTerminate, TerminatedIs
<1>4. CASE StartFork(c)
  BY <1>4, <1>g, <1>n, <1>t, ForkedIs DEF StartFork, Now
<1>5. CASE Load(c)
  BY <1>5, <1>g, <1>n, <1>t, NewLoad, NotThereIs, LoadedIs DEF AfterLoad
<1>6. CASE Probe(c)
  <2>1. ASSUME NEW l \in AfterStatus(cli[c], cli[c].status), Goto(c, l) PROVE FALSE
    BY <2>1, <1>6, <1>g, <1>t DEF AfterStatus, StartSwitch, StateSwitch, DeleteSwitch, Probe
  <2> QED BY <1>6, <2>1, <1>n, <1>t, NewProbe, FoundDeadIs
<1>7. CASE ExecOpen(c)
  BY <1>7, <1>g, <1>n, <1>t, NewExecOpen, AtFifoIs
<1>8. CASE ExecRead(c) \/ Exit(c)
  BY <1>8, <1>g, <1>n, <1>t, StartedIs DEF ExecRead, Exit, IdleCli, Now
<1>9. CASE ExecRemove(c) \/ Signal(c) \/ SigKill(c) \/ Poll(c)
  BY <1>9, <1>g, <1>t DEF ExecRemove, Signal, SigKill, Poll, Role
<1>10. CASE Destroy(c)
  BY <1>10, <1>n, <1>t, NewDestroy, DestroyingIs
<1>11. CASE SaveOpen(c) \/ SaveWrite(c)
  BY <1>11, <1>g, <1>t DEF SaveOpen, SaveWrite, Role, SaveRole, SaveLabels
<1>12. CASE SharedStep(c) /\ ~Destroy(c) /\ ~SaveOpen(c) /\ ~SaveWrite(c)
  BY <1>12 DEF SharedStep, Removal
<1> QED BY <1>1, <1>2, <1>3, <1>4, <1>5, <1>6, <1>7, <1>8, <1>9, <1>10, <1>11, <1>12
        DEF CliStep, CreateStep, LoadStep

\* The fifo and the ISO of another directory stay.
LEMMA LocalEntries ==
    ASSUME TypeOK, NEW c \in Clis, CliStep(c), NEW d \in Inodes, d # dir[cli[c].id]
    PROVE  fifo'[d] = fifo[d] /\ (d \in iso' <=> d \in iso)
<1>t. FsType
  BY DEF TypeOK
<1>1. CASE CreateMkfifo(c)
  BY <1>1, <1>t DEF CreateMkfifo, FsType
<1>2. CASE CreateFs(c)
  BY <1>2, <1>t DEF CreateFs, FsType
<1>3. CASE ExecRemove(c)
  BY <1>3, <1>t DEF ExecRemove, FsType
<1>4. ASSUME NEW kept \in SUBSET {"file", "fifo", "iso"}, RemoveEntries(c, kept)
      PROVE  fifo'[d] = fifo[d] /\ (d \in iso' <=> d \in iso)
  BY <1>4, <1>t DEF RemoveEntries, FsType
<1>5. CASE CreateStep(c) /\ ~CreateMkfifo(c) /\ ~CreateFs(c)
  BY <1>5 DEF CreateStep, CreateSpec, CreateStat, CreateMkdir, CreateNet, SetupIO,
              StartOpenRoot, StartFork, CreatePidFile, AdjustOomScore, Terminate, fsVars
<1>6. CASE LoadStep(c) /\ ~ExecRemove(c)
  BY <1>6 DEF LoadStep, Load, Probe, ExecOpen, ExecRead, Signal, SigKill, Poll, fsVars
<1>7. CASE SaveOpen(c) \/ SaveWrite(c) \/ Destroy(c) \/ Rmdir(c) \/ NetworkDestroy(c) \/ Exit(c)
  BY <1>7 DEF SaveOpen, SaveWrite, Destroy, Rmdir, NetworkDestroy, Exit, fsVars
<1> QED BY <1>1, <1>2, <1>3, <1>4, <1>5, <1>6, <1>7 DEF CliStep, SharedStep

LEMMA LocalTaps ==
    ASSUME TypeOK, CleanHost, NEW c \in Clis, CliStep(c), NEW i \in Ids, i # cli[c].id
    PROVE  TapOf[i] \in taps' <=> TapOf[i] \in taps
<1>1. cli[c].id \in Ids
  BY OneMoves DEF TypeOK, CliType, CliRecords, Busy
<1>2. TapOf[i] # TapOf[cli[c].id]
  BY <1>1 DEF CleanHost
<1> QED BY <1>2, TapSteps DEF CreateNet, NetworkDestroy

\* Who removes a container, or has removed it, is alone there.
LEMMA OthersClean ==
    ASSUME TypeOK, LifeInv, CleanHost, CleanInv, NEW c \in Clis, NEW o \in Clis, o # c, CliStep(c)
    PROVE  RemovedOK(cli[o])' /\ GoneOK(cli[o])'
<1>l. Role(cli[o]) /\ Alone /\ Roles /\ Dirs /\ Opens
  BY DEF LifeInv, Roles
<1>t. CliType /\ FsType
  BY DEF TypeOK
<1>o. cli'[o] = cli[o]
  BY <1>t, OneMoves, NowIs
<1>1. CASE ~(cli[o].pc \in {"rmdir", "netdestroy", "undone"} \/ (cli[o].pc = "ok" /\ cli[o].cmd = "delete"))
  BY <1>1, <1>o DEF RemovedOK, GoneOK
<1>2. CASE cli[o].pc \in {"rmdir", "netdestroy", "undone"} \/ (cli[o].pc = "ok" /\ cli[o].cmd = "delete")
  <2> DEFINE i == cli[o].id
             d == dir[i]
  <2>1. Busy(o) /\ cli[o].cmd \in {"create", "delete"}
    BY <1>2, <1>l DEF Busy, Role, RemoveLabels
  <2>2. i # cli[c].id /\ i \in Ids /\ cli[c].id \in Ids
    BY <2>1, <1>l, <1>t, Apart, OneMoves DEF CliType, CliRecords, Busy
  <2>3. /\ dir'[i] = d /\ (NoneLives(i) => NoneLives(i)')
        /\ d # 0 => file'[d] = file[d]
    BY <2>1, PathKept
  <2>4. d # 0 => d \in Inodes /\ d # dir[cli[c].id]
    BY <2>2, <1>l, <1>t DEF Dirs, FsType
  <2>5. d # 0 /\ Entries(d) = {} => Entries(d)' = {}
    BY <2>3, <2>4, LocalEntries, <1>o DEF Entries
  <2>6. TapOf[i] \in taps' <=> TapOf[i] \in taps
    BY <2>2, LocalTaps
  <2>7. RemovedOK(cli[o]) /\ GoneOK(cli[o])
    BY DEF CleanInv
  <2>8. RemovedOK(cli[o])'
    BY <2>3, <2>5, <2>7, <1>o DEF RemovedOK, Entries
  <2>9. GoneOK(cli[o])'
    BY <2>3, <2>6, <2>7, <1>o DEF GoneOK
  <2> QED BY <2>8, <2>9
<1> QED BY <1>1, <1>2

LEMMA RemovedClean ==
    ASSUME TypeOK, LifeInv, PidKnown, CleanHost, CleanInv, NEW c \in Clis, CliStep(c)
    PROVE  RemovedOK(cli[c])' /\ GoneOK(cli[c])'
<1>t. CliType /\ FsType /\ cli[c] \in CliRecords /\ cli[c].id \in Ids
  BY OneMoves DEF TypeOK, CliType, CliRecords, Busy
<1>l. LabelOK(cli[c]) /\ Role(cli[c]) /\ RemovedOK(cli[c])
  BY DEF LifeInv, Roles, CleanInv
<1>g. \A l : Goto(c, l) => cli'[c].pc = l /\ Same(cli'[c], cli[c])
  BY <1>t, NewGoto, NowIs, AtIs
<1> DEFINE i == cli[c].id
           d == dir[i]
<1>1. CASE ~Removal(c)
  <2>1. cli'[c].pc \notin {"rmdir", "netdestroy", "undone"}
    BY <1>1, RemovalMoves
  <2>2. cli'[c].pc = "ok" => cli'[c].cmd # "delete"
    <3>1. PICK r : Now(c, r) /\ (r = IdleCli \/ Same(r, cli[c]))
      BY OneMoves
    <3>2. cli'[c] = r
      BY <3>1, <1>t, NowIs
    <3> QED BY <1>1, <3>1, <3>2, RemovalMoves DEF IdleCli, Same
  <2> QED BY <2>1, <2>2 DEF RemovedOK, GoneOK
<1>r. cli[c].pc \in {"rm", "rmdir"} => cli[c].ret \in {"netdestroy", "err"}
  BY DEF PidKnown, PidOK
<1>2. ASSUME NEW kept \in SUBSET {"file", "fifo", "iso"}, RemoveEntries(c, kept)
      PROVE  RemovedOK(cli[c])' /\ GoneOK(cli[c])'
  <2>1. kept = {} /\ UNCHANGED dir
    BY <1>2 DEF RemoveEntries, CleanHost
  <2>2. CASE d = 0
    <3>1. Goto(c, cli[c].ret) /\ cli[c].ret \in {"netdestroy", "err"}
      BY <1>2, <2>2, <1>r DEF RemoveEntries
    <3>2. cli'[c].pc \in {"netdestroy", "err"} /\ cli'[c].id = i
      BY <3>1, <1>g DEF Same
    <3> QED BY <3>2, <2>1, <2>2 DEF RemovedOK, GoneOK
  <2>3. CASE d # 0
    <3>1. d \in Inodes
      BY <2>3, <1>t DEF FsType
    <3>2. Goto(c, "rmdir") /\ file' = [file EXCEPT ![d] = NoFile]
          /\ fifo' = [fifo EXCEPT ![d] = 0] /\ iso' = iso \ {d}
      BY <1>2, <2>1, <2>3 DEF RemoveEntries
    <3>3. file'[d].kind = "none" /\ fifo'[d] = 0 /\ d \notin iso'
      BY <3>1, <3>2, <1>t DEF FsType, NoFile
    <3>4. cli'[c].pc = "rmdir" /\ dir'[cli'[c].id] = d
      BY <3>2, <2>1, <1>g DEF Same
    <3> HIDE DEF d
    <3>5. Entries(dir[cli[c].id])' = {}
      BY <3>3, <3>4 DEF Entries
    <3> QED BY <3>4, <3>5 DEF RemovedOK, GoneOK
  <2> QED BY <2>2, <2>3
<1>3. CASE Rmdir(c)
  <2>1. cli[c].pc = "rmdir"
    BY <1>3 DEF Rmdir
  <2>2. dir' = [dir EXCEPT ![i] = 0] /\ Goto(c, cli[c].ret)
    BY <1>3, <2>1, <1>l DEF Rmdir, RemovedOK
  <2>3. dir'[i] = 0
    BY <2>2, <1>t DEF FsType
  <2> QED BY <2>1, <2>2, <2>3, <1>r, <1>g DEF RemovedOK, GoneOK, Same
<1>4. CASE NetworkDestroy(c)
  <2>1. /\ cli[c].pc = "netdestroy" /\ UNCHANGED <<dir, proc>>
        /\ taps' = taps \ {TapOf[i]} /\ Goto(c, AfterDestroy(cli[c]))
    BY <1>4 DEF NetworkDestroy, CleanHost, fsVars
  <2>2. d = 0 /\ NoneLives(i)
    BY <2>1, <1>l DEF RemovedOK, LabelOK, RemoveOK, RemoveLabels
  <2>3. NoneLives(cli[c].id)'
    BY <2>1, <2>2, <1>g DEF NoneLives, LiveInit, Same
  <2> QED BY <2>1, <2>2, <2>3, <1>g DEF RemovedOK, GoneOK, Same, AfterDestroy
<1> QED BY <1>1, <1>2, <1>3, <1>4 DEF Removal

\* Callers and processes.
LEMMA QuietClean ==
    ASSUME TypeOK, CleanInv,
           \/ \E c \in Clis, m \in Commands, i \in Ids : Invoke(c, m, i)
           \/ \E q \in Pids : ProcStep(q)
    PROVE  CleanInv'
<1>t. CliType
  BY DEF TypeOK
<1>1. /\ UNCHANGED <<dir, file, fifo, iso, taps>>
      /\ \A p \in Pids : LiveInit(p)' => StillLives(p)
  <2>1. ASSUME NEW c \in Clis, NEW m \in Commands, NEW i \in Ids, Invoke(c, m, i)
        PROVE  UNCHANGED <<dir, file, fifo, iso, taps, proc>>
    BY <2>1 DEF Invoke, fsVars
  <2>2. UNCHANGED proc => \A p \in Pids : LiveInit(p)' => StillLives(p)
    BY DEF LiveInit, StillLives
  <2> QED BY <2>1, <2>2, ProcFrame, ProcLives
<1>2. \A o \in Clis : \/ cli'[o] = cli[o]
                      \/ cli'[o].pc \in {"spec", "load", "read"}
  <2>1. ASSUME NEW c \in Clis, NEW m \in Commands, NEW i \in Ids, Invoke(c, m, i), NEW o \in Clis
        PROVE  cli'[o] = cli[o] \/ cli'[o].pc \in {"spec", "load"}
    BY <2>1, <1>t DEF Invoke, CliType, IdleCli
  <2>2. ASSUME NEW q \in Pids, ProcStep(q), NEW o \in Clis
        PROVE  cli'[o] = cli[o] \/ cli'[o].pc = "read"
    <3>1. UNCHANGED cli \/ \E f : cli' = Woken(f)
      BY <2>2, ProcFrame
    <3> QED BY <3>1, <1>t DEF Woken, CliType, CliRecords
  <2> QED BY <2>1, <2>2
<1>3. ASSUME NEW o \in Clis
      PROVE  RemovedOK(cli[o])' /\ GoneOK(cli[o])'
  <2>1. CASE cli'[o] = cli[o]
    <3>1. RemovedOK(cli[o]) /\ GoneOK(cli[o])
      BY DEF CleanInv
    <3>2. NoneLives(cli[o].id) => NoneLives(cli[o].id)'
      BY <2>1, <1>1 DEF NoneLives, StillLives
    <3>3. Entries(dir[cli[o].id]) = {} => Entries(dir[cli[o].id])' = {}
      BY <2>1, <1>1 DEF Entries
    <3> QED BY <2>1, <3>1, <3>2, <3>3, <1>1 DEF RemovedOK, GoneOK
  <2>2. CASE cli'[o].pc \in {"spec", "load", "read"}
    BY <2>2 DEF RemovedOK, GoneOK
  <2> QED BY <2>1, <2>2, <1>2
<1> QED BY <1>3 DEF CleanInv

LEMMA CleanStays == ASSUME Careful, CleanHost PROVE Spec => []CleanInv
<1>1. Init => CleanInv
  BY DEF Init, CleanInv, RemovedOK, GoneOK, IdleCli
<1>2. TypeOK /\ PidKnown /\ LifeInv /\ CleanInv /\ [Next]_vars => CleanInv'
  <2> SUFFICES ASSUME TypeOK, PidKnown, LifeInv, CleanInv, [Next]_vars PROVE CleanInv'
    OBVIOUS
  <2>1. CASE UNCHANGED vars
    <3>1. UNCHANGED <<dir, file, fifo, iso, taps, proc, cli>>
      BY <2>1 DEF vars, fsVars
    <3> QED BY <3>1 DEF CleanInv, RemovedOK, GoneOK, Entries, NoneLives, LiveInit
  <2>2. \A c \in Clis : ~Crash(c)
    BY DEF Crash, TypeOK, CounterType, Careful
  <2>3. ASSUME NEW c \in Clis, CliStep(c)
        PROVE  CleanInv'
    BY <2>3, OthersClean, RemovedClean DEF CleanInv
  <2> QED BY <2>1, <2>2, <2>3, QuietClean DEF Next
<1> QED BY <1>1, <1>2, LifeGoesWell, TypeCorrect, PidsKnown, PTL DEF Spec

\* When delete reports success nothing of the container is left, neither its
\* directory nor its TAP device nor a living init process (delete.go:49-94,
\* container_nabla.go:272-310), if what is removed can be removed and no other
\* id is cut to the same device name.
THEOREM DeleteLeavesNothing ==
    ASSUME Careful, CleanHost PROVE Spec => []DeletedClean
<1>1. CleanInv => DeletedClean
  BY DEF CleanInv, GoneOK, NoneLives, DeletedClean
<1> QED BY <1>1, CleanStays, PTL

\* A create that fails after the factory has made the container takes all of
\* it away again (util_runner.go:41-94), under the same conditions.
THEOREM FailedCreateLeavesNothing ==
    ASSUME Careful, CleanHost PROVE Spec => []UndoneClean
<1>1. CleanInv => UndoneClean
  BY DEF CleanInv, GoneOK, NoneLives, UndoneClean
<1> QED BY <1>1, CleanStays, PTL

---------------------------------------------------------------------------
(* What the next create finds.                                             *)

LEMMA FifoHomeStep ==
    ASSUME TypeOK, LifeInv, CleanInv, FifoHome, NEW c \in Clis, CliStep(c)
    PROVE  FifoHome'
<1> SUFFICES ASSUME NEW d \in Inodes, fifo'[d] # 0
             PROVE  \E i \in Ids : dir'[i] = d
  BY DEF FifoHome
<1>t. FsType /\ cli[c].id \in Ids
  BY OneMoves DEF TypeOK, CliType, CliRecords, Busy
<1>1. CASE dir[cli[c].id] = d /\ UNCHANGED dir
  BY <1>1, <1>t
<1>2. CASE dir[cli[c].id] = d /\ Rmdir(c)
  <2>1. d # 0
    BY DEF Inodes
  <2>2. Entries(d) = {}
    BY <1>2, <2>1 DEF CleanInv, RemovedOK, Rmdir
  <2>3. fifo[d] = 0
    BY <2>2 DEF Entries
  <2> QED BY <1>2, <2>3 DEF Rmdir
<1>3. CASE dir[cli[c].id] # d
  <2>1. fifo[d] # 0
    BY <1>3, LocalEntries
  <2>2. PICK i \in Ids : dir[i] = d
    BY <2>1 DEF FifoHome
  <2>3. i # cli[c].id
    BY <1>3, <2>2
  <2> QED BY <2>2, <2>3, Local DEF LifeInv
<1>4. CASE dir[cli[c].id] = d /\ CreateMkdir(c)
  BY <1>4 DEF CreateMkdir, LifeInv, LabelOK, EarlyOK, Inodes
<1> QED BY <1>1, <1>2, <1>3, <1>4, DirSteps

LEMMA TapHomeStep ==
    ASSUME TypeOK, LifeInv, PidKnown, CleanHost, CleanInv, TapHome, NEW c \in Clis, FreshOK(cli[c]),
           CliStep(c)
    PROVE  TapHome'
<1> SUFFICES ASSUME NEW i \in Ids, TapOf[i] \in taps', dir'[i] = 0
             PROVE  \E o \in Clis : cli'[o].id = i /\ cli'[o].pc = "netdestroy"
  BY DEF TapHome
<1>t. CliType /\ FsType /\ cli[c].id \in Ids /\ cli[c] \in CliRecords
  BY OneMoves DEF TypeOK, CliType, CliRecords, Busy
<1>o. \A o \in Clis : o # c => cli'[o] = cli[o]
  BY <1>t, OneMoves, NowIs
<1>g. \A l : Goto(c, l) => cli'[c].pc = l /\ Same(cli'[c], cli[c])
  BY <1>t, NewGoto, NowIs, AtIs
<1>1. CASE CreateNet(c) /\ i = cli[c].id
  BY <1>1 DEF CreateNet, LifeInv, LabelOK, MakingOK, Making, fsVars, Roles, Role, CreateLabels
<1>2. CASE ~(CreateNet(c) /\ i = cli[c].id)
  <2>1. TapOf[i] \in taps
    BY <1>2, LocalTaps, TapSteps DEF CreateNet, NetworkDestroy
  <2>2. CASE dir[i] # 0
    <3>1. Rmdir(c) /\ cli[c].id = i
      BY <2>2, <1>t, DirSteps DEF CreateMkdir, Rmdir, FsType
    <3>2. /\ cli[c].pc = "rmdir" /\ cli[c].cmd \in {"create", "delete"}
          /\ cli[c].ret = "netdestroy" \/ (cli[c].cmd = "delete" /\ cli[c].ret = "err")
      BY <3>1 DEF Rmdir, LifeInv, Roles, Role, RemoveLabels
    <3>3. cli[c].ret = "netdestroy"
      BY <2>2, <3>1, <3>2 DEF FreshOK
    <3>4. Goto(c, "netdestroy")
      BY <2>2, <3>1, <3>2, <3>3 DEF Rmdir, CleanInv, RemovedOK
    <3> QED BY <3>1, <3>4, <1>g DEF Same
  <2>3. ASSUME NEW o \in Clis, cli[o].id = i, cli[o].pc = "netdestroy"
        PROVE  o # c
    BY <2>3, OnlyStep DEF NetworkDestroy, CleanHost
  <2> QED BY <2>1, <2>2, <2>3, <1>o DEF TapHome
<1> QED BY <1>1, <1>2

\* create keeps to the directory until it has a record, or removes it.
LEMMA MakingStays ==
    ASSUME TypeOK, LifeInv, PidKnown, FreshHost, CleanInv, NEW c \in Clis, FreshOK(cli[c]),
           CliStep(c), cli[c].cmd = "create", cli[c].pc \in Making \union {"destroy", "rm"},
           dir[cli[c].id] # 0
    PROVE  \/ cli'[c].pc \in Making \union {"destroy", "rm", "rmdir"}
           \/ file'[dir[cli[c].id]].kind # "none"
<1>t. CliType /\ FsType /\ cli[c].id \in Ids /\ cli[c] \in CliRecords
  BY OneMoves DEF TypeOK, CliType, CliRecords, Busy
<1>l. LabelOK(cli[c]) /\ FreshOK(cli[c])
  BY DEF LifeInv
<1>n. \A r : Now(c, r) => cli'[c] = r
  BY <1>t, NowIs
<1>g. \A l : Goto(c, l) => cli'[c].pc = l
  BY <1>t, <1>n, NewGoto, AtIs
<1> USE DEF Making, FreshHost, CleanHost
<1>1. CASE CreateMkfifo(c) \/ CreateFs(c) \/ CreateNet(c)
  BY <1>1, <1>g, <1>l DEF CreateMkfifo, CreateFs, CreateNet, FifoAt, FreshOK
<1>2. CASE SetupIO(c) \/ StartOpenRoot(c)
  BY <1>2, <1>g, <1>n, <1>t, NewOpenRoot, RootOpenedIs DEF SetupIO
<1>3. CASE StartFork(c)
  BY <1>3, <1>g, <1>n, <1>t, ForkedIs DEF StartFork, Now
<1>4. CASE SaveOpen(c)
  BY <1>4, <1>t, SavedOpen
<1>5. CASE Destroy(c)
  BY <1>5, <1>n, <1>t, NewDestroy, DestroyingIs
<1>6. ASSUME NEW kept \in SUBSET {"file", "fifo", "iso"}, RemoveEntries(c, kept)
      PROVE  cli'[c].pc = "rmdir"
  BY <1>6, <1>g DEF RemoveEntries
<1>7. CASE LoadStep(c)
  BY <1>7 DEF LoadStep, Load, Probe, ExecOpen, ExecRead, ExecRemove, Signal, SigKill, Poll
<1>8. CASE CreateSpec(c) \/ CreateStat(c) \/ CreateMkdir(c) \/ CreatePidFile(c)
           \/ AdjustOomScore(c) \/ Terminate(c)
  BY <1>8 DEF CreateSpec, CreateStat, CreateMkdir, CreatePidFile, AdjustOomScore, Terminate
<1>9. CASE SaveWrite(c) \/ Rmdir(c) \/ NetworkDestroy(c) \/ Exit(c)
  BY <1>9 DEF SaveWrite, Rmdir, NetworkDestroy, Exit, EndLabels
<1> QED BY <1>1, <1>2, <1>3, <1>4, <1>5, <1>6, <1>7, <1>8, <1>9 DEF CliStep, CreateStep, SharedStep

LEMMA RecordedStep ==
    ASSUME TypeOK, LifeInv, PidKnown, FreshHost, CleanInv, "save" \notin Faults, Recorded,
           NEW c \in Clis, FreshOK(cli[c]), CliStep(c)
    PROVE  Recorded'
<1> DEFINE Witness(r, i) == /\ r.id = i
                            /\ \/ r.cmd = "create" /\ r.pc \in Making \union {"destroy", "rm"}
                               \/ r.pc = "rmdir"
<1> SUFFICES ASSUME NEW i \in Ids, dir'[i] # 0
             PROVE  file'[dir'[i]].kind # "none" \/ \E o \in Clis : Witness(cli'[o], i)
  BY DEF Recorded
<1>t. CliType /\ FsType /\ cli[c].id \in Ids /\ cli[c] \in CliRecords
  BY OneMoves DEF TypeOK, CliType, CliRecords, Busy
<1>o. \A o \in Clis : o # c => cli'[o] = cli[o]
  BY <1>t, OneMoves, NowIs
<1>g. \A l : Goto(c, l) => cli'[c].pc = l /\ Same(cli'[c], cli[c])
  BY <1>t, NewGoto, NowIs, AtIs
<1>1. CASE i # cli[c].id
  <2>1. dir'[i] = dir[i]
    BY <1>1, Local DEF LifeInv
  <2>2. dir[i] \in Inodes /\ dir[i] # dir[cli[c].id]
    BY <1>1, <2>1, <1>t DEF LifeInv, Dirs, FsType
  <2>3. file'[dir[i]] = file[dir[i]]
    BY <2>2, Local DEF LifeInv
  <2>4. \A o \in Clis : Witness(cli[o], i) => Witness(cli'[o], i)
    BY <1>1, <1>o
  <2> QED BY <2>1, <2>3, <2>4 DEF Recorded
<1>2. CASE i = cli[c].id /\ CreateMkdir(c)
  <2>1. cli[c].cmd = "create" /\ Goto(c, "mkfifo")
    BY <1>2 DEF CreateMkdir, FreshHost, LifeInv, Roles, Role, CreateLabels
  <2> QED BY <1>2, <2>1, <1>g DEF Same, Making
<1>3. CASE i = cli[c].id /\ ~CreateMkdir(c)
  <2> DEFINE d == dir[i]
  <2>1. ~Rmdir(c)
    BY <1>3, <1>t DEF Rmdir, FsType, CleanInv, RemovedOK
  <2>2. dir'[i] = d
    BY <1>3, <2>1, DirSteps
  <2>3. d \in Inodes /\ d # 0
    BY <2>2, <1>t DEF FsType
  <2>s. Same(cli'[c], cli[c]) \/ Exit(c)
    BY <1>t, OneMoves, NowIs
  <2>4. CASE file[d].kind # "none"
    <3>1. CASE file'[d].kind # "none"
      BY <2>2, <3>1
    <3>2. CASE file'[d].kind = "none"
      <4>1. cli[c].pc = "rm"
        BY <2>3, <2>4, <3>2, FileSteps DEF LifeInv
      <4>2. PICK kept \in SUBSET {"file", "fifo", "iso"} : RemoveEntries(c, kept)
        BY <4>1, OnlyStep
      <4>3. Goto(c, "rmdir")
        BY <1>3, <2>3, <4>2 DEF RemoveEntries, FreshHost, CleanHost
      <4> QED BY <1>3, <4>3, <1>g DEF Same
    <3> QED BY <3>1, <3>2
  <2>5. ASSUME NEW o \in Clis, Witness(cli[o], i)
        PROVE  file'[dir'[i]].kind # "none" \/ \E a \in Clis : Witness(cli'[a], i)
    <3>1. CASE o # c
      BY <2>5, <3>1, <1>o
    <3>2. CASE o = c
      <4>1. cli[c].cmd = "create" /\ cli[c].pc \in Making \union {"destroy", "rm"}
        BY <2>1, <2>5, <3>2, OnlyStep
      <4>2. ~Exit(c)
        BY <4>1 DEF Exit, EndLabels, Making
      <4>3. \/ cli'[c].pc \in Making \union {"destroy", "rm", "rmdir"}
            \/ file'[d].kind # "none"
        BY <1>3, <2>3, <4>1, MakingStays
      <4> QED BY <1>3, <2>2, <2>s, <4>1, <4>2, <4>3 DEF Same
    <3> QED BY <3>1, <3>2
  <2> QED BY <2>3, <2>4, <2>5 DEF Recorded
<1> QED BY <1>1, <1>2, <1>3

\* The labels at which nothing needs to be fresh.
LEMMA FreshLabel ==
    ASSUME NEW c \in Clis,
           \/ cli'[c].pc \notin {"mkfifo", "fs", "net", "err", "rm", "rmdir"}
           \/ cli'[c].cmd # "create" /\ cli'[c].pc = "err"
           \/ cli'[c].pc \in {"rm", "rmdir"} /\ cli'[c].ret = "netdestroy"
    PROVE  FreshOK(cli[c])'
BY DEF FreshOK

\* The first steps of create.
LEMMA FreshCreates ==
    ASSUME TypeOK, LifeInv, FreshHost, FifoHome, TapHome, NEW c \in Clis, FreshOK(cli[c]),
           CreateStep(c)
    PROVE  FreshOK(cli[c])'
<1>c. CliStep(c)
  BY DEF CliStep
<1>t. CliType /\ FsType /\ cli[c].id \in Ids /\ cli[c] \in CliRecords /\ Busy(c)
  BY <1>c, OneMoves DEF TypeOK, CliType, CliRecords, Busy
<1>l. LabelOK(cli[c]) /\ Role(cli[c])
  BY DEF LifeInv, Roles
<1>n. \A r : Now(c, r) => cli'[c] = r
  BY <1>t, NowIs
<1>g. \A l : Goto(c, l) => cli'[c].pc = l /\ Same(cli'[c], cli[c])
  BY <1>t, <1>n, NewGoto, AtIs
<1> USE DEF FreshHost, CleanHost
<1>1. CASE CreateSpec(c)
  BY <1>1, <1>g, FreshLabel DEF CreateSpec
<1>2. CASE CreateStat(c)
  <2>1. CASE Goto(c, "mkdir")
    BY <2>1, <1>g, FreshLabel
  <2>2. CASE dir[cli[c].id] # 0 /\ Goto(c, "err")
    <3>1. dir[cli[c].id] # cli[c].num
      BY <1>2, <1>l, <1>t DEF CreateStat, LabelOK, EarlyOK, Early, Untouched
    <3> QED BY <1>2, <2>2, <3>1, <1>g DEF CreateStat, fsVars, FreshOK, Same
  <2> QED BY <1>2, <2>1, <2>2 DEF CreateStat
<1>3. CASE CreateMkdir(c)
  <2> DEFINE n == cli[c].num
  <2>1. dir[cli[c].id] = 0 /\ n \in Inodes /\ n # 0 /\ Untouched(n)
    BY <1>3, <1>l DEF CreateMkdir, LabelOK, EarlyOK, Early, TypeOK, CounterType, Inodes
  <2>2. dir'[cli[c].id] = n /\ UNCHANGED <<fifo, taps>> /\ Goto(c, "mkfifo")
    BY <1>3, <2>1, <1>t DEF CreateMkdir, FsType
  <2>3. fifo[n] = 0
    BY <2>1 DEF FifoHome, Untouched
  <2>4. TapOf[cli[c].id] \notin taps
    <3>1. ~\E o \in Clis : cli[o].id = cli[c].id /\ cli[o].pc = "netdestroy"
      BY <1>3, <1>l, <1>t DEF LifeInv, Alone, Busy, CreateMkdir, Role, CreateLabels
    <3> QED BY <2>1, <3>1, <1>t DEF TapHome
  <2> QED BY <2>2, <2>3, <2>4, <1>g DEF FreshOK, Same
<1>4. CASE CreateMkfifo(c)
  <2>1. dir[cli[c].id] # 0 /\ FifoAt(cli[c].id) = 0 /\ TapOf[cli[c].id] \notin taps
    BY <1>4, <1>l DEF CreateMkfifo, LabelOK, MakingOK, Making, FreshOK, FifoAt, Role, CreateLabels
  <2>2. Goto(c, "fs") /\ UNCHANGED taps
    BY <1>4, <2>1 DEF CreateMkfifo
  <2> QED BY <2>1, <2>2, <1>g DEF FreshOK, Same
<1>5. CASE CreateFs(c)
  <2>1. dir[cli[c].id] # 0 /\ TapOf[cli[c].id] \notin taps
    BY <1>5, <1>l DEF CreateFs, LabelOK, MakingOK, Making, FreshOK, Role, CreateLabels
  <2>2. Goto(c, "net") /\ UNCHANGED taps
    BY <1>5, <2>1 DEF CreateFs
  <2> QED BY <2>1, <2>2, <1>g DEF FreshOK, Same
<1>6. CASE CreateNet(c)
  <2>1. TapOf[cli[c].id] \notin taps
    BY <1>6, <1>l DEF CreateNet, FreshOK, Role, CreateLabels
  <2>2. Goto(c, "io")
    BY <1>6, <2>1 DEF CreateNet
  <2> QED BY <2>2, <1>g, FreshLabel
<1>7. CASE SetupIO(c) \/ CreatePidFile(c) \/ AdjustOomScore(c)
  BY <1>7, <1>g, FreshLabel DEF SetupIO, CreatePidFile, AdjustOomScore
<1>8. CASE StartOpenRoot(c) \/ Terminate(c)
  BY <1>8, <1>g, <1>n, <1>t, NewOpenRoot, RootOpenedIs, NewTerminate, TerminatedIs, FreshLabel
<1>9. CASE StartFork(c)
  BY <1>9, <1>g, <1>n, <1>t, ForkedIs, FreshLabel DEF StartFork, Now
<1> QED BY <1>1, <1>2, <1>3, <1>4, <1>5, <1>6, <1>7, <1>8, <1>9 DEF CreateStep

\* A delete finds no container only where there is no directory.
LEMMA FreshLoads ==
    ASSUME TypeOK, LifeInv, Recorded, NEW c \in Clis, LoadStep(c)
    PROVE  FreshOK(cli[c])'
<1>c. CliStep(c)
  BY DEF CliStep
<1>t. CliType /\ FsType /\ cli[c].id \in Ids /\ cli[c] \in CliRecords /\ Busy(c)
  BY <1>c, OneMoves DEF TypeOK, CliType, CliRecords, Busy
<1>l. Role(cli[c])
  BY DEF LifeInv, Roles
<1>n. \A r : Now(c, r) => cli'[c] = r
  BY <1>t, NowIs
<1>g. \A l : Goto(c, l) => cli'[c].pc = l /\ Same(cli'[c], cli[c])
  BY <1>t, <1>n, NewGoto, AtIs
<1>k. cli[c].cmd # "create"
  BY <1>l DEF LoadStep, Load, Probe, ExecOpen, ExecRead, ExecRemove, Signal, SigKill, Poll,
              Role, LoadLabels
<1>1. CASE Load(c)
  <2>1. CASE FileAt(cli[c].id).kind = "none" /\ Now(c, NotThere(cli[c]))
    <3>1. cli'[c].pc = "rm" /\ Same(cli'[c], cli[c]) /\ UNCHANGED dir
      BY <1>1, <2>1, <1>n, <1>t, NotThereIs DEF Load, fsVars
    <3>2. dir[cli[c].id] = 0
      <4> SUFFICES ASSUME dir[cli[c].id] # 0 PROVE FALSE
        OBVIOUS
      <4>1. file[dir[cli[c].id]].kind = "none"
        BY <2>1 DEF FileAt
      <4>2. PICK o \in Clis : /\ cli[o].id = cli[c].id
                              /\ \/ cli[o].cmd = "create" /\ cli[o].pc \in Making \union {"destroy", "rm"}
                                 \/ cli[o].pc = "rmdir"
        BY <4>1, <1>t DEF Recorded
      <4>3. o # c /\ Busy(o) /\ cli[o].cmd \in {"create", "delete"}
        BY <4>2, <1>1, <1>k DEF Load, Busy, Making, LifeInv, Roles, Role, RemoveLabels
      <4> QED BY <4>2, <4>3, <1>t DEF LifeInv, Alone
    <3> QED BY <3>1, <3>2, <1>k DEF FreshOK, Same
  <2> QED BY <1>1, <2>1, <1>g, <1>n, <1>t, <1>k, NewLoad, LoadedIs, FreshLabel DEF AfterLoad, Same
<1>2. CASE Probe(c)
  <2>1. ASSUME NEW l \in AfterStatus(cli[c], cli[c].status), Goto(c, l) PROVE FreshOK(cli[c])'
    <3>1. l \notin {"mkfifo", "fs", "net", "rm", "rmdir"}
      BY <2>1 DEF AfterStatus, StartSwitch, StateSwitch, DeleteSwitch
    <3> QED BY <2>1, <3>1, <1>g, <1>k, FreshLabel DEF Same
  <2> QED BY <1>2, <2>1, <1>n, <1>t, NewProbe, FoundDeadIs, FreshLabel
<1>3. CASE ExecOpen(c)
  BY <1>3, <1>g, <1>n, <1>t, <1>k, NewExecOpen, AtFifoIs, FreshLabel DEF Same
<1>4. CASE ExecRead(c)
  BY <1>4, <1>g, <1>n, <1>t, <1>k, StartedIs, FreshLabel DEF ExecRead, Same, Now
<1>5. CASE ExecRemove(c) \/ Signal(c) \/ SigKill(c) \/ Poll(c)
  BY <1>5, <1>g, <1>k, FreshLabel DEF ExecRemove, Signal, SigKill, Poll, Same
<1> QED BY <1>1, <1>2, <1>3, <1>4, <1>5 DEF LoadStep

LEMMA FreshShared ==
    ASSUME TypeOK, LifeInv, PidKnown, FreshHost, CleanInv, NEW c \in Clis, FreshOK(cli[c]),
           SharedStep(c) \/ Exit(c)
    PROVE  FreshOK(cli[c])'
<1>c. CliStep(c)
  BY DEF CliStep
<1>t. CliType /\ FsType /\ cli[c].id \in Ids /\ cli[c] \in CliRecords /\ Busy(c)
  BY <1>c, OneMoves DEF TypeOK, CliType, CliRecords, Busy
<1>l. Role(cli[c])
  BY DEF LifeInv, Roles
<1>n. \A r : Now(c, r) => cli'[c] = r
  BY <1>t, NowIs
<1>g. \A l : Goto(c, l) => cli'[c].pc = l /\ Same(cli'[c], cli[c]) /\ cli'[c].ret = cli[c].ret
  BY <1>t, <1>n, NewGoto, AtIs
<1>1. CASE SaveOpen(c) \/ SaveWrite(c)
  <2>1. CASE Goto(c, "savewrite")
    BY <2>1, <1>g, FreshLabel
  <2>2. CASE Goto(c, cli[c].ret)
    <3>1. SaveRole(cli[c])
      BY <1>1, <1>l DEF SaveOpen, SaveWrite, Role, SaveLabels
    <3> QED BY <2>2, <3>1, <1>g, FreshLabel DEF SaveRole, Same
  <2> QED BY <1>1, <2>1, <2>2 DEF SaveOpen, SaveWrite
<1>2. CASE Destroy(c)
  BY <1>2, <1>n, <1>t, NewDestroy, DestroyingIs, FreshLabel
<1>r. cli[c].pc \in {"rm", "rmdir"} =>
        \/ cli[c].ret = "netdestroy"
        \/ cli[c].ret = "err" /\ cli[c].cmd = "delete" /\ dir[cli[c].id] = 0
  BY <1>l DEF Role, RemoveLabels, FreshOK
<1>3. ASSUME cli[c].pc \in {"rm", "rmdir"}, Goto(c, cli[c].ret)
      PROVE  FreshOK(cli[c])'
  BY <1>3, <1>r, <1>g, FreshLabel DEF Same
<1>4. ASSUME NEW kept \in SUBSET {"file", "fifo", "iso"}, RemoveEntries(c, kept)
      PROVE  FreshOK(cli[c])'
  <2>1. CASE dir[cli[c].id] = 0
    BY <1>4, <2>1, <1>3 DEF RemoveEntries
  <2>2. CASE dir[cli[c].id] # 0
    <3>1. Goto(c, "rmdir") /\ cli[c].ret = "netdestroy"
      BY <1>4, <2>2, <1>r DEF RemoveEntries, FreshHost, CleanHost
    <3> QED BY <3>1, <1>g, FreshLabel
  <2> QED BY <2>1, <2>2
<1>5. CASE Rmdir(c)
  <2>1. cli[c].pc = "rmdir" /\ Goto(c, cli[c].ret)
    BY <1>5 DEF Rmdir, CleanInv, RemovedOK
  <2> QED BY <2>1, <1>3
<1>6. CASE NetworkDestroy(c)
  BY <1>6, <1>g, FreshLabel DEF NetworkDestroy, AfterDestroy
<1>7. CASE Exit(c)
  BY <1>7, <1>t, FreshLabel DEF Exit, CliType, IdleCli
<1> QED BY <1>1, <1>2, <1>4, <1>5, <1>6, <1>7 DEF SharedStep

\* What another command knows stays so.
LEMMA FreshOthers ==
    ASSUME TypeOK, LifeInv, CleanHost, NEW c \in Clis, NEW o \in Clis, o # c, FreshOK(cli[o]),
           CliStep(c)
    PROVE  FreshOK(cli[o])'
<1>l. Role(cli[o]) /\ LabelOK(cli[o]) /\ Alone /\ Roles /\ Dirs /\ Opens
  BY DEF LifeInv, Roles
<1>t. CliType /\ FsType
  BY DEF TypeOK
<1>o. cli'[o] = cli[o]
  BY <1>t, OneMoves, NowIs
<1>1. CASE ~Busy(o) \/ cli[o].cmd \notin {"create", "delete"}
  BY <1>1, <1>o, <1>l DEF FreshOK, Busy, Role, CreateLabels
<1>2. CASE Busy(o) /\ cli[o].cmd \in {"create", "delete"}
  <2> DEFINE i == cli[o].id
             d == dir[i]
  <2>1. i # cli[c].id /\ i \in Ids /\ cli[c].id \in Ids
    BY <1>2, <1>l, <1>t, Apart, OneMoves DEF CliType, CliRecords, Busy
  <2>2. dir'[i] = d /\ (TapOf[i] \in taps' <=> TapOf[i] \in taps)
    BY <2>1, LocalTaps, Local, <1>l
  <2>3. d # 0 => fifo'[d] = fifo[d]
    BY <2>1, LocalEntries, <1>l, <1>t DEF Dirs, FsType
  <2>4. cli[o].pc = "mkfifo" => d # 0
    BY <1>l DEF LabelOK, MakingOK, Making, Role, CreateLabels
  <2> QED BY <2>2, <2>3, <2>4, <1>o DEF FreshOK
<1> QED BY <1>1, <1>2

\* Callers and processes.
LEMMA QuietSteps ==
    ASSUME CliType,
           \/ \E c \in Clis, m \in Commands, i \in Ids : Invoke(c, m, i)
           \/ \E q \in Pids : ProcStep(q)
    PROVE  /\ UNCHANGED <<dir, file, fifo, iso, taps>>
           /\ \A o \in Clis : \/ cli'[o] = cli[o]
                              \/ /\ cli[o].pc \in {"idle", "blocked"}
                                 /\ cli'[o].pc \in {"spec", "load", "read"}
<1>1. ASSUME NEW c \in Clis, NEW m \in Commands, NEW i \in Ids, Invoke(c, m, i), NEW o \in Clis
      PROVE  \/ cli'[o] = cli[o]
             \/ cli[o].pc = "idle" /\ cli'[o].pc \in {"spec", "load"}
  BY <1>1 DEF Invoke, CliType, IdleCli
<1>2. ASSUME NEW c \in Clis, NEW m \in Commands, NEW i \in Ids, Invoke(c, m, i)
      PROVE  UNCHANGED <<dir, file, fifo, iso, taps>>
  BY <1>2 DEF Invoke, fsVars
<1>3. ASSUME NEW q \in Pids, ProcStep(q), NEW o \in Clis
      PROVE  cli'[o] = cli[o] \/ (cli[o].pc = "blocked" /\ cli'[o].pc = "read")
  <2>1. UNCHANGED cli \/ \E f : cli' = Woken(f)
    BY <1>3, ProcFrame
  <2> QED BY <2>1 DEF Woken, CliType, CliRecords
<1> QED BY <1>1, <1>2, <1>3, ProcFrame

LEMMA QuietFresh ==
    ASSUME TypeOK, FreshInv,
           \/ \E c \in Clis, m \in Commands, i \in Ids : Invoke(c, m, i)
           \/ \E q \in Pids : ProcStep(q)
    PROVE  FreshInv'
<1>t. CliType
  BY DEF TypeOK
<1>1. /\ UNCHANGED <<dir, file, fifo, iso, taps>>
      /\ \A o \in Clis : \/ cli'[o] = cli[o]
                         \/ /\ cli[o].pc \in {"idle", "blocked"}
                            /\ cli'[o].pc \in {"spec", "load", "read"}
  BY <1>t, QuietSteps
<1>2. FifoHome'
  BY <1>1 DEF FreshInv, FifoHome
<1>3. TapHome'
  <2>1. ASSUME NEW o \in Clis, cli[o].pc = "netdestroy"
        PROVE  cli'[o] = cli[o]
    BY <2>1, <1>1
  <2> QED BY <2>1, <1>1 DEF FreshInv, TapHome
<1>4. Recorded'
  <2>1. ASSUME NEW o \in Clis, cli[o].pc \in Making \union {"destroy", "rm", "rmdir"}
        PROVE  cli'[o] = cli[o]
    BY <2>1, <1>1 DEF Making
  <2>2. Recorded
    BY DEF FreshInv
  <2>3. ASSUME NEW i \in Ids, dir[i] # 0
        PROVE  \/ file[dir[i]].kind # "none"
               \/ \E o \in Clis : /\ cli'[o].id = i
                                  /\ \/ cli'[o].cmd = "create"
                                        /\ cli'[o].pc \in Making \union {"destroy", "rm"}
                                     \/ cli'[o].pc = "rmdir"
    BY <2>1, <2>2, <2>3 DEF Recorded
  <2> QED BY <2>3, <1>1 DEF Recorded
<1>5. ASSUME NEW o \in Clis
      PROVE  FreshOK(cli[o])'
  <2>1. CASE cli'[o] = cli[o]
    BY <2>1, <1>1 DEF FreshOK, FreshInv
  <2>2. CASE cli'[o].pc \in {"spec", "load", "read"}
    BY <2>2, FreshLabel
  <2> QED BY <2>1, <2>2, <1>1
<1> QED BY <1>2, <1>3, <1>4, <1>5 DEF FreshInv

LEMMA FreshStays == ASSUME Careful, FreshHost PROVE Spec => []FreshInv
<1>1. Init => FreshInv
  BY DEF Init, FreshInv, FifoHome, TapHome, Recorded, FreshOK, IdleCli
<1>2. TypeOK /\ PidKnown /\ LifeInv /\ CleanInv /\ FreshInv /\ [Next]_vars => FreshInv'
  <2> SUFFICES ASSUME TypeOK, PidKnown, LifeInv, CleanInv, FreshInv, [Next]_vars
               PROVE  FreshInv'
    OBVIOUS
  <2> USE DEF FreshHost
  <2>1. CASE UNCHANGED vars
    <3>1. UNCHANGED <<dir, file, fifo, iso, taps, proc, cli>>
      BY <2>1 DEF vars, fsVars
    <3>2. FifoHome' /\ TapHome' /\ Recorded'
      BY <3>1 DEF FreshInv, FifoHome, TapHome, Recorded
    <3>3. \A c \in Clis : FreshOK(cli[c])'
      BY <3>1 DEF FreshInv, FreshOK
    <3> QED BY <3>2, <3>3 DEF FreshInv
  <2>2. \A c \in Clis : ~Crash(c)
    BY DEF Crash, TypeOK, CounterType, Careful
  <2>3. ASSUME NEW c \in Clis, CliStep(c)
        PROVE  FreshInv'
    <3>1. FifoHome /\ TapHome /\ Recorded /\ \A o \in Clis : FreshOK(cli[o])
      BY DEF FreshInv
    <3>2. FifoHome' /\ TapHome' /\ Recorded'
      BY <2>3, <3>1, FifoHomeStep, TapHomeStep, RecordedStep DEF Careful
    <3>3. FreshOK(cli[c])'
      BY <2>3, <3>1, FreshCreates, FreshLoads, FreshShared DEF CliStep
    <3>4. ASSUME NEW o \in Clis, o # c PROVE FreshOK(cli[o])'
      BY <2>3, <3>1, <3>4, FreshOthers
    <3> QED BY <3>2, <3>3, <3>4 DEF FreshInv
  <2> QED BY <2>1, <2>2, <2>3, QuietFresh DEF Next
<1>3. CleanHost
  BY DEF FreshHost
<1> QED BY <1>1, <1>2, <1>3, LifeGoesWell, CleanStays, TypeCorrect, PidsKnown, PTL DEF Spec

\* A create fails before the runner only if the container exists: what an
\* earlier create or delete of the id left is never in its way
\* (factory_nabla.go:114-172), if nothing fails inside the factory either.
THEOREM NextCreateIsFresh ==
    ASSUME Careful, FreshHost PROVE Spec => []FreshCreate
<1>1. FreshInv => FreshCreate
  BY DEF FreshInv, FreshOK, FreshCreate
<1> QED BY <1>1, FreshStays, PTL

===========================================================================
