------------------------------- MODULE Runnc -------------------------------
(***************************************************************************)
(* The runtime: the commands create, start, state, kill and delete as      *)
(* concurrent processes over the host, the init processes they fork, the   *)
(* reaper, and the unrelated processes of the machine that may be given a  *)
(* pid which an init process had.                                          *)
(***************************************************************************)
EXTENDS Libcontainer, InitNabla

---------------------------------------------------------------------------
(* The callers.                                                            *)

\* A caller runs "runnc <m> <i>".  Callers hold back a command of Exclusive
\* while another one works on the same container.
Invoke(c, m, i) ==
    /\ cli[c].pc = "idle"
    /\ calls < MaxCalls
    /\ m = "create" => creates < MaxCreates
    /\ \A o \in Clis : cli[o].pc # "idle" /\ cli[o].id = i
                         => m \notin Exclusive /\ cli[o].cmd \notin Exclusive
    /\ calls' = calls + 1
    /\ creates' = IF m = "create" THEN creates + 1 ELSE creates
    /\ cli' = [cli EXCEPT ![c] =
                 [IdleCli EXCEPT !.pc = IF m = "create" THEN "spec" ELSE "load",
                                 !.cmd = m, !.id = i,
                                 !.num = IF m = "create" THEN creates + 1 ELSE 0]]
    /\ UNCHANGED <<fsVars, taps, gateVars, proc, crashes, others>>

\* The command's process ends; a child becomes the subreaper's.
Exit(c) ==
    /\ cli[c].pc \in EndLabels
    /\ cli' = [cli EXCEPT ![c] = IdleCli]
    /\ UNCHANGED <<fsVars, taps, gateVars, proc, counters>>

\* The command is killed half way (the caller's timeout, an operator, the
\* OOM killer).  The kernel closes its files; the byte of a fifo is lost
\* with its last reader, or with a reader that had taken it already.
Crash(c) ==
    /\ cli[c].pc \notin EndLabels \union {"idle"}
    /\ crashes < MaxCrashes
    /\ crashes' = crashes + 1
    /\ cli' = [cli EXCEPT ![c] = IdleCli]
    /\ file' = Closed(c)
    /\ \/ /\ cli[c].pc = "read" \/ Readers(cli[c].fd) = {c}
          /\ byte' = byte \ {cli[c].fd}
       \/ Readers(cli[c].fd) # {c} /\ UNCHANGED byte
    /\ UNCHANGED <<dir, fifo, iso, taps, puts, wins, proc, calls, creates, others>>

---------------------------------------------------------------------------
(* create outside libcontainer: the bundle before, runner.run after it.     *)

\* The bundle's config.json is read and parsed, its rootfs looked for.
CreateSpec(c) ==
    /\ cli[c].pc = "spec"
    /\ \/ Goto(c, "stat")
       \/ "spec" \in Faults /\ Goto(c, "err")
    /\ UNCHANGED <<fsVars, taps, gateVars, proc, counters>>

\* From here on the runner destroys the container when a step fails.
SetupIO(c) ==
    /\ cli[c].pc = "io"
    /\ \/ Goto(c, "openroot")
       \/ "io" \in Faults /\ Goto(c, "destroy")
    /\ UNCHANGED <<fsVars, taps, gateVars, proc, counters>>

CreatePidFile(c) ==
    /\ cli[c].pc = "pidfile"
    /\ \/ Goto(c, "oom")
       \/ "pidfile" \in Faults /\ Goto(c, "terminate")
    /\ UNCHANGED <<fsVars, taps, gateVars, proc, counters>>

AdjustOomScore(c) ==
    /\ cli[c].pc = "oom"
    /\ \/ Goto(c, "ok")
       \/ "oom" \in Faults /\ Goto(c, "terminate")
    /\ UNCHANGED <<fsVars, taps, gateVars, proc, counters>>

\* Mutant of Terminate: the child is not killed.
TerminateNothing(c) ==
    /\ cli[c].pc = "terminate"
    /\ Goto(c, "destroy")
    /\ UNCHANGED <<fsVars, taps, gateVars, proc, counters>>

\* SIGKILL to the child and wait, then destroy.
Terminate(c) ==
    /\ cli[c].pc = "terminate"
    /\ proc' = [proc EXCEPT ![cli[c].child] = NoProc]
    /\ cli' = [cli EXCEPT ![c].pc = "destroy", ![c].child = 0]
    /\ UNCHANGED <<fsVars, taps, gateVars, counters>>

---------------------------------------------------------------------------
(* kill and delete --force.                                                *)

\* parseSignal may reject the signal; kill(2) fails if the pid is unknown;
\* otherwise the signal is delivered, fatal or not, to whatever process
\* has the pid now.
Signal(c) ==
    /\ cli[c].pc = "signal"
    /\ \/ Goto(c, "err") /\ UNCHANGED proc
       \/ Exists(cli[c].pid) /\ Goto(c, "ok") /\ UNCHANGED proc
       \/ Exists(cli[c].pid) /\ Goto(c, "ok") /\ proc' = Killed(cli[c].pid)
    /\ UNCHANGED <<fsVars, taps, gateVars, counters>>

\* killContainer: SIGKILL, its error ignored.
SigKill(c) ==
    /\ cli[c].pc = "sigkill"
    /\ proc' = Killed(cli[c].pid)
    /\ Goto(c, "poll")
    /\ UNCHANGED <<fsVars, taps, gateVars, counters>>

\* killContainer: signal 0 every 100 ms; destroy once the pid is unknown,
\* give up after 100 attempts.
Poll(c) ==
    /\ cli[c].pc = "poll"
    /\ Goto(c, IF Exists(cli[c].pid) THEN "err" ELSE "destroy")
    /\ UNCHANGED <<fsVars, taps, gateVars, proc, counters>>

---------------------------------------------------------------------------
(* The rest of the machine.                                                *)

OtherSpawn(p) ==
    /\ proc[p].st = "free"
    /\ others < MaxOthers
    /\ others' = others + 1
    /\ proc' = [proc EXCEPT ![p] = OtherProc]
    /\ UNCHANGED <<fsVars, taps, gateVars, cli, calls, creates, crashes>>

OtherExit(p) ==
    /\ proc[p].st = "other"
    /\ proc' = [proc EXCEPT ![p] = NoProc]
    /\ UNCHANGED <<fsVars, taps, gateVars, cli, counters>>

---------------------------------------------------------------------------
(* The specification.                                                      *)

CreateStep(c) == \/ CreateSpec(c) \/ CreateStat(c) \/ CreateMkdir(c)
                 \/ CreateMkfifo(c) \/ CreateFs(c) \/ CreateNet(c)
                 \/ SetupIO(c) \/ StartOpenRoot(c) \/ StartFork(c)
                 \/ CreatePidFile(c) \/ AdjustOomScore(c) \/ Terminate(c)

LoadStep(c) == \/ Load(c) \/ Probe(c) \/ ExecOpen(c) \/ ExecRead(c)
               \/ ExecRemove(c) \/ Signal(c) \/ SigKill(c) \/ Poll(c)

SharedStep(c) == \/ SaveOpen(c) \/ SaveWrite(c) \/ Destroy(c)
                 \/ \E kept \in SUBSET {"file", "fifo", "iso"} :
                      RemoveEntries(c, kept)
                 \/ Rmdir(c) \/ NetworkDestroy(c)

\* A step of the command's own code, up to the exit of its process.
CliStep(c) == CreateStep(c) \/ LoadStep(c) \/ SharedStep(c) \/ Exit(c)

ProcStep(p) == \/ InitStep(p) \/ InitSetupFails(p) \/ InitExit(p) \/ Reap(p)
               \/ OtherSpawn(p) \/ OtherExit(p)

Next == \/ \E c \in Clis : \/ \E m \in Commands, i \in Ids : Invoke(c, m, i)
                           \/ CliStep(c)
                           \/ Crash(c)
        \/ \E p \in Pids : ProcStep(p)

Spec == Init /\ [][Next]_vars

\* A hook without a timeout owes init nothing: its set-up may not end.
MaySetUpForever(p) == proc[p].st = "setup" /\ proc[p].id \in Untimed

\* The scheduler runs every runnable command and init process, and somebody
\* reaps orphans.  Callers, crashes, unikernels, hooks without a timeout and
\* unrelated processes owe nothing.
Fairness == /\ \A c \in Clis : WF_vars(CliStep(c))
            /\ \A p \in Pids : /\ WF_vars(InitStep(p) /\ ~MaySetUpForever(p))
                               /\ WF_vars(Reap(p))

FairSpec == Spec /\ Fairness

---------------------------------------------------------------------------
(* Properties that hold whatever the callers do.                           *)

\* The types of the variables.  An init process has the directory that
\* create opened for it, and one that is at the fifo has the fifo.
FsType == /\ dir \in [Ids -> Inodes \union {0}]
          /\ file \in [Inodes -> Files]
          /\ fifo \in [Inodes -> Inodes \union {0}]
          /\ iso \subseteq Inodes

TapType == taps \subseteq {TapOf[i] : i \in Ids}

GateType == /\ byte \subseteq Inodes
            /\ puts \in [Inodes -> Nat]
            /\ wins \in [Inodes -> Nat]

ProcType == /\ proc \in [Pids -> Procs]
            /\ \A p \in Pids :
                 /\ proc[p].st \in InitStates => proc[p].root # 0
                 /\ proc[p].st \in {"opening", "writing"} => proc[p].fifo # 0

CliType == /\ cli \in [Clis -> CliRecords]
           /\ \A c \in Clis :
                /\ cli[c].pc # "idle" => cli[c].id # NoId
                /\ cli[c].pc \in {"fork", "blocked", "read"} => cli[c].fd # 0

CounterType == /\ calls \in 0 .. MaxCalls
               /\ creates \in 0 .. MaxCreates
               /\ crashes \in 0 .. MaxCrashes
               /\ others \in 0 .. MaxOthers

\* Every variable keeps its type.
TypeOK == FsType /\ TapType /\ GateType /\ ProcType /\ CliType /\ CounterType

Signalling == {"probe", "reprobe", "signal", "sigkill", "poll"}

\* destroy sets InitProcessPid to 0 (container_nabla.go:273) and kill(0, s)
\* hits the caller's whole process group: no such state is ever written to
\* state.json, and no command probes or signals with it
\* (container_nabla.go:141, 376).
NoSignalToOwnGroup ==
    /\ \A d \in Inodes : file[d].kind = "ok" => file[d].pid # 0
    /\ \A c \in Clis : cli[c].pc \in Signalling => cli[c].pid # 0

\* However many starts race for a container, and whatever is deleted,
\* re-created or killed meanwhile, each success answers one byte of its own
\* that an init process wrote at the gate (container_nabla.go:259-269,
\* init_nabla.go:148-155): no start succeeds without an init having passed,
\* no byte makes two of them succeed.
OneStartPerGate ==
    \A f \in Inodes : wins[f] + (IF f \in byte THEN 1 ELSE 0) <= puts[f]

\* What makes NoSignalToOwnGroup inductive: the pid is known from Load or
\* the fork on, through saveState and exec, until destroy clears it; and
\* RemoveAll returns neither to saveState nor to a label that uses the pid.
HoldsPid == Signalling \union {"saveopen", "savewrite", "openfifo", "blocked", "read"}

PidOK(r) == /\ r.pc \in HoldsPid => r.pid # 0
            /\ r.pc \in {"rm", "rmdir"} => r.ret \in {"netdestroy", "err"}

PidKnown == /\ \A d \in Inodes : file[d].kind = "ok" => file[d].pid # 0
            /\ \A c \in Clis : PidOK(cli[c])

---------------------------------------------------------------------------
(* Properties of callers that run create and delete alone and let start,   *)
(* state and kill overlap.                                                 *)

LiveInit(p) == proc[p].st \in InitStates

\* A state.json that says Stopped belongs to a directory no living init
\* process was created for, although state and start write back what they
\* loaded long before (container_nabla.go:265, 376-380).
StoppedMeansDead ==
    \A d \in Inodes, p \in Pids :
        file[d].kind = "ok" /\ file[d].status = "stopped" /\ LiveInit(p)
            => proc[p].root # d

\* A living init process can always be found: its directory is the one at
\* the container's path and the last record there names it, unless the
\* create that forked it is still busy.
NoOrphanInit ==
    \A p \in Pids : LiveInit(p) =>
        \/ \E c \in Clis : cli[c].child = p
        \/ /\ dir[proc[p].id] = proc[p].root
           /\ file[proc[p].root].kind # "none"
           /\ file[proc[p].root].pid = p

\* A container's record (a file that was ever written names a pid) never
\* goes back to Created, and no start turns it to Running before init has
\* passed the gate.
StatusForward ==
    [][\A d \in Inodes :
         /\ file[d].pid # 0 /\ file[d].status # "created"
              => file'[d].pid = 0 \/ file'[d].status # "created"
         /\ file[d].status # "running" /\ file'[d].status = "running"
              => \A p \in Pids : proc[p].root = d
                    => proc[p].st \notin {"setup", "opening", "writing"}]_vars

\* When delete reports success nothing of the container is left: no
\* directory, no TAP device, no living init process (delete.go:49-94).
DeletedClean ==
    \A c \in Clis : cli[c].cmd = "delete" /\ cli[c].pc = "ok" =>
        /\ dir[cli[c].id] = 0
        /\ TapOf[cli[c].id] \notin taps
        /\ \A p \in Pids : LiveInit(p) => proc[p].id # cli[c].id

\* A living init process has its TAP device, even when another id is cut to
\* the same device name (tap_bridge.go:78-83): a create that finds the name
\* taken fails without removing the device.
TapHeld ==
    \A p \in Pids : LiveInit(p) => TapOf[proc[p].id] \in taps

\* state.json is unreadable only while somebody is writing it
\* (container_nabla.go:395-402), so an undisturbed container can be loaded.
TornOnlyWhileSaving ==
    \A d \in Inodes : file[d].kind = "torn" => file[d].open # {}

---------------------------------------------------------------------------
(* Properties of creates.                                                  *)

\* Creates that race for one id, with starts and kills in between, leave at
\* most one living init process: os.Stat and MkdirAll do not exclude each
\* other (factory_nabla.go:114-119), the fifo and the TAP device do.
AtMostOneInit ==
    \A p, q \in Pids : LiveInit(p) /\ LiveInit(q) /\ proc[p].id = proc[q].id
                         => p = q

\* Once the factory has made the container, a failing create destroys it:
\* no directory, no TAP device, no living init process (util_runner.go:41-94).
UndoneClean ==
    \A c \in Clis : cli[c].pc = "undone" =>
        /\ dir[cli[c].id] = 0
        /\ TapOf[cli[c].id] \notin taps
        /\ \A p \in Pids : LiveInit(p) => proc[p].id # cli[c].id

\* When create and delete run alone, create of an id fails before the runner only
\* if the container exists: what an earlier create or delete of the id left
\* never gets in its way.
FreshCreate ==
    \A c \in Clis : cli[c].cmd = "create" /\ cli[c].pc = "err"
        => dir[cli[c].id] \notin {0, cli[c].num}

---------------------------------------------------------------------------
(* What the runtime implements.                                            *)

\* Whatever the callers do and wherever they are killed, the exec fifo is a
\* start gate (container_nabla.go:253-269, init_nabla.go:147-155): an init
\* process passes only while a start is there, each success takes the byte
\* of one passage, and no byte is left for a start that comes later.
Gate == INSTANCE StartGate WITH
            Gates <- Inodes, Starts <- Clis,
            there <- [f \in Inodes |-> Readers(f)],
            token <- byte, passed <- puts, answered <- wins

ImplementsStartGate == Gate!Spec

\* The phase of container i, from what is on the host: its directory, the
\* create that made it, if that is still busy, and the init process that
\* was forked for it.
Creating(i) == \E c \in Clis : /\ cli[c].cmd = "create" /\ cli[c].id = i
                                /\ cli[c].pc \notin EndLabels \union {"idle"}
                                /\ cli[c].num = dir[i]

InitIn(i, states) == \E p \in Pids : /\ proc[p].st \in states
                                      /\ proc[p].root = dir[i]

Phase(i) ==
    IF dir[i] = 0 THEN "absent"
    ELSE IF Creating(i) THEN "creating"
    ELSE IF InitIn(i, {"setup", "opening", "writing"}) THEN "created"
    ELSE IF InitIn(i, {"gate", "user"}) THEN "running"
    ELSE "stopped"

\* When create and delete run alone, a container has the life of an OCI
\* container: started once, removed only when its process is dead
\* (delete.go:49-94), and gone when its create fails (util_runner.go:41-94).
Oci == INSTANCE OciContainer WITH phase <- [i \in Ids |-> Phase(i)]

ImplementsOci == Oci!Spec

---------------------------------------------------------------------------
(* Liveness.                                                               *)

\* create waits in the Encode of a config that the socket pair cannot hold.
EncodeHangs(c) == cli[c].pc = "fork" /\ cli[c].id \in Oversize

\* start waits in the open of the fifo after init has passed it, or for
\* nobody: whoever was forked for the fifo is dead, or kept in set-up by a
\* hook without a timeout.
OpenedLate(c) == cli[c].pc = "blocked" /\ puts[cli[c].fd] > 0

NobodyComes(c) ==
    /\ cli[c].pc = "blocked" /\ puts[cli[c].fd] = 0
    /\ \A p \in Pids : LiveInit(p) /\ fifo[proc[p].root] = cli[c].fd
                         => MaySetUpForever(p)

\* Every command ends, but for these three waits; and a start that is at the
\* fifo in time gets through the open when init arrives.  So a start that got
\* through finds its end of file, because init closes the fifo or dies; who
\* loses the race for the byte ends with an error; and nothing else, the poll
\* of delete included, waits for a process that does not go
\* (container_nabla.go:226-270, init_nabla.go:148-155, delete.go:86-94).
CommandsEnd ==
    \A c \in Clis :
        /\ (cli[c].pc # "idle")
              ~> (cli[c].pc = "idle" \/ EncodeHangs(c) \/ OpenedLate(c) \/ NobodyComes(c))
        /\ (cli[c].pc = "blocked" /\ ~OpenedLate(c))
              ~> (cli[c].pc # "blocked" \/ NobodyComes(c))

---------------------------------------------------------------------------
(* What the repository says and the code does not do.                      *)

\* factory.go:37 says of Create: "On error, any partially created container
\* parts are cleaned up (the operation is atomic)".
CreateAtomic ==
    \A c \in Clis : cli[c].cmd = "create" /\ cli[c].pc = "err"
        => dir[cli[c].id] # cli[c].num

\* start.go:48-51 and container_nabla.go:269 answer a container that has
\* stopped or was started with an error: every start returns.
StartReturns ==
    \A c \in Clis : (cli[c].cmd = "start" /\ cli[c].pc # "idle")
                      ~> (cli[c].pc = "idle")

===========================================================================
