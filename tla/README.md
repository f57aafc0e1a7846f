# runnc in TLA+

`runnc` is an OCI runtime: `create`, `start`, `state`, `kill` and `delete` are
short-lived processes that share nothing but the host. What ties them together
is a directory `/run/runnc/<id>` (with `state.json`, `exec.fifo`, `rootfs.iso`),
a TAP device, and the *init process* that `create` forks and that later becomes
`nabla-run`. There is no daemon and no lock. This directory models that
machinery, checks it with TLC and proves parts of it with TLAPS. Paths below are
relative to `src/`.

## The system

| Component | State | Operations | Talks to | What is hard | What makes it correct |
|---|---|---|---|---|---|
| Commands (`llcli/create.go`, `start.go`, `state.go`, `kill.go`, `delete.go`, `util_nabla.go`, `util.go`) | the container object in memory | one process per command | factory, container | any two overlap; killed half way | DeletedClean, NoOrphanInit |
| Runner (`llcli/util_runner.go`) | child process, stdio, pid file, OOM score | run, terminate, destroy | container, its caller by signals and the pid file | each step can fail after the container was made; SIGTERM and SIGKILL at any of them | UndoneClean, FreshCreate, FailureLeaves, PidFileWhole |
| Signals (`llcli/util_signal.go`) | a channel nobody reads in create | newSignalHandler; forward, reap (never called) | runner | before Notify a signal kills, after it it is swallowed | TermLeavesNoInit |
| Config pipe (`libcontainer/container_nabla.go:180-250`) | what the socket pair holds | Encode, fork, Decode | create and init | written before there is a reader; one that does not fit blocks create | ConfigBeforeInit, CreateEnds, CommandsEnd |
| Factory (`libcontainer/factory_nabla.go`) | state directory, fifo | Create, Load | Fs, Network and Exec handlers | check-then-act on the directory; nothing undone on error | AtMostOneInit, FreshCreate |
| Container (`libcontainer/container_nabla.go`) | `state.json` (pid, status) | start, exec, destroy, currentState, Signal, saveState | init process by fifo, pid and file | stale state written back, truncate-then-write, pid reuse, pid 0 | StoppedMeansDead, StatusForward, TornOnlyWhileSaving, NoSignalToOwnGroup |
| Init process (`libcontainer/init_nabla.go`, `llcli/init.go`) | set-up progress, fifo | set up, open and write the fifo, launch | start by the fifo; handlers; hooks | handshake with several starts, some of them dying; a hook that holds it in set-up | ImplementsStartGate, OneStartPerGate, CommandsEnd |
| Hooks (`libcontainer/hooks.go`) | hook process, goroutine, channel, timer | runHook | init | timer against exit, reaping and end of output | HooksInOrder, NoHookLeft, TimedHooksEnd |
| ISO handler (`llmodules/fs/iso_storage.go`, `nabla-lib/storage`, `utils/copy.go`) | `rootfs.iso`, the rootfs it copies into | FsCreate, FsRun, FsDestroy, Copy | factory, container, genisoimage | RemoveAll in two halves; a rootfs that creates share; half a copy left behind | DeletedClean, IsoWhole |
| TAP handler (`llmodules/network/tap_bridge.go`, `nabla-lib/network`) | TAP devices, bridge, eth0, `/dev/net/tun` | NetworkCreate, NetworkRun, NetworkDestroy, SetupTunDev | factory, init, container | names cut to 15 characters; several containers in a namespace; a shared device node | TapHeld, ImplementsAddrOwner, ServedConnected, SomeoneServed, RaceHasWinner, DeviceAppears |
| Launcher (`llruntimes/nabla`, `libcontainer/configs/spec.go`) | none | ParseSpec, NewRunncCont, Run, CreateRumprunArgs | init | boundaries and conversions | MemoryGranted |
| Handler interface (`llif`) | none | order of the handlers | factory, container, init | what survives when a later handler fails | FreshCreate, DeletedClean |
| Terminal, exec, labels, errors (`llcli/util_tty.go`, `exec.go`, `utils/slice.go`, `libcontainer/console_nabla.go`, `errors.go`...) | | | | | not modelled, see the end |

`PROJECT.json` lists the hazards at the lines where they bite.

## Modules

* **Host** – the variables that all processes share, the types, and what the
  kernel does. A state directory is an *inode*, named by the number of the
  create that made it, because the program resolves the path anew in every call
  and may find another directory there: `dir[i]` is what the path leads to.
  `file[d]` is `state.json` ("torn" between the truncating `os.Create` and the
  write), `fifo[d]` the fifo, `iso` the directories with an ISO, `proc` the
  process table, `cli` the running commands with their program counter and the
  in-memory `State`. `puts` and `wins` are history variables.
* **Libcontainer** – factory and container: one action per system call that
  other processes can see (stat, mkdir, mkfifo, ISO, TAP; open, fork; truncate,
  write; load, probe; open, read, remove of the fifo; the two halves of
  RemoveAll; LinkDel).
* **InitNabla** – the init process. Set-up is one step here, which a hook without
  a timeout may put off for ever (`MaySetUpForever`).
* **Runnc** – the composition: callers (`Invoke`, `Exit`, `Crash`), the runner,
  kill and delete, unrelated processes that reuse pids, `Spec`, `FairSpec` and
  the properties. **MCRunnc** instantiates it.
* **StartGate** – abstract: what the exec fifo promises, without files, pids or
  commands. `Runnc` maps its fifos, with the commands that have them open, to
  gates, and implements it always (`ImplementsStartGate`).
* **OciContainer** – abstract: the life of a container, absent, creating,
  created, running, stopped. `Phase(i)` in Runnc computes it from directory,
  busy create and init process; Runnc implements it when create and delete run
  alone (`ImplementsOci`).
* **Hook** – the prestart hooks inside init's set-up step.
* **Runner** – extends Hook to the second half of a create, call by call
  (`RunStep`), with the init process up to the end of its hooks (`InitStep`),
  the signals create gets (`Signalled`) and the hooks that outlive init
  (`HooksAlone`). `past` remembers which calls failed.
* **NetRun** – opens up NetworkRun: one action per netlink call, for the init
  processes that share a network namespace. **AddrOwner** is its abstract
  specification: the address is handed to at most one container.
* **TunDev** – SetupTunDev, called by creates, deletes and init processes.
* **Pod** – composes the two: NetRun with the call of SetupTunDev opened up,
  next to processes of other containers in the same `/dev`. **MCPod**.
* **RootfsIso** – createRootfsISO with Copy and genisoimage, for creates that
  may share a rootfs, fail, be killed and be tried again. **MCRootfsIso**.
* **Launch** – from the bundle to the command line of `nabla-run`. **MCLaunch**.
* **Lifetime** – what the properties of a container's life need to be inductive:
  `LifeInv`, `CleanInv`, `FreshInv`, `PassInv` (see "Proofs"). **Racing** – the
  same for creates that race, `RaceInv`: who owns a TAP device when. Neither has
  an action of its own; Racing extends Lifetime and **MCRunnc** extends Racing, so
  that TLC checks these invariants on a small instance too.
* The theorems: **RunncProofs** (whatever the callers do); **LifetimeProofs**,
  **OciProofs** (create and delete alone); **RaceProofs** (delete
  alone, creates race); **PodProofs** (NetRun, TunDev and Pod), **RunnerProofs**
  (Hook and Runner), **LaunchProofs**, **IsoProofs** (RootfsIso).

How they fit together: Runnc is the whole runtime with coarse steps for what
only one process sees; Runner refines what Runnc does between its labels `io`
and `ok` for one create and the first part of `InitSetup`; Pod refines the rest
of `InitSetup`; RootfsIso refines `CreateFs`; Launch computes the outcome of
`InitLaunch`. Between these refinements the correspondence is by the labels and
is not checked; the refinements that are checked are Runnc to StartGate and to
OciContainer, NetRun and Pod to AddrOwner, Pod to NetRun, Runner to Hook.

Definitions whose comment begins with "Mutant of" are faulty variants of the
definition that follows them; no specification uses them. Substituting one must
break the property that `PROJECT.json` names for it, which shows that the
property depends on that piece of code.

### Kernel semantics assumed

* fifo(7): an open for reading waits for a writer and one for writing for a
  reader; the arrival of either releases the other; read sees end of file when
  the last writer is gone; data vanishes with the last reader; a write without
  readers fails.
* kill(2): signal 0 finds zombies; pid 0 is the caller's own process group.
* A dead init process stays a zombie while the create that forked it is alive
  (create never waits except in `terminate`), and is then reaped by the
  subreaper of the caller.
* LinkAdd of an existing TAP fails; LinkDel removes it.
* The JSON record of a container is written by one write(2).
* Deleting the address of an interface removes its routes.

## Runs

All runs of the core use the parameters `Exclusive` (commands that callers do
not overlap with others on the same id, as Docker and containerd do for create
and delete), `Faults` (which error paths may be taken) and bounds on commands,
creates, crashes and unrelated processes.

| Run | Instance | Shows |
|---|---|---|
| lifetime | one id, 3 concurrent commands, 5 calls, 2 creates, one pid that the second container or an unrelated process gets again; create and delete exclusive; faults of the runner and of init | the record stays in step with the init process although state, start and kill overlap and save what they loaded earlier; delete leaves nothing; a torn file is being written; a failed create undoes everything and the id can be used again; all in all, the life of an OCI container. `LifetimeInv` says why, and is what the proofs induct on |
| chaos | 2 commands, 3 calls, 2 creates, all 14 faults, one crash, nothing exclusive | types, pid 0 is never saved or signalled, every successful start answers a byte of its own, and the fifo is a start gate |
| race | two ids with one TAP name, one of them a pause container, 2 commands, 5 calls, 2 creates, only delete exclusive | racing creates give one living init process; nobody's TAP is taken away. `RaceInv` says why, and is what the proof inducts on |
| live | three ids, one with a config that the socket pair cannot hold, one with a hook without a timeout; 2 commands, 4 calls, one create; fair scheduling; faults in the pid file, in set-up and in the launch | every command ends, but for three waits named in the property: create writing that config (`EncodeHangs`), start opening a fifo that init has passed (`OpenedLate`, finding 3), and start at a fifo whose init is dead or held by that hook (`NobodyComes`); a start that is at the fifo in time is released when init comes |
| create | one create with its init process and three hooks, the first and the last with a timeout; a config of 1 or 2 units and a buffer of 1; every call may fail; SIGTERM and SIGKILL at any step; an old pid file and a leftover temporary one | what each end of a create leaves behind, in what order it becomes visible; a config that fits never blocks it; hooks in order, none left behind, timed hooks cannot hold init up |
| iso | two creates on one rootfs, one retry each after a failure or kill; short, long and directory sources over an image's file | the ISO of a successful create holds whole copies of its own files unless another create wrote the same path meanwhile |
| pod | two containers in one namespace, one of them a pause container, one process of another container in the same `/dev`, any initial `/dev`, every call may fail and every process be killed | at most one container gets the address and is connected then; if nothing else goes wrong one does, and when all are through one has. `WinInv` says why, and is what the proof inducts on |
| launch | inputs on both sides of every boundary | the memory argument: never below the floor, above it the limit to the megabyte and no more |
| partial_create, stale_state, start_hangs, pod_app | minimal | each exhibits a disagreement between the code and a comment, see "Findings" |

**Bounds.** Two creates are the least that lets a directory be replaced under a
command that still works with the old one; every known failure of this protocol
needs two creates or fewer. In lifetime three concurrent commands let two starts
meet at one fifo with a third command interfering, and with five calls a
container is created, started, killed, deleted and created again; in race five
calls are two creates and three commands between and after them, and two
commands suffice, because a conflict is between two. Chaos keeps three calls,
which are two creates and a start or a create and two starts, for its many
faults and its crash. One crash and one unrelated process suffice because their
effects are not combined with each other's by any code. In pod two containers
are the largest known conflict, and one outsider can do to `/dev` what more of
them may do first; containers that share a TAP name, and more of them, are
covered by the theorems. What the small instances leave out the theorems on the
same properties make up for: they hold for all values of these bounds.
In create the config is one that fits or one
that does not; three hooks give a first, a middle and a last one. In iso a file
of two blocks is the least that can be half written, and two creates with two
tries each show every overlap of a copy, an ISO and what a killed create left.

**Fairness.** `FairSpec` assumes weak fairness of each command (`CliStep`), each
init process (`InitStep`) and of reaping (`Reap`): these are runnable processes
and the kernel schedules them; the subreaper is the container engine. Nothing is
assumed of callers, crashes, unikernels or unrelated processes, nor of the
failure of init's set-up, nor of the set-up of a container in `Untimed`, whose
prestart hook has no timeout (hooks.go:42-45). That set-up ends for the others
supposes, besides their timers, that the netlink calls return, and that a create
ends supposes that genisoimage does: the code waits for both without a limit. `RunFairSpec` assumes that
create and init are scheduled, goroutines run and timers fire, nothing of hooks,
of signals or of deaths. `PodFairSpec` assumes that an init process, and another
process inside SetupTunDev, is scheduled.

**Deadlock** is not checked: in every model the system comes to rest when the
callers have used up their calls, the create or the launch is over, or all
containers are set up. That something hangs before is what the liveness
properties are for: CommandsEnd, CreateEnds, TimedHooksEnd, SomeoneServed,
DeviceAppears.

## Proofs

All theorems are about every value of the constants: any number of ids,
commands, pids, hooks, processes, and any bounds. The proofs use the named
assumptions of `Host` (`NoId` is not an id, pids are positive, every id has a TAP
name, bounds are natural numbers), `NetRun`, `Pod`, `Hook`, `Runner`, `Launch`
(limits are integers, mask lengths lie in 0..32) and `RootfsIso` (a source is a
file or a directory of files), and, where it is said, one of
the conditions on callers and host below, which stand in the theorem itself.

### Whatever the callers do

* **TypeCorrect**: `Spec => []TypeOK`. It carries facts that later proofs need,
  such as that an init process at the fifo has a fifo inode.
* **SafeSignals**: `Spec => []NoSignalToOwnGroup`. destroy clears the pid in
  memory (container_nabla.go:273), so the property is about control flow: no
  path leads from destroy back to a save or a signal. The inductive invariant
  `PidKnown` says at which labels the pid is known to be non-zero, that the
  record on disk then has one, and that RemoveAll returns only to the network
  handler or to the end.
* **StartsAnswerGates**: `Spec => []OneStartPerGate`. It is inductive with the
  types: a byte is put by one init, taken by one start, and lost in a crash.
* **TornIsTransient**: `Spec => []TornOnlyWhileSaving` if no write of
  `state.json` fails and no command is killed. Inductive with the types.
* **FifoIsStartGate**: `Spec => ImplementsStartGate`. Each action is shown to
  make a command come to at most one fifo, leave it, or leave it alone
  (lemmas on `Readers`, from the label and `fd` of a command), and init's write,
  start's read and the kill of a reader are the three cases that move the token.

### When create and delete of an id run alone

The conditions are named in Lifetime:

* `Careful`: callers do not overlap a create or a delete with another command on
  the same id (start, state and kill may overlap freely), no command is killed,
  a new `state.json` can be written and the start time of a child can be read.
* `CleanHost`: RemoveAll and LinkDel do what they are told (their errors are only
  logged, factory and delete go on), and TAP names are distinct.
* `FreshHost`: also the steps of create up to the TAP device succeed (when they
  fail nothing is undone: finding 1).

They cannot be dropped: for each, "Findings" or "Limits" below names what goes
wrong without it. Every other fault stays possible.

* **LifeGoesWell** (`Careful => (Spec => []LifeInv)`), and from it
  **StoppedIsDead** (StoppedMeansDead) and **InitsAreFound** (NoOrphanInit).
  Neither property is inductive. StoppedMeansDead depends on what a slow state
  or start loaded long ago, so `LifeInv` says of each label what the path of the
  id leads to there and whose pid is on record (`LoadedOK`, `MakingOK`,
  `ForkedOK`); those facts need that a command at that label has a certain role
  (`Roles`) and that nobody replaces its directory (`Alone`, `Dirs`); a torn
  record needs to know who is writing it (`Opens`); and the converse, that a
  living init process is on record unless just forked, is `Inits`.
* **DeleteLeavesNothing** (DeletedClean), **FailedCreateLeavesNothing**
  (UndoneClean), under `Careful /\ CleanHost`, by `CleanInv`: destroy proceeds
  from the entries to the directory to the device, and at each of its labels the
  earlier ones are gone.
* **NextCreateIsFresh** (FreshCreate), under `Careful /\ FreshHost`, by
  `FreshInv`: a fifo is in some container's directory, a TAP device belongs to
  a directory or is about to be removed, and a directory has a record or a
  command that gives it one or removes it. So what create's stat, mkfifo and
  LinkAdd may find is never a remainder.
* **StatusNeverBack** (StatusForward), **LivesLikeOci** (ImplementsOci) under
  `Careful`, by `PassInv`: a byte in the fifo is that of an init process past
  the gate, of a directory whose create is over; a start that has read one may
  say running. For the refinement every action is shown to leave `Phase` of all
  ids alone or to move one of them along OciContainer's `Next`.
* **LifetimeCorrect**: `LifetimeInv`, all four together, as the lifetime run
  checks it.

### When creates race

`Racers`, in Racing, asks less of the callers and more of the host: delete of an
id runs alone, no command is killed, and a create that has forked its init
process succeeds (its record, the start time, the pid file and the OOM score do
not fail). Creates may then race for one id, or for two ids whose TAP names are
cut to the same device name, in any order and with starts, states and kills in
between; everything before the fork may fail, and so may RemoveAll and LinkDel.

* **DeviceHasOneOwner** (`Racers => (Spec => []RaceInv)`), and from it
  **OneInitPerId** (AtMostOneInit) and **InitKeepsTap** (TapHeld). Neither
  property is inductive: nothing in the code locks an id, and os.Stat followed by
  MkdirAll lets two creates of one id through. What keeps them apart is LinkAdd,
  which fails for a device that exists. So `RaceInv` follows the device: from
  LinkAdd until the create has saved the container, or has removed the device
  again, it belongs to that create; then to the container on record; then to the
  delete that removes it (`OneUser`; `HandsOver` names the labels at which a
  record and a command share it). A living init process is on record or belongs to the create that
  forked it (`RaceInits`), hence two of one id would make two owners. That delete
  takes a device from dead processes only needs what a command has loaded to stay
  true (`RaceLabel`, `RaceRecords`).

The condition on failures after the fork is needed, not only by the proof: a slow
state or delete that has loaded the record of a create that failed there writes
Stopped over the record of the next container, whose device a second delete then
removes under a living init process; one id, two commands and two creates are
enough for TapHeld to fail so. And when a create fails at the start time, its
init process is still alive (FailureLeaves).

### The other components

* **OneOwner**: `NetRun` implements `AddrOwner`; **Connected**: a served
  unikernel is connected, its bridge as long as no LinkSetMaster fails. Both rest on `NetInv`:
  while eth0 has its address, hardware address and bridge are untouched and
  nobody owns it; from AddrDel on only its owner works on them; and each label
  tells what has been done (`Stage`, `PortsKnown`).
* **PodImplementsNetRun**: every step of `Pod` is a step of `NetRun` or one of
  `/dev` alone, so OneOwner and Connected hold of a pod; **PodTypes**.
* **SomeoneWins** (RaceHasWinner), the safety half of SomeoneServed: for any number
  of containers and outside processes, TAP names that may be equal, and any
  initial `/dev`. It is not inductive: containers lose three races, for the node,
  for a TAP name and for the address, and the proof has to name who beat them.
  **RaceGoesOn** is `WinInv`: who is too late for mkdir or mknod has somebody at
  mknod before it; a TAP device belongs to a container on its way to AddrDel as
  long as eth0 has its address; and who took the address reaches the end, because
  before that no bridge can be in its way. Each step is first reduced to what it
  does to these races (`TunMoves`, `NetMoves`).
* **HooksCorrect**: `[](HooksInOrder /\ NoHookLeft)` for any number of hooks, by
  `HookInv`: a result in the channel is the status of a hook already reaped.
* **FailuresExplain** (FailureLeaves), **PidFileComesWhole** (PidFileWhole),
  **ConfigComesFirst** (ConfigBeforeInit), **TermIsEarly** (TermLeavesNoInit),
  for any config and buffer size. `CreateInv` says what create has behind it at
  each label (`Progress`) and which failure explains what is left at the end
  (`Leftovers`). **RunnerImplementsHook** carries HooksCorrect over to the hooks
  of a create, **NoHookStays** states NoHookLeft of it; **RunTypes**.
* **MemoryIsGranted**: of every bundle Launch accepts, for any set of limits, by
  `LaunchInv`, which carries the result of ParseSpec through the stages. The arithmetic of the rounding is a lemma on
  `Memory` by itself.

* **IsoIsWhole** (IsoWhole) and **IsoTypes**, for any number of creates, root file
  systems, mounts and blocks, by `IsoInv`: what a create has copied stays there
  until its ISO is made, unless a later mount of its own goes to the same path
  or another create writes it (`CopiesStay`); the file it writes has the blocks
  written so far (`WritesInOrder`); the ISO has what was there (`ReadsCopies`);
  and creates that work in one rootfs know of each other (`Meet`).

### Only model-checked

Liveness (CommandsEnd, CreateEnds, TimedHooksEnd, SomeoneServed, DeviceAppears) is out of the prover's reach. What is proved of SomeoneServed is
that the states in which it would have failed, all containers through and none
served, are not reachable (SomeoneWins). Every invariant and every action
property of a passing run is stated by a theorem.

## Findings

Shown by a run:

1. *partial_create*: Create is documented as atomic (factory.go:37) and leaves
   directory and fifo behind when a handler fails; the id is then refused as
   existing.
2. *stale_state*: a slow state or delete writes Stopped over the record of the
   container created after it under the same id (container_nabla.go:379).
3. *start_hangs*: of two starts that saw Created, one may open the fifo after
   init has closed it and never return (container_nabla.go:254).
4. *pod_app*: the pause container takes the pod's address (init_nabla.go:140),
   so the application container cannot have it.

Built into the models and visible in their definitions, without a run:

* destroy removes the state directory before the TAP device (`Destroy`,
  `NetworkDestroy`); llif.go:20-22 documents the reverse order. A delete that
  stops in between leaks a device that nothing records.
* Signal does not compare the start time it recorded, so it reaches whatever
  process has the pid now (`Signal`, `Killed`).
* The slower of two creators of `/dev/net/tun` fails although the device is
  there (`MkdirNet`, `Mknod`).
* verifyTunDevice is documented to check for the char device 10:200
  (network_linux.go:396) and compares the device number only, so a block device
  of that number passes and LinkAdd fails instead (`VerifyTunDevice`, `TunMissing`
  in Pod).
* The unikernel gets a /32 as a /1 and a mask of 0 as it is (`RumpMask`). The
  repository knows: its README.md:90 says that /32 is not properly handled, and
  rumprun.go:110-112 hopes for peers in the same subnet and works on mask 0.
* A config larger than the socket buffer blocks create for ever, because it is
  written before init is forked (`Encode`, `EncodeHangs`).
* Errors of LinkSetMaster are dropped (`LinkSetMaster`), so a unikernel may be
  launched that is not on the bridge.
* Ids of 8 to 11 characters pass the length test of nablaTapName and make create
  panic on the slice (`TapNamePanics`); the example id of kill.go:77 has 8.
* The hardware address of eth0 never reaches `nabla-run`: Run tests a local
  variable that nobody assigns (`Run` in Launch, runnc_cont.go:137).
* create refuses nothing and cleans nothing when its temporary pid file is in the
  way: a create that failed or was killed between open and rename makes every
  later one with the same pid file fail (`PidOpen`).
* When the OOM score cannot be set the pid file stays and names a process that
  is gone (`AdjustOomScore`; third part of FailureLeaves).
* Before newSignalHandler SIGTERM ends create and leaves the directory and the TAP
  device that the factory has made (util_nabla.go:100); delete then removes the
  directory only. From newSignalHandler on create ignores SIGTERM, because nobody
  reads the channel (`Signalled`). TermLeavesNoInit says where the line runs.
* A hook that runs when its init process is killed goes on without its timer
  (`HooksAlone`): init has a process group of its own, and kill, delete and
  terminate signal init alone.
* container.go:147 says Destroy "Destroys the container after killing all
  running processes"; `destroy` kills nothing, which is why a create whose start
  time cannot be read leaves init running (first part of FailureLeaves).
* What creates copy into a shared rootfs stays there: a container of the same
  bundle that does not mount `/etc/hosts` gets the copy, or the half copy, of an
  earlier one (`OpenFile`, `ReadFile`).

Limits of what holds, found on the way: with a crash between fork and save an
init process exists that no command can find (NoOrphanInit is checked without
crashes); an aborted create leaves its TAP device, so the id cannot be created
again (FreshCreate is checked without failures inside the factory); and the
errors of RemoveAll and LinkDel are only logged, so delete may report success
with both left (DeletedClean is checked without them).

## Left out

* Ids are long enough to have a TAP name in the core model; Launch has the short
  ones. `kill --all` signals init's process group, which for the init process is
  the same. Flags, names and formats are abstracted to success or failure, file
  modes are left out.
* `forward` and `reap` (`util_signal.go:62-128`), `createTty` and
  `createStdioPipes` (`util_tty.go`), `console_nabla.go` and InitializeIO
  (`process_nabla.go`) are never reached: create is always detached and has no
  `--console`, and there is no run command. Modelling them would show nothing
  about this program. `exec` returns "not implemented".
* The macvtap functions of `network_linux.go:112-249` have no caller.
* Moving into the network namespace, which `runtime.LockOSThread`
  (`llcli/init.go:32`) makes safe, is one step that succeeds or kills init.
* A killed create's genisoimage is over before the id is created again, and
  sources do not change while they are copied.
* `parseSignal`, `utils/slice.go`, error codes and their text, and stats are pure.

## State of the work

The core protocol with its two abstract specifications, create call by call with
hooks and signals, rootfs and ISO, network and device node, launch arguments, and
the theorems above are done. Every safety and action property that a run checks
is proved. Open:

1. The correspondence of labels between Runnc and Runner, as a refinement: a
   create of Runner mapped to the labels `io` to `ok` of one of Runnc.
2. What OneInitPerId alone, without TapHeld, tolerates of the faults after the
   fork.
3. Coverage: the parts of the factory that the core takes as one step.
