------------------------------- MODULE Host -------------------------------
(***************************************************************************)
(* The host that every runnc process shares: the state directories under   *)
(* the runtime root (/run/runnc/<id>/ with state.json, exec.fifo and       *)
(* rootfs.iso), the TAP devices of the host network namespace, the process *)
(* table, and the runnc command processes themselves.  The modules         *)
(* Libcontainer, InitNabla and Runnc add the steps of the processes.       *)
(*                                                                         *)
(* Every path operation of the program resolves /run/runnc/<id> again, so  *)
(* a directory is an inode here: dir[i] is the inode that the path of      *)
(* container i leads to (0: no such path), and file, fifo and iso describe *)
(* the contents of an inode.  The inode number of a directory, and of a    *)
(* fifo, is the serial number of the create command that made it.          *)
(***************************************************************************)
EXTENDS Naturals

CONSTANTS
    Ids,         \* container ids
    NoId,        \* not an id
    Clis,        \* slots for concurrently running runnc commands
    Pids,        \* process ids; 0 is "no process"
    TapOf,       \* the TAP device name nablaTapName derives from an id
    Pause,       \* the ids whose process is the Kubernetes /pause process
    Oversize,    \* the ids whose encoded config the socket pair cannot hold
    Untimed,     \* the ids with a prestart hook that may hang, and no timeout
    Faults,      \* the error paths that may be taken
    Exclusive,   \* commands that callers serialise per container id
    MaxCalls,    \* bound: commands issued
    MaxCreates,  \* bound: create commands issued
    MaxCrashes,  \* bound: commands killed half way
    MaxOthers    \* bound: unrelated processes that take a pid

Commands == {"create", "start", "state", "kill", "delete"}

\* The calls whose failure the program handles (or ignores): reading the
\* bundle, making and chowning directory and fifo, genisoimage, adding the
\* TAP, stdio, encoding the config or fork/exec of init, reading the start
\* time, writing state.json, the pid file, the OOM score, RemoveAll, deleting
\* the TAP, the init process's set up, and nabla-run.
FaultKinds == {"spec", "dir", "iso", "tap", "io", "fork", "starttime", "save",
               "pidfile", "oom", "rm", "tapdel", "setup", "exec"}

ASSUME IdAssumption == NoId \notin Ids
ASSUME PidAssumption == Pids \subseteq Nat \ {0}
ASSUME TapAssumption == DOMAIN TapOf = Ids
ASSUME ChoiceAssumption == /\ Pause \subseteq Ids
                           /\ Oversize \subseteq Ids
                           /\ Untimed \subseteq Ids
                           /\ Faults \subseteq FaultKinds
                           /\ Exclusive \subseteq Commands
ASSUME BoundAssumption == /\ MaxCalls \in Nat
                          /\ MaxCreates \in Nat
                          /\ MaxCrashes \in Nat
                          /\ MaxOthers \in Nat

VARIABLES
    dir,     \* dir[i]: the directory that /run/runnc/i leads to, 0 if none
    file,    \* file[d]: the state.json of directory d
    fifo,    \* fifo[d]: the exec.fifo of directory d, 0 if none
    iso,     \* the directories that hold a rootfs.iso
    taps,    \* the TAP devices in the host network namespace
    byte,    \* the fifos that hold a byte nobody has read
    proc,    \* proc[p]: the process with pid p
    cli,     \* cli[c]: the runnc command running in slot c
    puts,    \* puts[f]: how many init processes wrote to fifo f (history)
    wins,    \* wins[f]: how many starts read the byte of fifo f (history)
    calls, creates, crashes, others    \* the bounded counters

fsVars == <<dir, file, fifo, iso>>
gateVars == <<byte, puts, wins>>
counters == <<calls, creates, crashes, others>>
vars == <<fsVars, taps, gateVars, proc, cli, counters>>

Inodes == 1 .. MaxCreates
Statuses == {"created", "running", "stopped"}

---------------------------------------------------------------------------
(* state.json.  "torn" is the file between os.Create, which truncates it,  *)
(* and the write of the record; pid and status then still tell the last    *)
(* complete record, which no process can read any more.  open is the set   *)
(* of commands that hold the file open for writing.                        *)

NoFile == [kind |-> "none", pid |-> 0, status |-> "stopped", open |-> {}]

Files == [kind : {"none", "torn", "ok"}, pid : Pids \union {0},
          status : Statuses, open : SUBSET Clis]

(* A process.  An init process goes from "setup" (decoding its config,     *)
(* hooks, network) to "opening" (blocked in the open of the fifo at        *)
(* init_nabla.go:148), "writing", "gate" (the fifo is closed, nabla-run    *)
(* not yet executed) and "user"; "zombie" until its parent reaps it.       *)
(* "other" is a process that has nothing to do with runnc.                 *)

InitStates == {"setup", "opening", "writing", "gate", "user"}

NoProc == [st |-> "free", id |-> NoId, root |-> 0, fifo |-> 0]
OtherProc == [NoProc EXCEPT !.st = "other"]

Procs == [st : InitStates \union {"free", "zombie", "other"},
          id : Ids \union {NoId}, root : Inodes \union {0},
          fifo : Inodes \union {0}]

(* A running command: where it is (pc), which command on which id, the     *)
(* in-memory State of its container (pid, status), where to go on after    *)
(* saveState or RemoveAll (ret), the inode it holds open (fd: the root     *)
(* directory for create, the fifo for start), the init process it is the   *)
(* parent of (child), and the serial number of a create (num).             *)

CreateLabels == {"spec", "stat", "mkdir", "mkfifo", "fs", "net", "io",
                 "openroot", "fork", "pidfile", "oom", "terminate"}
LoadLabels == {"load", "probe", "reprobe", "openfifo", "blocked", "read",
               "rmfifo", "signal", "sigkill", "poll"}
SharedLabels == {"saveopen", "savewrite", "destroy", "rm", "rmdir",
                 "netdestroy"}
\* ok and err: the command is about to exit with success or with an error;
\* undone: create is about to exit with an error after destroying what it
\* had made.
EndLabels == {"ok", "err", "undone"}
Labels == {"idle"} \union CreateLabels \union LoadLabels
             \union SharedLabels \union EndLabels

\* Where saveState and RemoveAll return to.
RetLabels == {"idle", "pidfile", "reprobe", "destroy", "rmfifo", "netdestroy",
              "ok", "err"}

IdleCli == [pc |-> "idle", cmd |-> "state", id |-> NoId, pid |-> 0,
            status |-> "stopped", ret |-> "idle", fd |-> 0, child |-> 0,
            num |-> 0]

CliRecords == [pc : Labels, cmd : Commands, id : Ids \union {NoId},
               pid : Pids \union {0}, status : Statuses, ret : RetLabels,
               fd : Inodes \union {0}, child : Pids \union {0},
               num : Inodes \union {0}]

Init == /\ dir = [i \in Ids |-> 0]
        /\ file = [d \in Inodes |-> NoFile]
        /\ fifo = [d \in Inodes |-> 0]
        /\ iso = {}
        /\ taps = {}
        /\ byte = {}
        /\ proc = [p \in Pids |-> NoProc]
        /\ cli = [c \in Clis |-> IdleCli]
        /\ puts = [f \in Inodes |-> 0]
        /\ wins = [f \in Inodes |-> 0]
        /\ calls = 0 /\ creates = 0 /\ crashes = 0 /\ others = 0

---------------------------------------------------------------------------
(* What the kernel does for the program.                                   *)

Goto(c, label) == cli' = [cli EXCEPT ![c].pc = label]

\* What the paths of container i's state.json and exec.fifo lead to.
FileAt(i) == IF dir[i] = 0 THEN NoFile ELSE file[dir[i]]
FifoAt(i) == IF dir[i] = 0 THEN 0 ELSE fifo[dir[i]]

\* What directory d holds.
Entries(d) == {e \in {"file", "fifo", "iso"} :
                 \/ e = "file" /\ file[d].kind # "none"
                 \/ e = "fifo" /\ fifo[d] # 0
                 \/ e = "iso" /\ d \in iso}

\* kill(p, 0) succeeds: on any process, a zombie too, and on pid 0, which
\* means the caller's own process group.
Exists(p) == p # 0 => proc[p].st # "free"

\* The process table after a fatal signal to p.  An init process stays a
\* zombie until it is reaped; an unrelated process is gone.
Killed(p) ==
    [q \in Pids |->
        IF q # p THEN proc[q]
        ELSE CASE proc[q].st \in InitStates -> [proc[q] EXCEPT !.st = "zombie"]
               [] proc[q].st = "other" -> NoProc
               [] OTHER -> proc[q]]

\* A fifo's writers count from the moment they try to open it.
Writers(f) == {p \in Pids : /\ proc[p].st \in {"opening", "writing"}
                            /\ proc[p].fifo = f}

Readers(f) == {c \in Clis : /\ cli[c].pc \in {"blocked", "read"}
                            /\ cli[c].fd = f}

\* A writer's arrival wakes everyone who waits in open(fifo, O_RDONLY).
Woken(f) == [c \in Clis |-> IF cli[c].pc = "blocked" /\ cli[c].fd = f
                            THEN [cli[c] EXCEPT !.pc = "read"]
                            ELSE cli[c]]

\* c closes whatever state.json it holds open.
Closed(c) == [d \in Inodes |-> [file[d] EXCEPT !.open = @ \ {c}]]

===========================================================================
