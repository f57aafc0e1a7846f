------------------------------ MODULE Lifetime ------------------------------
(***************************************************************************)
(* Why a container's life goes well when create and delete of an id run    *)
(* alone and start, state and kill overlap: what the properties at the end *)
(* of Runnc need to be inductive.  No such property follows from its own   *)
(* previous value; each rests on who may be at which label, on what the    *)
(* path of an id leads to at that label, and on whose pid is on record.    *)
(***************************************************************************)
EXTENDS Runnc

Busy(c) == cli[c].pc # "idle"

\* No living init process belongs to container i, or to directory d.
NoneLives(i) == \A p \in Pids : LiveInit(p) => proc[p].id # i
NoneRooted(d) == \A p \in Pids : LiveInit(p) => proc[p].root # d

---------------------------------------------------------------------------
(* Which command may be where, whatever the callers do.                    *)

SaveLabels == {"saveopen", "savewrite"}
RemoveLabels == {"destroy", "rm", "rmdir", "netdestroy"}

\* Where a command goes on after saveState, and with which status.
SaveRole(r) ==
    \/ r.cmd = "create" /\ r.ret = "pidfile"
    \/ r.cmd = "start" /\ r.ret = "rmfifo" /\ r.status = "running"
    \/ r.cmd = "start" /\ r.ret = "err" /\ r.status = "stopped"
    \/ r.cmd = "state" /\ r.ret \in {"reprobe", "ok"} /\ r.status = "stopped"
    \/ r.cmd = "delete" /\ r.ret = "destroy" /\ r.status = "stopped"

Role(r) ==
    /\ r.pc \in CreateLabels \union {"undone"} => r.cmd = "create"
    /\ r.pc \in LoadLabels => r.cmd # "create"
    /\ r.pc \in {"openfifo", "blocked", "read", "rmfifo"} => r.cmd = "start"
    /\ r.pc \in {"probe", "reprobe"} => r.cmd \in {"start", "state", "delete"}
    /\ r.pc = "signal" => r.cmd = "kill"
    /\ r.pc \in {"sigkill", "poll"} => r.cmd = "delete"
    /\ r.pc \in SaveLabels => SaveRole(r)
    /\ r.pc \in RemoveLabels => r.cmd \in {"create", "delete"}
    /\ r.pc \in {"rm", "rmdir"} => \/ r.ret = "netdestroy"
                                   \/ r.cmd = "delete" /\ r.ret = "err"

Roles == \A c \in Clis : Role(cli[c])

---------------------------------------------------------------------------
(* What the callers give, and the directories.                             *)

\* create and delete are alone on their id.
Alone == \A c, o \in Clis :
            c # o /\ Busy(c) /\ Busy(o) /\ cli[c].id = cli[o].id
                => cli[c].cmd \notin {"create", "delete"}

\* A directory that no create has made yet.
Untouched(d) == /\ file[d] = NoFile
                /\ \A i \in Ids : dir[i] # d

\* create before its directory is made, and from then to its first save.
Early == {"spec", "stat", "mkdir"}
Making == {"mkfifo", "fs", "net", "io", "openroot", "fork", "saveopen"}

Dirs == /\ \A i, j \in Ids : dir[i] = dir[j] /\ dir[i] # 0 => i = j
        /\ \A d \in Inodes : d > creates => Untouched(d)
        /\ \A c, o \in Clis : c # o /\ cli[c].pc \in Early /\ cli[o].pc \in Early
                                => cli[c].num # cli[o].num

\* Only a command that saves its container has state.json open, there where
\* the path leads to.
Opens == \A d \in Inodes : \A c \in file[d].open :
            cli[c].pc = "savewrite" /\ dir[cli[c].id] = d

---------------------------------------------------------------------------
(* What is so when a command is at a label.                                *)

EarlyOK(r) == /\ r.pc \in Early => r.num \in 1 .. creates /\ Untouched(r.num)
              /\ r.pc = "mkdir" => dir[r.id] = 0

\* Up to its first save create has a directory without a record.
MakingOK(r) ==
    /\ r.cmd = "create" /\ r.pc \in Making =>
         dir[r.id] # 0 /\ file[dir[r.id]] = NoFile
    /\ r.pc = "fork" => r.fd = dir[r.id]

\* From the fork on it has the pid of its child, and writes that.
ForkedOK(r) ==
    /\ r.cmd = "create" /\ r.pc \in SaveLabels =>
         r.pid = r.child /\ r.status = "created"
    /\ r.cmd = "create" /\ r.pc = "savewrite" =>
         /\ dir[r.id] # 0
         /\ file[dir[r.id]].pid = 0
         /\ file[dir[r.id]].open # {}
    /\ r.pc \in {"pidfile", "oom", "terminate"} =>
         /\ dir[r.id] # 0
         /\ file[dir[r.id]].pid = r.child

\* A command that has loaded the container has the pid on record, and if it
\* takes it for stopped, it is.
LoadedOK(r) ==
    r.cmd # "create" /\ r.pc \in HoldsPid =>
        /\ dir[r.id] # 0
        /\ file[dir[r.id]].kind # "none"
        /\ file[dir[r.id]].pid = r.pid
        /\ r.status = "stopped" => NoneRooted(dir[r.id])

\* A container is only destroyed when its process is dead.
RemoveOK(r) == r.pc \in RemoveLabels => NoneLives(r.id)

LabelOK(r) == EarlyOK(r) /\ MakingOK(r) /\ ForkedOK(r) /\ LoadedOK(r) /\ RemoveOK(r)

---------------------------------------------------------------------------
(* The records and the init processes.                                     *)

\* A file that is not there has no contents, and a record that says Stopped
\* speaks of a dead process.
Records == \A d \in Inodes :
    /\ file[d].kind = "none" => file[d] = NoFile
    /\ file[d].pid # 0 /\ file[d].status = "stopped" => NoneRooted(d)

\* p has just been forked and is not on record yet.
Unsaved(p) == \E c \in Clis : /\ cli[c].cmd = "create"
                              /\ cli[c].pc \in SaveLabels
                              /\ cli[c].id = proc[p].id
                              /\ cli[c].child = p

\* A living init process is at home, and on record unless it is new.
Inits == \A p \in Pids : LiveInit(p) =>
    /\ proc[p].id \in Ids
    /\ dir[proc[p].id] = proc[p].root
    /\ Unsaved(p) \/ file[proc[p].root].pid = p

\* Callers that run create and delete of an id alone and let every command
\* finish, on a host where the new state.json can be written and the start
\* time of a child can be read.
Careful == /\ {"create", "delete"} \subseteq Exclusive
           /\ MaxCrashes = 0
           /\ "save" \notin Faults /\ "starttime" \notin Faults

LifeInv == /\ Roles /\ Alone /\ Dirs /\ Opens
           /\ \A c \in Clis : LabelOK(cli[c])
           /\ Records /\ Inits

---------------------------------------------------------------------------
(* Nothing is left behind, where what is removed can be removed.           *)

\* RemoveAll and LinkDel do what they are told, and every id has a TAP
\* device name of its own.
CleanHost == /\ "rm" \notin Faults /\ "tapdel" \notin Faults
             /\ \A i, j \in Ids : TapOf[i] = TapOf[j] => i = j

\* destroy proceeds from the entries to the directory to the device.
RemovedOK(r) == /\ r.pc = "rmdir" /\ dir[r.id] # 0 => Entries(dir[r.id]) = {}
                /\ r.pc = "netdestroy" => dir[r.id] = 0

GoneOK(r) == r.pc = "undone" \/ (r.cmd = "delete" /\ r.pc = "ok") =>
                /\ dir[r.id] = 0
                /\ TapOf[r.id] \notin taps
                /\ NoneLives(r.id)

CleanInv == \A c \in Clis : RemovedOK(cli[c]) /\ GoneOK(cli[c])

---------------------------------------------------------------------------
(* And nothing is in the way of the next create, where in addition its     *)
(* steps up to the TAP device succeed.                                     *)

FreshHost == CleanHost /\ {"spec", "dir", "iso", "tap"} \cap Faults = {}

\* A fifo is in the directory of a container.
FifoHome == \A d \in Inodes : fifo[d] # 0 => \E i \in Ids : dir[i] = d

\* A TAP device belongs to a directory, or is about to be removed.
TapHome == \A i \in Ids : TapOf[i] \in taps =>
    \/ dir[i] # 0
    \/ \E c \in Clis : cli[c].id = i /\ cli[c].pc = "netdestroy"

\* A directory has a record, or belongs to a command that gives it one or
\* removes it.
Recorded == \A i \in Ids : dir[i] # 0 =>
    \/ file[dir[i]].kind # "none"
    \/ \E c \in Clis : /\ cli[c].id = i
                       /\ \/ cli[c].cmd = "create" /\ cli[c].pc \in Making \union {"destroy", "rm"}
                          \/ cli[c].pc = "rmdir"

FreshOK(r) ==
    /\ r.cmd = "create" /\ r.pc \in {"mkfifo", "fs", "net"} => TapOf[r.id] \notin taps
    /\ r.pc = "mkfifo" => fifo[dir[r.id]] = 0
    /\ r.cmd = "create" /\ r.pc = "err" => dir[r.id] \notin {0, r.num}
    /\ r.cmd = "delete" /\ r.pc \in {"rm", "rmdir"} /\ r.ret = "err" => dir[r.id] = 0

FreshInv == FifoHome /\ TapHome /\ Recorded /\ \A c \in Clis : FreshOK(cli[c])

---------------------------------------------------------------------------
(* Who has passed the gate.                                                *)

\* A create is at work, and where it is in its own directory.
Creates(r) == r.cmd = "create" /\ r.pc \notin EndLabels \union {"idle"}

\* Creates have numbers of their own, and a directory has the number of the
\* create of its id.
Nums == /\ \A c, o \in Clis : c # o /\ Creates(cli[c]) /\ Creates(cli[o])
                                => cli[c].num # cli[o].num
        /\ \A c \in Clis : Creates(cli[c]) => cli[c].num \in 1 .. creates

OwnOK(r) == Creates(r) => /\ \A i \in Ids : dir[i] = r.num => i = r.id
                          /\ r.pc \notin Early => dir[r.id] \in {0, r.num}

\* A fifo has the number of its directory.
Fifos == /\ \A d \in Inodes : fifo[d] \in {0, d}
         /\ \A p \in Pids : LiveInit(p) => proc[p].fifo \in {0, proc[p].root}

\* No init process of directory d has yet to pass the gate.
PastGate(d) == \A p \in Pids : LiveInit(p) /\ proc[p].root = d => proc[p].st \in {"gate", "user"}

\* A byte is that of the one init process of a directory whose create is over.
Bytes == \A d \in byte : /\ d <= creates
                          /\ PastGate(d)
                          /\ \A c \in Clis : Creates(cli[c]) => cli[c].num # d

\* Nobody passes the gate while its create is at work, and whoever has read
\* a byte knows that the gate is passed.
PassOK(r) ==
    /\ Creates(r) /\ r.pc \notin Early =>
         \A p \in Pids : LiveInit(p) /\ proc[p].id = r.id => proc[p].st \in {"setup", "opening"}
    /\ r.pc \in {"blocked", "read"} => r.fd = dir[r.id]
    /\ r.pc \in SaveLabels /\ r.status = "running" => PastGate(dir[r.id])

PassInv == /\ Nums /\ Fifos /\ Bytes
           /\ \A c \in Clis : OwnOK(cli[c]) /\ PassOK(cli[c])

---------------------------------------------------------------------------
\* All that is known of a container's life, together: the inductive
\* invariant (with TypeOK and PidKnown) behind StoppedMeansDead,
\* NoOrphanInit, DeletedClean, UndoneClean, FreshCreate, StatusForward and
\* ImplementsOci
\* (container_nabla.go:253-402, delete.go:49-94, util_runner.go:41-94).
LifetimeInv == LifeInv /\ CleanInv /\ FreshInv /\ PassInv

===========================================================================
