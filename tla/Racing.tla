------------------------------- MODULE Racing -------------------------------
(***************************************************************************)
(* Why creates that race for one id, or for one TAP name, leave at most    *)
(* one living init process, and leave it its device: what AtMostOneInit    *)
(* and TapHeld need to be inductive.  Nothing locks an id; the TAP device  *)
(* does in effect, because it has at most one owner: the create that added *)
(* it until it has saved the container, then the container on record, then *)
(* the delete that removes it.                                             *)
(***************************************************************************)
EXTENDS Lifetime

\* Container i is on record.
HasRecord(i) == dir[i] # 0 /\ file[dir[i]].kind # "none"

\* A command that owns the TAP device of its container: create from the
\* device to the end of its first save, or until it has removed the device
\* if it fails before; delete once it destroys.
Owning(r) == \/ r.cmd = "create" /\ r.pc \in {"io", "openroot", "fork"} \union SaveLabels
             \/ r.pc \in {"destroy", "netdestroy"}
             \/ r.pc \in {"rm", "rmdir"} /\ r.ret = "netdestroy"

TapOfCli(c) == TapOf[cli[c].id]

---------------------------------------------------------------------------
(* The callers, and the directories.                                       *)

\* delete is alone on its id.
DeleteAlone == \A c, o \in Clis :
    c # o /\ Busy(c) /\ Busy(o) /\ cli[c].id = cli[o].id => cli[c].cmd # "delete"

\* A create that has yet to make its directory has a number nobody uses.
NewDirs == \A c \in Clis : cli[c].pc \in Early =>
    cli[c].num \in 1 .. creates /\ Untouched(cli[c].num)

---------------------------------------------------------------------------
(* A TAP device has one owner.                                             *)

OwnersHaveTap == /\ \A c \in Clis : Owning(cli[c]) => TapOfCli(c) \in taps
                 /\ \A i \in Ids : HasRecord(i) => TapOf[i] \in taps

OneCommand == \A c, o \in Clis :
    c # o /\ Owning(cli[c]) /\ Owning(cli[o]) => TapOfCli(c) # TapOfCli(o)

OneRecord == \A i, j \in Ids :
    HasRecord(i) /\ HasRecord(j) /\ TapOf[i] = TapOf[j] => i = j

\* A command and a record share it only while the one becomes the other.
HandsOver(c) == \/ cli[c].cmd = "create" /\ cli[c].pc = "savewrite"
                \/ cli[c].cmd = "delete" /\ cli[c].pc \in {"destroy", "rm"}

CommandOrRecord == \A c \in Clis, i \in Ids :
    Owning(cli[c]) /\ HasRecord(i) /\ TapOf[i] = TapOfCli(c)
        => i = cli[c].id /\ HandsOver(c)

OneUser == OwnersHaveTap /\ OneCommand /\ OneRecord /\ CommandOrRecord

---------------------------------------------------------------------------
(* What is so when a command is at a label.                                *)

\* A create that has its device has its directory from the fork on, and its
\* record to itself while it saves.
NewOK(c) ==
    /\ cli[c].pc # "terminate"
    /\ cli[c].pc = "fork" => cli[c].fd = dir[cli[c].id]
    /\ cli[c].cmd = "create" /\ cli[c].pc \in SaveLabels =>
         dir[cli[c].id] # 0 /\ cli[c].pid = cli[c].child /\ cli[c].status = "created"
    /\ cli[c].cmd = "create" /\ cli[c].pc = "savewrite" =>
         /\ HasRecord(cli[c].id)
         /\ file[dir[cli[c].id]].pid = 0
         /\ c \in file[dir[cli[c].id]].open

\* A command that has loaded the container has the pid on record, and if it
\* takes it for stopped, it is.
HeldOK(c) ==
    cli[c].cmd # "create" /\ cli[c].pc \in HoldsPid =>
        /\ HasRecord(cli[c].id)
        /\ file[dir[cli[c].id]].pid = cli[c].pid
        /\ cli[c].status = "stopped" => NoneLives(cli[c].id)

\* delete removes only what belongs to a dead process.
KilledOK(c) == cli[c].cmd = "delete" /\ cli[c].pc \in RemoveLabels
                 => NoneLives(cli[c].id)

RaceLabel(c) == NewOK(c) /\ HeldOK(c) /\ KilledOK(c)

---------------------------------------------------------------------------
(* The records and the init processes.                                     *)

\* A file that is not there has no contents, and a record that says Stopped
\* speaks of a dead process.
RaceRecords ==
    /\ \A d \in Inodes : file[d].kind = "none" => file[d] = NoFile
    /\ \A i \in Ids : HasRecord(i) /\ file[dir[i]].pid # 0
                        /\ file[dir[i]].status = "stopped" => NoneLives(i)

\* A living init process belongs to the create that forked it, or is on
\* record.
RaceInits == \A p \in Pids : LiveInit(p) =>
    /\ proc[p].id \in Ids
    /\ \/ Unsaved(p)
       \/ HasRecord(proc[p].id) /\ file[dir[proc[p].id]].pid = p

\* Callers that run delete of an id alone and let every command finish, on a
\* host where a create that has forked its init process succeeds.
Racers == /\ "delete" \in Exclusive
          /\ MaxCrashes = 0
          /\ {"save", "starttime", "pidfile", "oom"} \cap Faults = {}

\* The inductive invariant (with TypeOK and PidKnown) behind AtMostOneInit
\* and TapHeld (factory_nabla.go:104-162, tap_bridge.go:78-100,
\* container_nabla.go:180-250).
RaceInv == /\ Roles /\ DeleteAlone /\ Dirs /\ NewDirs /\ Opens /\ OneUser
           /\ \A c \in Clis : RaceLabel(c)
           /\ RaceRecords /\ RaceInits

===========================================================================
