---------------------------- MODULE Libcontainer ----------------------------
(***************************************************************************)
(* libcontainer: the factory (Create, Load) and the container object       *)
(* (start, exec, destroy, currentState, saveState), one action per effect  *)
(* on the shared host.  The in-memory State of a container lives in the    *)
(* process of the command, cli[c].                                         *)
(***************************************************************************)
EXTENDS Host

---------------------------------------------------------------------------
(* NablaFactory.Create, with the Fs and Network handlers it calls.         *)

\* An id that is in use is refused.
CreateStat(c) ==
    /\ cli[c].pc = "stat"
    /\ \/ dir[cli[c].id] # 0 /\ Goto(c, "err")
       \/ dir[cli[c].id] = 0 /\ Goto(c, "mkdir")
    /\ UNCHANGED <<fsVars, taps, gateVars, proc, counters>>

\* os.MkdirAll succeeds on a directory that is already there.
CreateMkdir(c) ==
    /\ cli[c].pc = "mkdir"
    /\ \/ /\ dir' = IF dir[cli[c].id] = 0
                    THEN [dir EXCEPT ![cli[c].id] = cli[c].num] ELSE dir
          /\ Goto(c, "mkfifo")
       \/ /\ "dir" \in Faults
          /\ Goto(c, "err")
          /\ UNCHANGED dir
    /\ UNCHANGED <<file, fifo, iso, taps, gateVars, proc, counters>>

\* The directory is chowned; mkfifo fails if the fifo is there (EEXIST) or
\* the directory is not; the fifo is chowned.  A failure undoes nothing.
CreateMkfifo(c) ==
    /\ cli[c].pc = "mkfifo"
    /\ LET d == dir[cli[c].id]
       IN \/ /\ d = 0 \/ FifoAt(cli[c].id) # 0 \/ "dir" \in Faults
             /\ Goto(c, "err")
             /\ UNCHANGED fifo
          \/ /\ d # 0 /\ FifoAt(cli[c].id) = 0
             /\ fifo' = [fifo EXCEPT ![d] = cli[c].num]
             /\ \/ Goto(c, "fs")
                \/ "dir" \in Faults /\ Goto(c, "err")
    /\ UNCHANGED <<dir, file, iso, taps, gateVars, proc, counters>>

\* FsCreateFunc writes rootfs.iso, except for a pause container.  Its
\* failure leaves the directory and the fifo behind.
CreateFs(c) ==
    /\ cli[c].pc = "fs"
    /\ LET d == dir[cli[c].id]
       IN \/ /\ cli[c].id \in Pause
             /\ Goto(c, "net")
             /\ UNCHANGED iso
          \/ /\ cli[c].id \notin Pause /\ (d = 0 \/ "iso" \in Faults)
             /\ Goto(c, "err")
             /\ UNCHANGED iso
          \/ /\ cli[c].id \notin Pause /\ d # 0
             /\ iso' = iso \union {d}
             /\ Goto(c, "net")
    /\ UNCHANGED <<dir, file, fifo, taps, gateVars, proc, counters>>

\* Mutant of CreateNet: a device that is there is used.
CreateNetReuses(c) ==
    /\ cli[c].pc = "net"
    /\ taps' = taps \union {TapOf[cli[c].id]}
    /\ Goto(c, "io")
    /\ UNCHANGED <<fsVars, gateVars, proc, counters>>

\* Mutant of CreateNet: a failure destroys the container, TAP and all.
CreateNetUndoes(c) ==
    /\ cli[c].pc = "net"
    /\ LET t == TapOf[cli[c].id]
       IN /\ taps' = taps \union {t}
          /\ Goto(c, IF t \in taps THEN "destroy" ELSE "io")
    /\ UNCHANGED <<fsVars, gateVars, proc, counters>>

\* NetworkCreateFunc: LinkAdd fails if the device is there, LinkSetUp may
\* fail after it was added; neither failure undoes anything.
CreateNet(c) ==
    /\ cli[c].pc = "net"
    /\ LET t == TapOf[cli[c].id]
       IN \/ /\ t \in taps \/ "tap" \in Faults
             /\ Goto(c, "err")
             /\ UNCHANGED taps
          \/ /\ t \notin taps /\ "tap" \in Faults
             /\ Goto(c, "err")
             /\ taps' = taps \union {t}
          \/ /\ t \notin taps
             /\ Goto(c, "io")
             /\ taps' = taps \union {t}
    /\ UNCHANGED <<fsVars, gateVars, proc, counters>>

---------------------------------------------------------------------------
(* nablaContainer.start: the init process.                                 *)

\* The state directory is opened for init, by path.
StartOpenRoot(c) ==
    /\ cli[c].pc = "openroot"
    /\ LET d == dir[cli[c].id]
       IN \/ d = 0 /\ Goto(c, "destroy")
          \/ /\ d # 0
             /\ cli' = [cli EXCEPT ![c].pc = "fork", ![c].fd = d]
    /\ UNCHANGED <<fsVars, taps, gateVars, proc, counters>>

\* The init process that c forks.
NewInit(c) == [st |-> "setup", id |-> cli[c].id, root |-> cli[c].fd, fifo |-> 0]

\* Mutant of Forked: the status stays what factory.Create set it to.
ForkedStillStopped(r, p, label) ==
    [r EXCEPT !.pc = label, !.ret = "pidfile", !.pid = p, !.child = p]

\* The parent after the fork: pid and status of its in-memory state, and
\* where it goes on.
Forked(r, p, label) ==
    [r EXCEPT !.pc = label, !.ret = "pidfile", !.pid = p, !.child = p,
              !.status = "created"]

\* The config is encoded into the socket pair, then cmd.Start, and the new
\* pid in the in-memory state.  Nobody reads the pair before the fork, so a
\* config that it cannot hold blocks create here for ever.  When the start
\* time cannot be read the error is returned with the child running.
StartFork(c) ==
    /\ cli[c].pc = "fork"
    /\ cli[c].id \notin Oversize
    /\ \/ /\ "fork" \in Faults \/ \A p \in Pids : proc[p].st # "free"
          /\ Goto(c, "destroy")
          /\ UNCHANGED proc
       \/ \E p \in Pids :
            /\ proc[p].st = "free"
            /\ proc' = [proc EXCEPT ![p] = NewInit(c)]
            /\ \/ cli' = [cli EXCEPT ![c] = Forked(cli[c], p, "saveopen")]
               \/ /\ "starttime" \in Faults
                  /\ cli' = [cli EXCEPT ![c] = Forked(cli[c], p, "destroy")]
    /\ UNCHANGED <<fsVars, taps, gateVars, counters>>

---------------------------------------------------------------------------
(* saveState: os.Create truncates the file, then one write fills it.  No   *)
(* caller looks at its error.                                              *)

SaveOpen(c) ==
    /\ cli[c].pc = "saveopen"
    /\ LET d == dir[cli[c].id]
       IN \/ /\ d = 0
             /\ Goto(c, cli[c].ret)
             /\ UNCHANGED file
          \/ /\ d # 0
             /\ file' = [file EXCEPT ![d].kind = "torn",
                                     ![d].open = @ \union {c}]
             /\ Goto(c, "savewrite")
    /\ UNCHANGED <<dir, fifo, iso, taps, gateVars, proc, counters>>

\* Mutant of Written: the status is encoded with the wrong constant.
WrittenOffByOne(c) ==
    [d \in Inodes |->
        IF c \in file[d].open
        THEN [kind |-> "ok", pid |-> cli[c].pid, status |-> "paused",
              open |-> file[d].open \ {c}]
        ELSE file[d]]

\* Mutant of Written: nothing is written when the record has not changed,
\* although os.Create has truncated the file by then.
WrittenIfChanged(c) ==
    [d \in Inodes |->
        IF c \in file[d].open
        THEN IF file[d].pid = cli[c].pid /\ file[d].status = cli[c].status
             THEN [file[d] EXCEPT !.open = @ \ {c}]
             ELSE [kind |-> "ok", pid |-> cli[c].pid, status |-> cli[c].status,
                   open |-> file[d].open \ {c}]
        ELSE file[d]]

\* The record c writes, where it still has the file open.
Written(c) ==
    [d \in Inodes |->
        IF c \in file[d].open
        THEN [kind |-> "ok", pid |-> cli[c].pid, status |-> cli[c].status,
              open |-> file[d].open \ {c}]
        ELSE file[d]]

SaveWrite(c) ==
    /\ cli[c].pc = "savewrite"
    /\ \/ file' = Written(c)
       \/ "save" \in Faults /\ file' = Closed(c)
    /\ Goto(c, cli[c].ret)
    /\ UNCHANGED <<dir, fifo, iso, taps, gateVars, proc, counters>>

---------------------------------------------------------------------------
(* NablaFactory.Load and currentState.                                     *)

\* Where a command goes once loadState has decoded the file.
AfterLoad(m) == IF m = "kill" THEN "signal" ELSE "probe"

\* A missing file is ContainerNotExists, for which delete removes the
\* directory; a torn one is an error for every command.
Load(c) ==
    /\ cli[c].pc = "load"
    /\ LET state == FileAt(cli[c].id)
       IN \/ /\ state.kind = "none" /\ cli[c].cmd = "delete"
             /\ cli' = [cli EXCEPT ![c].pc = "rm", ![c].ret = "err"]
          \/ /\ state.kind = "none" /\ cli[c].cmd # "delete"
             /\ Goto(c, "err")
          \/ /\ state.kind = "torn"
             /\ Goto(c, "err")
          \/ /\ state.kind = "ok"
             /\ cli' = [cli EXCEPT ![c].pc = AfterLoad(cli[c].cmd),
                                   ![c].pid = state.pid,
                                   ![c].status = state.status]
    /\ UNCHANGED <<fsVars, taps, gateVars, proc, counters>>

\* What start, state and delete do with the status that currentStatus
\* returned: the labels they may go to.
StartSwitch(status) == IF status = "created" THEN {"openfifo"} ELSE {"err"}

\* state asks twice, for the State and for the Status.
StateSwitch(pc) == IF pc = "probe" THEN {"reprobe"} ELSE {"ok"}

\* Mutant of DeleteSwitch: a created container is destroyed without
\* killing its init process.
DeleteSwitchNoKill(status) ==
    IF status = "running" THEN {"sigkill", "err"} ELSE {"destroy"}

\* A running container is only deleted with --force.
DeleteSwitch(status) == CASE status = "stopped" -> {"destroy"}
                          [] status = "created" -> {"sigkill"}
                          [] OTHER -> {"sigkill", "err"}

AfterStatus(r, status) == CASE r.cmd = "start" -> StartSwitch(status)
                            [] r.cmd = "state" -> StateSwitch(r.pc)
                            [] OTHER -> DeleteSwitch(status)

\* currentState: signal 0 to the recorded pid; if nobody is there the
\* container is Stopped, and that is saved.
Probe(c) ==
    /\ cli[c].pc \in {"probe", "reprobe"}
    /\ \/ /\ Exists(cli[c].pid)
          /\ \E l \in AfterStatus(cli[c], cli[c].status) : Goto(c, l)
       \/ /\ ~Exists(cli[c].pid)
          /\ \E l \in AfterStatus(cli[c], "stopped") :
               cli' = [cli EXCEPT ![c].pc = "saveopen", ![c].ret = l,
                                  ![c].status = "stopped"]
    /\ UNCHANGED <<fsVars, taps, gateVars, proc, counters>>

---------------------------------------------------------------------------
(* nablaContainer.exec: the start command at the fifo.                     *)

\* open(fifo, O_RDONLY) waits until the fifo has a writer.
ExecOpen(c) ==
    /\ cli[c].pc = "openfifo"
    /\ LET f == FifoAt(cli[c].id)
       IN \/ /\ f = 0
             /\ Goto(c, "err")
          \/ /\ f # 0
             /\ cli' = [cli EXCEPT ![c].fd = f,
                          ![c].pc = IF Writers(f) = {} THEN "blocked" ELSE "read"]
    /\ UNCHANGED <<fsVars, taps, gateVars, proc, counters>>

\* Mutant of Started: the status in memory is not set.
StartedUnset(r) == [r EXCEPT !.pc = "saveopen", !.ret = "rmfifo"]

\* A start that got the byte saves the container as Running.
Started(r) == [r EXCEPT !.pc = "saveopen", !.ret = "rmfifo", !.status = "running"]

\* Mutant of ExecRead: the length of the data is not looked at.
ExecReadUnchecked(c) ==
    /\ cli[c].pc = "read"
    /\ Writers(cli[c].fd) = {}
    /\ byte' = byte \ {cli[c].fd}
    /\ wins' = [wins EXCEPT ![cli[c].fd] = @ + 1]
    /\ cli' = [cli EXCEPT ![c] = Started(cli[c])]
    /\ UNCHANGED <<fsVars, taps, puts, proc, counters>>

\* ReadAll returns when the last writer is gone.  With a byte the container
\* is Running, and that is saved; without one it was started before.
ExecRead(c) ==
    /\ cli[c].pc = "read"
    /\ LET f == cli[c].fd
       IN /\ Writers(f) = {}
          /\ \/ /\ f \in byte
                /\ byte' = byte \ {f}
                /\ wins' = [wins EXCEPT ![f] = @ + 1]
                /\ cli' = [cli EXCEPT ![c] = Started(cli[c])]
             \/ /\ f \notin byte
                /\ Goto(c, "err")
                /\ UNCHANGED <<byte, wins>>
    /\ UNCHANGED <<fsVars, taps, puts, proc, counters>>

\* os.Remove of the fifo's path, whatever it now leads to.
ExecRemove(c) ==
    /\ cli[c].pc = "rmfifo"
    /\ LET d == dir[cli[c].id]
       IN fifo' = IF d = 0 THEN fifo ELSE [fifo EXCEPT ![d] = 0]
    /\ Goto(c, "ok")
    /\ UNCHANGED <<dir, file, iso, taps, gateVars, proc, counters>>

---------------------------------------------------------------------------
(* nablaContainer.destroy: ExecDestroyFunc does nothing, FsDestroyFunc     *)
(* removes the directory, NetworkDestroyFunc the TAP.  Its callers only    *)
(* log its error.                                                          *)

\* Where a command ends after destroy, failed or not.
AfterDestroy(r) == IF r.cmd = "create" THEN "undone" ELSE "ok"

\* Mutant of Destroy: the stopped state is saved.
DestroySaves(c) ==
    /\ cli[c].pc = "destroy"
    /\ cli' = [cli EXCEPT ![c].pc = "saveopen", ![c].ret = "netdestroy",
                          ![c].pid = 0, ![c].status = "stopped"]
    /\ UNCHANGED <<fsVars, taps, gateVars, proc, counters>>

Destroy(c) ==
    /\ cli[c].pc = "destroy"
    /\ cli' = [cli EXCEPT ![c].pc = "rm", ![c].ret = "netdestroy",
                          ![c].pid = 0, ![c].status = "stopped"]
    /\ UNCHANGED <<fsVars, taps, gateVars, proc, counters>>

\* Where a command goes when RemoveAll fails: destroy returns at once, the
\* RemoveAll of a delete without a state.json is followed by its error.
AfterRmFailure(r) == IF r.ret = "netdestroy" THEN AfterDestroy(r) ELSE r.ret

\* The unlinking half of os.RemoveAll.  kept is what could not be unlinked.
RemoveEntries(c, kept) ==
    /\ cli[c].pc = "rm"
    /\ LET d == dir[cli[c].id]
       IN \/ /\ d = 0
             /\ kept = {}
             /\ Goto(c, cli[c].ret)
             /\ UNCHANGED <<file, fifo, iso>>
          \/ /\ d # 0
             /\ kept = {} \/ (kept \subseteq Entries(d) /\ "rm" \in Faults)
             /\ file' = IF "file" \in kept THEN file
                        ELSE [file EXCEPT ![d] = NoFile]
             /\ fifo' = IF "fifo" \in kept THEN fifo ELSE [fifo EXCEPT ![d] = 0]
             /\ iso' = IF "iso" \in kept THEN iso ELSE iso \ {d}
             /\ Goto(c, IF kept = {} THEN "rmdir" ELSE AfterRmFailure(cli[c]))
    /\ UNCHANGED <<dir, taps, gateVars, proc, counters>>

\* The last rmdir of os.RemoveAll fails on a directory that is not empty.
Rmdir(c) ==
    /\ cli[c].pc = "rmdir"
    /\ LET d == dir[cli[c].id]
       IN \/ /\ d # 0 /\ Entries(d) # {}
             /\ Goto(c, AfterRmFailure(cli[c]))
             /\ UNCHANGED dir
          \/ /\ d # 0 => Entries(d) = {}
             /\ dir' = [dir EXCEPT ![cli[c].id] = 0]
             /\ Goto(c, cli[c].ret)
    /\ UNCHANGED <<file, fifo, iso, taps, gateVars, proc, counters>>

\* Mutant of NetworkDestroy: the TAP stays.
NetworkDestroyNothing(c) ==
    /\ cli[c].pc = "netdestroy"
    /\ Goto(c, AfterDestroy(cli[c]))
    /\ UNCHANGED <<fsVars, taps, gateVars, proc, counters>>

\* Mutant of NetworkDestroy: a failed create keeps its TAP.
NetworkDestroyOnDelete(c) ==
    /\ cli[c].pc = "netdestroy"
    /\ taps' = IF cli[c].cmd = "delete" THEN taps \ {TapOf[cli[c].id]} ELSE taps
    /\ Goto(c, AfterDestroy(cli[c]))
    /\ UNCHANGED <<fsVars, gateVars, proc, counters>>

\* NetworkDestroyFunc: LinkDel, whose error is logged like the others.
NetworkDestroy(c) ==
    /\ cli[c].pc = "netdestroy"
    /\ \/ taps' = taps \ {TapOf[cli[c].id]}
       \/ "tapdel" \in Faults /\ UNCHANGED taps
    /\ Goto(c, AfterDestroy(cli[c]))
    /\ UNCHANGED <<fsVars, gateVars, proc, counters>>

===========================================================================
