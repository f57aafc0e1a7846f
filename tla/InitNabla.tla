----------------------------- MODULE InitNabla -----------------------------
(***************************************************************************)
(* The init process: the re-executed runtime ("/proc/self/exe init") that  *)
(* prepares the container, waits at the exec fifo until a start command    *)
(* reads from it, and then becomes nabla-run (or, for a Kubernetes pause   *)
(* container, sleeps for ever).  Its file descriptor on the state          *)
(* directory is an inode; the path of the rootfs ISO is a path.            *)
(***************************************************************************)
EXTENDS Host

InitDies(p) == proc' = [proc EXCEPT ![p].st = "zombie"]

\* Set up (decode the config, FsRun, network namespace, hooks, NetworkRun)
\* and arrival at the fifo, which is looked up in the directory the create
\* command had opened.  The arrival wakes the starts that wait in open.  A
\* prestart hook without a timeout may keep init in set-up for ever: Fairness
\* in Runnc does not make this step happen for the ids in Untimed.
InitSetup(p) ==
    /\ proc[p].st = "setup"
    /\ LET f == fifo[proc[p].root]
       IN \/ /\ f = 0
             /\ InitDies(p)
             /\ UNCHANGED cli
          \/ /\ f # 0
             /\ proc' = [proc EXCEPT ![p].st = "opening", ![p].fifo = f]
             /\ cli' = Woken(f)
    /\ UNCHANGED <<fsVars, taps, gateVars, counters>>

\* A hook, the network or the decoding of the config fails.
InitSetupFails(p) ==
    /\ proc[p].st = "setup"
    /\ "setup" \in Faults
    /\ InitDies(p)
    /\ UNCHANGED <<fsVars, taps, gateVars, cli, counters>>

\* open(fifo, O_WRONLY) returns once there is a reader.
InitOpened(p) ==
    /\ proc[p].st = "opening"
    /\ Readers(proc[p].fifo) # {}
    /\ proc' = [proc EXCEPT ![p].st = "writing"]
    /\ UNCHANGED <<fsVars, taps, gateVars, cli, counters>>

\* Mutant of InitWrite: the fifo is not closed after the byte.
InitWriteNoClose(p) ==
    /\ proc[p].st = "writing"
    /\ proc[p].fifo \notin byte
    /\ byte' = byte \union {proc[p].fifo}
    /\ UNCHANGED <<fsVars, taps, puts, wins, proc, cli, counters>>

\* Mutant of InitWrite: the byte goes in whether anybody reads or not.
InitWriteUnchecked(p) ==
    /\ proc[p].st = "writing"
    /\ LET f == proc[p].fifo
       IN  /\ proc' = [proc EXCEPT ![p].st = "gate"]
           /\ byte' = byte \union {f}
           /\ puts' = [puts EXCEPT ![f] = @ + 1]
           /\ UNCHANGED wins
    /\ UNCHANGED <<fsVars, taps, cli, counters>>

\* One byte, then the fifo is closed.  Without a reader the write fails
\* with EPIPE and init exits.
InitWrite(p) ==
    /\ proc[p].st = "writing"
    /\ LET f == proc[p].fifo
       IN \/ /\ Readers(f) = {}
             /\ InitDies(p)
             /\ UNCHANGED gateVars
          \/ /\ Readers(f) # {}
             /\ proc' = [proc EXCEPT ![p].st = "gate"]
             /\ byte' = byte \union {f}
             /\ puts' = [puts EXCEPT ![f] = @ + 1]
             /\ UNCHANGED wins
    /\ UNCHANGED <<fsVars, taps, cli, counters>>

\* A pause container sleeps; any other executes nabla-run on the ISO found
\* at /run/runnc/<id>/rootfs.iso, and exits when that fails.
InitLaunch(p) ==
    /\ proc[p].st = "gate"
    /\ LET i == proc[p].id
       IN \/ /\ i \in Pause \/ dir[i] \in iso
             /\ proc' = [proc EXCEPT ![p].st = "user"]
          \/ /\ i \notin Pause
             /\ dir[i] \notin iso \/ "exec" \in Faults
             /\ InitDies(p)
    /\ UNCHANGED <<fsVars, taps, gateVars, cli, counters>>

\* The unikernel ends.
InitExit(p) ==
    /\ proc[p].st = "user"
    /\ proc[p].id \notin Pause
    /\ InitDies(p)
    /\ UNCHANGED <<fsVars, taps, gateVars, cli, counters>>

\* create never waits for its child, so a dead init stays a zombie until
\* create exits and the process becomes the subreaper's.
Reap(p) ==
    /\ proc[p].st = "zombie"
    /\ \A c \in Clis : cli[c].child # p
    /\ proc' = [proc EXCEPT ![p] = NoProc]
    /\ UNCHANGED <<fsVars, taps, gateVars, cli, counters>>

InitStep(p) == \/ InitSetup(p) \/ InitOpened(p) \/ InitWrite(p)
               \/ InitLaunch(p)

===========================================================================
