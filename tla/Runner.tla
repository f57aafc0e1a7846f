------------------------------- MODULE Runner -------------------------------
(***************************************************************************)
(* runner.run, the second half of a create command, opened up: stdio,      *)
(* signals, the socket pair that carries the config, the fork of the init  *)
(* process, state.json, the pid file, the OOM score; with the init process *)
(* it forks, up to the end of its prestart hooks (module Hook).  The       *)
(* caller may send create SIGTERM or SIGKILL at any time, and another      *)
(* command may kill init once state.json names it.                         *)
(***************************************************************************)
EXTENDS Hook

CONSTANTS
    Buffer,    \* what the socket pair holds
    MaxSize    \* bound: the size of the config

ASSUME SizeAssumption == Buffer \in Nat /\ MaxSize \in Nat \ {0}

VARIABLES
    pc,         \* where create is
    size,       \* the size of the encoded config
    notified,   \* signal.Notify has been called
    end,        \* the signal that ended create
    sent,       \* how much of the config is in the socket pair
    child,      \* where the init process is
    state,      \* the container's state.json names init
    tmp,        \* the temporary pid file ".<name>"
    pidfile,    \* the pid file
    past        \* what has gone wrong (history)

createVars == <<pc, notified, end, tmp, pidfile, size, sent, state, past>>
runVars == <<createVars, child, vars>>

Working == {"process", "io", "notify", "root", "encode", "fork", "starttime",
            "save", "pidopen", "pidwrite", "rename", "oom", "terminate", "destroy"}
Over == {"ok", "err", "gone"}
Alive == {"decode", "hooks", "network"}

\* The temporary file may be there from a create that was killed.
RunInit == /\ pc = "process"
           /\ size \in 1 .. MaxSize
           /\ notified = FALSE
           /\ end = "none"
           /\ sent = "none"
           /\ child = "none"
           /\ state = FALSE
           /\ tmp \in {"none", "stale"}
           /\ pidfile \in {"none", "old"}
           /\ past = {}
           /\ Init

---------------------------------------------------------------------------
(* create.                                                                 *)

Goes(from, label) == pc = from /\ pc' = label

\* A call of create that changes nothing the model knows of succeeds,
Passes(from, label) ==
    /\ Goes(from, label)
    /\ UNCHANGED <<notified, end, tmp, pidfile, size, sent, child, state, past, vars>>

\* or fails: kind is remembered, and create goes on at label.
Fails(from, kind, label) ==
    /\ Goes(from, label)
    /\ past' = past \union {kind}
    /\ UNCHANGED <<notified, end, tmp, pidfile, size, sent, child, state, vars>>

\* newProcess, HostUID and HostGID, which do not fail.
NewProcess == Passes("process", "io")

\* setupIO: process.terminal is refused, Fchown of stdio may fail.
SetupIO == Passes("io", "notify") \/ Fails("io", "io", "destroy")

\* Mutant of NewSignalHandler: Notify is left to forward, which create does
\* not call.
NewSignalHandlerLazy == Passes("notify", "root")

\* newSignalHandler: all signals go to a channel, which nobody reads here.
NewSignalHandler ==
    /\ Goes("notify", "root")
    /\ notified' = TRUE
    /\ UNCHANGED <<end, tmp, pidfile, size, sent, child, state, past, vars>>

\* The socket pair, and the container's directory opened for init.
OpenRoot == Passes("root", "encode") \/ Fails("root", "root", "destroy")

\* Mutant of Encode: init is forked while the config is still being written.
EncodeInBackground ==
    /\ Goes("encode", "fork")
    /\ sent' = IF size <= Buffer THEN "all" ELSE "part"
    /\ UNCHANGED <<notified, end, tmp, pidfile, size, child, state, past, vars>>

\* The config goes into the socket pair before there is a process to read
\* it: one that does not fit blocks create in write(2).
Encode ==
    /\ \/ Goes("encode", "fork") /\ size <= Buffer /\ sent' = "all"
       \/ Goes("encode", "encode") /\ size > Buffer /\ sent' = "part"
    /\ UNCHANGED <<notified, end, tmp, pidfile, size, child, state, past, vars>>

StartFork ==
    \/ Fails("fork", "fork", "destroy")
    \/ /\ Goes("fork", "starttime")
       /\ child' = "decode"
       /\ UNCHANGED <<notified, end, tmp, pidfile, size, sent, state, past, vars>>

\* start returns the error with init running, and run only destroys.
StartTime == \/ Passes("starttime", "save")
             \/ Fails("starttime", "starttime", "destroy")

\* Where create goes on: the caller may want no pid file, or no OOM score.
AfterSave == {"pidopen", "oom", "ok"}
AfterPidFile == {"oom", "ok"}

\* saveState, whose error is ignored.
Save == \E l \in AfterSave :
            \/ Fails("save", "save", l)
            \/ /\ Goes("save", l)
               /\ state' = TRUE
               /\ UNCHANGED <<notified, end, tmp, pidfile, size, sent, child,
                              past, vars>>

\* Mutant of PidOpen: the file is written in its place.
PidOpenInPlace ==
    /\ Goes("pidopen", "pidwrite")
    /\ tmp' = "mine"
    /\ pidfile' = "part"
    /\ UNCHANGED <<notified, end, size, sent, child, state, past, vars>>

\* createPidFile: the temporary file must be new (O_EXCL).
PidOpen ==
    \/ Fails("pidopen", "pidopen", "terminate")
    \/ tmp = "stale" /\ Passes("pidopen", "terminate")
    \/ /\ tmp = "none" /\ Goes("pidopen", "pidwrite")
       /\ tmp' = "mine"
       /\ UNCHANGED <<notified, end, pidfile, size, sent, child, state, past, vars>>

\* A write that fails leaves the temporary file behind.
PidWrite == \/ Passes("pidwrite", "rename")
            \/ Fails("pidwrite", "pidwrite", "terminate")

\* So does a rename.
Rename ==
    \/ Fails("rename", "rename", "terminate")
    \/ /\ \E l \in AfterPidFile : Goes("rename", l)
       /\ tmp' = "none"
       /\ pidfile' = "new"
       /\ UNCHANGED <<notified, end, size, sent, child, state, past, vars>>

AdjustOomScore == Passes("oom", "ok") \/ Fails("oom", "oom", "terminate")

\* Mutant of Terminate: init is neither killed nor waited for.
TerminateNothing == Passes("terminate", "destroy")

\* Mutant of Terminate: init is waited for, but not killed.
TerminateWaits ==
    /\ Goes("terminate", "destroy")
    /\ child = "dead"
    /\ child' = "reaped"
    /\ UNCHANGED <<notified, end, tmp, pidfile, size, sent, state, past, vars>>

\* SIGKILL to init alone, not to its hook, and wait.
Terminate ==
    /\ Goes("terminate", "destroy")
    /\ child' = "reaped"
    /\ UNCHANGED <<notified, end, tmp, pidfile, size, sent, state, past, vars>>

\* The container's directory is removed, and state.json with it; nobody is
\* killed.  An error is only logged.
Destroy ==
    \/ Fails("destroy", "destroy", "err")
    \/ /\ Goes("destroy", "err")
       /\ state' = FALSE
       /\ UNCHANGED <<notified, end, tmp, pidfile, size, sent, child, past, vars>>

RunStep == \/ NewProcess \/ SetupIO \/ NewSignalHandler \/ OpenRoot \/ Encode
           \/ StartFork \/ StartTime \/ Save \/ PidOpen \/ PidWrite \/ Rename
           \/ AdjustOomScore \/ Terminate \/ Destroy

\* Until Notify, SIGTERM ends create; from then on it goes unread.  SIGKILL
\* always ends it.
Signalled(s) ==
    /\ pc \in Working /\ pc' = "gone"
    /\ s = "term" => ~notified
    /\ end' = s
    /\ UNCHANGED <<notified, tmp, pidfile, size, sent, child, state, past, vars>>

---------------------------------------------------------------------------
(* The init process.                                                       *)

InitMoves(from, to) == /\ child = from
                       /\ child' = to
                       /\ UNCHANGED <<createVars, vars>>

\* The decoder needs the whole config, no end of file; FsRun and the network
\* namespace follow.
InitDecode == sent = "all" /\ InitMoves("decode", "hooks")

InitRunsHook == /\ child = "hooks"
                /\ RunHook
                /\ UNCHANGED <<createVars, child>>

InitHooksDone == main = "done" /\ InitMoves("hooks", "network")

InitHookFailed == main = "failed" /\ InitMoves("hooks", "dead")

\* A failure anywhere else, or a kill or delete that found state.json.
InitDies == /\ \/ child \in {"decode", "network"}
               \/ child = "hooks" /\ state
            /\ InitMoves(child, "dead")

\* A hook and what it leaves behind do not depend on init: the signal to
\* init does not reach them.
HooksAlone == HookWorld /\ UNCHANGED <<createVars, child>>

InitStep == InitDecode \/ InitRunsHook \/ InitHooksDone \/ InitHookFailed

RunNext == \/ RunStep \/ InitStep \/ InitDies \/ HooksAlone
           \/ \E s \in {"term", "kill"} : Signalled(s)

RunSpec == RunInit /\ [][RunNext]_runVars

\* create and init are scheduled, timers fire.  Hooks owe nothing.
RunFairSpec == /\ RunSpec
               /\ WF_runVars(RunStep)
               /\ WF_runVars(InitDecode \/ InitHooksDone \/ InitHookFailed)
               /\ WF_runVars(InitRunsHook /\ (Start \/ Receive \/ SelectTimer \/ Kill))
               /\ WF_runVars(InitRunsHook /\ TimerFires)

---------------------------------------------------------------------------
(* Properties.                                                             *)

\* The types of the variables, and the hooks wait for their init process.
RunTypeOK == /\ pc \in Working \union Over
             /\ size \in 1 .. MaxSize
             /\ notified \in BOOLEAN
             /\ end \in {"none", "term", "kill"}
             /\ sent \in {"none", "part", "all"}
             /\ child \in Alive \union {"none", "dead", "reaped"}
             /\ state \in BOOLEAN
             /\ tmp \in {"none", "stale", "mine"}
             /\ pidfile \in {"none", "old", "part", "new"}
             /\ past \subseteq {"io", "root", "fork", "starttime", "save", "pidopen",
                                "pidwrite", "rename", "oom", "destroy"}
             /\ TypeOK

\* Whoever reads the pid file reads the pid of an init process whose config
\* was delivered and whose state.json was written or at least tried, or what
\* was there before: no order of steps, no failure and no kill shows half a
\* file (util_runner.go:158-180, container_nabla.go:247).
PidFileWhole ==
    /\ pidfile # "part"
    /\ pidfile = "new" => /\ child # "none"
                          /\ state \/ "save" \in past \/ pc = "err"

\* An init process is never forked before its whole config is on its way,
\* so that killing create cannot leave it waiting for the rest
\* (container_nabla.go:226-231).
ConfigBeforeInit == child # "none" => sent = "all"

\* What a create that fails after the factory leaves behind
\* (util_runner.go:41-94): a running init process only if its start time
\* could not be read, its temporary pid file only if writing or renaming it
\* failed, its pid only if the OOM score could not be set.
FailureLeaves ==
    pc = "err" => /\ child \in Alive => "starttime" \in past
                  /\ tmp = "mine" => past \intersect {"pidwrite", "rename"} # {}
                  /\ pidfile = "new" => "oom" \in past

\* A create that SIGTERM ends leaves what factory.Create had made before
\* newSignalHandler: the directory with its fifo, which a delete removes, and
\* the TAP device, which no command removes then (util_nabla.go:100,
\* delete.go:53).  It leaves no more, though the signal may come at any time:
\* no init process, state.json or pid file (util_signal.go:28-48,
\* util_runner.go:66-94).
TermLeavesNoInit ==
    end = "term" => child = "none" /\ ~state /\ tmp # "mine" /\ pidfile # "new"

\* A config that fits the socket buffer never holds create up, whatever the
\* hooks of its init process do, and whether it has to terminate it or not
\* (container_nabla.go:226-231, util_runner.go:111-114).
CreateEnds == size <= Buffer ~> pc \in Over

\* A hook that has a timeout cannot hold init up, even when it hangs or
\* leaves a child behind that keeps its output open (hooks.go:47-62).
TimedHooksEnd ==
    \A h \in Timed : (child = "hooks" /\ k = h) ~> (k # h \/ child # "hooks")

=============================================================================
