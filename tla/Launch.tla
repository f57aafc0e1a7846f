------------------------------- MODULE Launch -------------------------------
(***************************************************************************)
(* From the OCI bundle to the command line of nabla-run: ParseSpec and     *)
(* nablaTapName in the create command, then, in the init process, what     *)
(* NetworkRunFunc hands over, ExecRunFunc, NewRunncCont, Run and           *)
(* CreateRumprunArgs.  A behaviour follows one container, whose inputs are *)
(* chosen at the start.                                                    *)
(***************************************************************************)
EXTENDS Integers, Sequences

CONSTANTS
    IdLengths,   \* lengths of container ids
    Limits,      \* memory limits in bytes; "unset" is NoLimit
    NoLimit,
    Masks,       \* prefix lengths of eth0's address
    EnvLists     \* process environments: sequences of entries, "" is empty

ASSUME LaunchAssumption == Limits \subseteq Int /\ Masks \subseteq 0 .. 32

ContainerMemoryMinimum == 512
MiB == 1048576
IFNAMSIZ == 16

\* What the inputs can be.  args: the entry point, nil when the bundle has
\* none; disk: what the path of the ISO leads to when init runs; gw: the
\* gateway of eth0's first route; hw: eth0's hardware address.
Inputs == [idlen : IdLengths, limit : Limits \union {NoLimit}, mask : Masks,
           args : {"nil", "empty", "pause", "nabla", "other"},
           gw : {"gateway", "nil"}, hw : {"none", "mac"},
           disk : {"file", "dir", "missing"}, kernel : BOOLEAN,
           env : EnvLists]

VARIABLES in, stage, cont, argv

vars == <<in, stage, cont, argv>>

\* cont: what the stages so far have computed ("none" is the empty string,
\* zero as in Go); argv: the command line of nabla-run.
NoCont == [memory |-> 0, tap |-> 0, ip |-> "none", mask |-> 0, gw |-> "none",
           mac |-> "none"]
NoArgv == [mem |-> 0, net |-> 0, netMac |-> "none", addr |-> "none", mask |-> 0,
           gw |-> "none", env |-> <<>>]

Init == /\ in \in Inputs
        /\ stage = "spec"
        /\ cont = NoCont
        /\ argv = NoArgv

---------------------------------------------------------------------------
(* The functions of the program.                                           *)

\* Go's division truncates towards zero.
Quo(a, b) == IF a < 0 THEN -((-a) \div b) ELSE a \div b

\* Mutant of Memory: there is no floor.
MemoryNoFloor(limit) == IF limit = NoLimit THEN 0 ELSE Quo(limit, MiB)

\* Memory for nabla-run, in MB.
Memory(limit) ==
    LET memory == IF limit = NoLimit THEN 0 ELSE Quo(limit, MiB)
    IN IF memory < ContainerMemoryMinimum THEN ContainerMemoryMinimum ELSE memory

\* nablaTapName of an id of n characters: it panics on the length test or on
\* the slice bounds; otherwise the name has 15 characters.
TapNamePanics(n) == n < 8 \/ 3 + n < IFNAMSIZ - 1

\* CreateRumprunArgs passes a /32 as a /1 and hopes that the peers are in that
\* subnet (issue 40); a mask of 0, not handled either, is passed as it is.
RumpMask(mask) == IF mask = 32 THEN 1 ELSE mask

\* MarshalJSON writes an "env" member for every entry before the others; an
\* empty entry leaves a lone comma, which encoding/json then rejects.
MarshalFails(env) == \E j \in 1 .. Len(env) : env[j] = ""

---------------------------------------------------------------------------
(* The stages.                                                             *)

Fail == stage' = "failed" /\ UNCHANGED <<in, cont, argv>>

\* create: ParseSpec, with the early return for missing arguments.
ParseSpec ==
    /\ stage = "spec"
    /\ \/ in.args = "nil" /\ Fail
       \/ /\ in.args # "nil"
          /\ stage' = "tapname"
          /\ cont' = [cont EXCEPT !.memory = Memory(in.limit)]
          /\ UNCHANGED <<in, argv>>

\* create: NetworkCreateFunc names the TAP device.
NablaTapName ==
    /\ stage = "tapname"
    /\ \/ /\ TapNamePanics(in.idlen)
          /\ stage' = "panic"
          /\ UNCHANGED <<in, cont, argv>>
       \/ /\ ~TapNamePanics(in.idlen)
          /\ stage' = "net"
          /\ cont' = [cont EXCEPT !.tap = IFNAMSIZ - 1]
          /\ UNCHANGED <<in, argv>>

\* init: the options that NetworkRunFunc returns; a nil gateway is printed
\* as the string "<nil>", which is no address.
NetworkRun ==
    /\ stage = "net"
    /\ stage' = "gate"
    /\ cont' = [cont EXCEPT !.ip = "address", !.mask = in.mask, !.mac = in.hw,
                            !.gw = IF in.gw = "nil" THEN "nilString" ELSE in.gw]
    /\ UNCHANGED <<in, argv>>

\* init: past the exec fifo, the pause container sleeps.
PauseCheck ==
    /\ stage = "gate"
    /\ stage' = IF in.args = "pause" THEN "paused" ELSE "exec"
    /\ UNCHANGED <<in, cont, argv>>

\* newRunncCont and NewRunncCont: the entry point ends in .nabla, the
\* network arguments are there and can be parsed.
NewRunncCont ==
    /\ stage = "exec"
    /\ LET good == /\ in.args = "nabla"
                   /\ cont.ip # "none" /\ cont.tap # 0
                   /\ cont.gw \notin {"none", "nilString"}
       IN \/ ~good /\ Fail
          \/ good /\ stage' = "run" /\ UNCHANGED <<in, cont, argv>>

\* Run: the disk must be a file, the unikernel must be found, and the
\* arguments must marshal; then execve.  The hardware address that is passed
\* is a local variable of Run that is never assigned.
Run ==
    /\ stage = "run"
    /\ LET good == in.disk = "file" /\ in.kernel /\ ~MarshalFails(in.env)
       IN \/ ~good /\ Fail
          \/ /\ good
             /\ stage' = "running"
             /\ argv' = [mem |-> cont.memory, net |-> cont.tap, netMac |-> "none",
                         addr |-> cont.ip, mask |-> RumpMask(cont.mask),
                         gw |-> cont.gw, env |-> in.env]
             /\ UNCHANGED <<in, cont>>

Next == ParseSpec \/ NablaTapName \/ NetworkRun \/ PauseCheck
        \/ NewRunncCont \/ Run

Spec == Init /\ [][Next]_vars

---------------------------------------------------------------------------
\* A unikernel gets at least the floor and, above it, its whole limit to the
\* megabyte and never more (configs/spec.go:39-48).
MemoryGranted ==
    stage = "running" =>
        \/ argv.mem = 512 /\ (in.limit = NoLimit \/ in.limit < 513 * MiB)
        \/ /\ in.limit # NoLimit /\ argv.mem > 512
           /\ argv.mem * MiB <= in.limit
           /\ in.limit - argv.mem * MiB < MiB

===========================================================================
