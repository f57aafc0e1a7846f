-------------------------------- MODULE Pod --------------------------------
(***************************************************************************)
(* The init processes of a pod with the /dev they share: NetRun, with the  *)
(* call of SetupTunDev on the way to the TAP device opened up (TunDev).    *)
(* The network namespace is the pod's own; /dev/net/tun is the machine's,  *)
(* so creates and deletes of other containers look for it, and make it, at *)
(* the same time.                                                          *)
(***************************************************************************)
EXTENDS NetRun

CONSTANT Others    \* runnc processes of other containers, in SetupTunDev too

ASSUME OthersAssumption == Others \intersect Conts = {}

VARIABLES devnet, tun, upc, makers, broken

Tun == INSTANCE TunDev WITH Users <- Conts \union Others

tunVars == <<devnet, tun, upc, makers, broken>>
podVars == <<vars, tunVars>>

PodInit == Init /\ Tun!Init

---------------------------------------------------------------------------
\* SetupTunDev is called once, between the routes and the TAP device.
InTun(c) ==
    /\ pc[c] = "tapadd"
    /\ Tun!Call(c) \/ Tun!SetupTunDev(c)
    /\ UNCHANGED vars

\* To add a TAP device is to open /dev/net/tun and to name it.
TunReady(c) ==
    Tun!At(c, "ok") /\ tun = "right" /\ LinkAddTap(c) /\ Tun!Return(c)

\* SetupTunDev has failed, or has let a block device pass, and the open fails.
TunMissing(c) ==
    /\ Tun!At(c, "err") \/ (Tun!At(c, "ok") /\ tun # "right")
    /\ SetupTunFails(c)
    /\ Tun!Return(c)

Outside(c) == (ReadStep(c) \/ WireStep(c)) /\ UNCHANGED tunVars

PodStep(c) == InTun(c) \/ TunReady(c) \/ TunMissing(c) \/ Outside(c)

\* A netlink call fails, or init is killed, in SetupTunDev too.
PodCallFails(c) ==
    /\ CallFails(c)
    /\ \/ Tun!Killed(c)
       \/ Tun!At(c, "idle") /\ UNCHANGED tunVars

OtherStep(u) == /\ \/ Tun!Call(u) \/ Tun!SetupTunDev(u)
                   \/ Tun!Killed(u) \/ Tun!Return(u)
                /\ UNCHANGED vars

PodNext == \/ \E c \in Conts : PodStep(c) \/ PodCallFails(c)
           \/ \E u \in Others : OtherStep(u)

PodSpec == PodInit /\ [][PodNext]_podVars

\* An init process that can take a step takes one, and nobody is suspended
\* for ever in SetupTunDev.
PodFairSpec ==
    /\ PodSpec
    /\ \A c \in Conts : WF_podVars(PodStep(c))
    /\ \A u \in Others : WF_podVars(Tun!SetupTunDev(u) /\ UNCHANGED vars)

---------------------------------------------------------------------------
\* The types of the variables of both.
PodTypeOK == TypeOK /\ Tun!TypeOK

\* On a machine without the node, callers may lose the race for mkdir or
\* mknod and fail, but never all of them: unless something else goes wrong a
\* call leads to the device (network_linux.go:367-395).
DeviceAppears == Tun!DeviceAppears

\* What may take all containers of a pod down: a call fails, the machine has
\* no place for the device or another node in its place, or a process of
\* another container makes it.
Spoilt == \/ "call" \in errs \/ broken \/ devnet = "file"
          \/ tun \in {"block", "wrong"} \/ makers \intersect Others # {}

\* Otherwise one of the containers that race gets the address, also when all
\* find /dev/net/tun missing, or share a TAP name: losing one race or the
\* other takes no winner down (network_linux.go:303-325, 348-395).
SomeoneServed == (\A c \in Conts : pc[c] = "link") ~> served # {} \/ Spoilt

\* So it is at every moment: when all containers are through, the one that
\* made the device, or one that it served, has won the TAP names and the
\* address, unless a process of another container is at its mknod
\* (network_linux.go:303-325, 348-395).
RaceHasWinner ==
    Conts # {} /\ (\A c \in Conts : pc[c] \in {"done", "failed"})
        => served # {} \/ Spoilt \/ \E u \in Others : Tun!At(u, "mknod")

---------------------------------------------------------------------------
(* Why the race has a winner.                                              *)

\* A container is in SetupTunDev at one label only, and past it the device
\* is there.
TunPassed == /\ \A c \in Conts : ~Tun!At(c, "idle") => pc[c] = "tapadd"
             /\ \A c \in Conts : pc[c] \in {"tapup", "addrdel"} => tun = "right"
             /\ ~addr => tun = "right"
             /\ \A u \in Conts \union Others : Tun!At(u, "reverify") => tun # "none"

\* While eth0 has its address, a TAP device belongs to a container on its way
\* to AddrDel; then the owner of the address goes on to the end.
OwnerGoesOn == "call" \notin errs =>
    /\ addr => \A l \in links :
           \E c \in Conts : TapOf[c] = l /\ pc[c] \in {"tapup", "addrdel"}
    /\ ~addr => pc[owner] \in LateLabels \union {"done"}
    /\ ~addr /\ "br0" \in links => pc[owner] \notin {"sethw", "bridge"}

\* Somebody is about to make the node.
Making == \E u \in Conts \union Others : Tun!At(u, "mknod")

\* c has failed, or will, because it found no node.
Late(c) == pc[c] = "failed" \/ upc[c] \in {"statnet", "mkdir", "mknod", "err"}

\* d has the device, and nothing yet to lose the address to.
Ahead(d) == \/ pc[d] = "tapadd" /\ upc[d] \in {"reverify", "ok"}
            \/ pc[d] \in {"tapup", "addrdel"}

MakerGoesOn == ~Spoilt =>
    /\ tun = "none" /\ devnet = "dir" => \A c \in Conts : Tun!At(c, "mkdir") => Making
    /\ tun = "none" => \A c \in Conts : pc[c] = "failed" \/ Tun!At(c, "err") => Making
    /\ tun = "right" /\ addr /\ (\E c \in Conts : Late(c)) => \E d \in Conts : Ahead(d)

\* The inductive invariant of the race, with TypeOK, NetInv and what TunDev
\* promises: who loses, at /dev/net/tun or at a TAP name, always loses to
\* somebody who goes on (network_linux.go:303-325, 348-395).
WinInv == TunPassed /\ OwnerGoesOn /\ MakerGoesOn

============================================================================
