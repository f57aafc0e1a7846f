------------------------------- MODULE TunDev -------------------------------
(***************************************************************************)
(* SetupTunDev: every create, every delete and every init process looks    *)
(* for a /dev/net/tun with the device number 10:200 before it touches a    *)
(* TAP device, and creates the character device if there is no node.  They *)
(* share one /dev and take no lock.                                        *)
(***************************************************************************)
CONSTANT Users    \* the runnc processes that call SetupTunDev

VARIABLES
    devnet,    \* what /dev/net is
    tun,       \* what /dev/net/tun is: the character device 10:200 ("right"),
               \* a block device of that number, or some other node
    upc,       \* upc[u]: where u is in SetupTunDev
    makers,    \* who made the node (history)
    broken     \* stat, mkdir or mknod failed for another reason than being
               \* late, or a caller was killed (history)

vars == <<devnet, tun, upc, makers, broken>>

UserLabels == {"idle", "verify", "statnet", "mkdir", "mknod", "reverify",
               "ok", "err"}

Nodes == {"none", "right", "block", "wrong"}

\* A machine on which the node may be there, missing, or something else.
Init == /\ devnet \in {"none", "dir", "file"}
        /\ tun \in IF devnet = "dir" THEN Nodes ELSE {"none"}
        /\ upc = [u \in Users |-> "idle"]
        /\ makers = {}
        /\ broken = FALSE

At(u, label) == upc[u] = label
GoOn(u, label) == upc' = [upc EXCEPT ![u] = label]

Call(u) == At(u, "idle") /\ GoOn(u, "verify") /\ UNCHANGED <<devnet, tun, makers, broken>>

\* verifyTunDevice: the node is there and has the device number 10:200.  The
\* type of the node is not looked at.
VerifyTunDevice == tun \in {"right", "block"}

Verify(u) ==
    /\ At(u, "verify")
    /\ GoOn(u, IF VerifyTunDevice THEN "ok" ELSE "statnet")
    /\ UNCHANGED <<devnet, tun, makers, broken>>

\* createTunDevice, os.Stat of /dev/net.
StatNet(u) ==
    /\ At(u, "statnet")
    /\ \/ devnet = "dir" /\ GoOn(u, "mknod")
       \/ devnet = "none" /\ GoOn(u, "mkdir")
       \/ devnet = "file" /\ GoOn(u, "err")
    /\ UNCHANGED <<devnet, tun, makers, broken>>

\* Mutant of MkdirNet: a new directory is taken for a new device.
MkdirNetReturns(u) ==
    /\ At(u, "mkdir")
    /\ \/ devnet = "none" /\ devnet' = "dir" /\ GoOn(u, "reverify")
       \/ devnet # "none" /\ GoOn(u, "err") /\ UNCHANGED devnet
    /\ UNCHANGED <<tun, makers, broken>>

\* createTunDevice, os.Mkdir, which fails if somebody was faster.
MkdirNet(u) ==
    /\ At(u, "mkdir")
    /\ \/ devnet = "none" /\ devnet' = "dir" /\ GoOn(u, "mknod")
       \/ devnet # "none" /\ GoOn(u, "err") /\ UNCHANGED devnet
    /\ UNCHANGED <<tun, makers, broken>>

\* createTunDevice, mknod, which fails if the node is there.
Mknod(u) ==
    /\ At(u, "mknod")
    /\ \/ /\ tun = "none"
          /\ tun' = "right"
          /\ makers' = makers \union {u}
          /\ GoOn(u, "reverify")
       \/ tun # "none" /\ GoOn(u, "err") /\ UNCHANGED <<tun, makers>>
    /\ UNCHANGED <<devnet, broken>>

\* One of these calls fails (permissions, a read-only /dev).
CallFails(u) ==
    /\ upc[u] \in {"statnet", "mkdir", "mknod"}
    /\ broken' = TRUE
    /\ GoOn(u, "err")
    /\ UNCHANGED <<devnet, tun, makers>>

Reverify(u) ==
    /\ At(u, "reverify")
    /\ GoOn(u, IF VerifyTunDevice THEN "ok" ELSE "err")
    /\ UNCHANGED <<devnet, tun, makers, broken>>

\* SetupTunDev has returned; the process may call it again.
Return(u) ==
    /\ upc[u] \in {"ok", "err"}
    /\ GoOn(u, "idle")
    /\ UNCHANGED <<devnet, tun, makers, broken>>

\* The process is killed on the way, which counts as another reason.
Killed(u) ==
    /\ upc[u] # "idle"
    /\ broken' = TRUE
    /\ GoOn(u, "idle")
    /\ UNCHANGED <<devnet, tun, makers>>

SetupTunDev(u) == \/ Verify(u) \/ StatNet(u) \/ MkdirNet(u) \/ Mknod(u)
                  \/ CallFails(u) \/ Reverify(u)

Next == \E u \in Users : Call(u) \/ SetupTunDev(u) \/ Killed(u) \/ Return(u)

\* A process that is inside SetupTunDev is not suspended for ever.
Spec == Init /\ [][Next]_vars /\ \A u \in Users : WF_vars(SetupTunDev(u))

---------------------------------------------------------------------------
\* The types of the variables; a node needs its directory.
TypeOK == /\ devnet \in {"none", "dir", "file"}
          /\ tun \in Nodes
          /\ upc \in [Users -> UserLabels]
          /\ makers \subseteq Users
          /\ broken \in BOOLEAN
          /\ tun # "none" => devnet = "dir"

\* On a machine without the node, callers may lose the race for mkdir or
\* mknod and fail, but never all of them: unless something else goes wrong a
\* call leads to the device (network_linux.go:367-395).
DeviceAppears ==
    (tun = "none" /\ devnet # "file" /\ \E u \in Users : At(u, "verify"))
        ~> (tun = "right" \/ broken)

===========================================================================
