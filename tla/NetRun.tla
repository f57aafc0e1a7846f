------------------------------- MODULE NetRun -------------------------------
(***************************************************************************)
(* NetworkRunFunc of the TAP handler: the init processes of the containers *)
(* that share a network namespace (a Kubernetes pod; with Docker there is  *)
(* one) each try to move the namespace's address from eth0 to their        *)
(* unikernel, through a TAP device and a bridge.  One action per netlink   *)
(* call; nothing is undone when a call fails.  Module Pod opens up the     *)
(* call of SetupTunDev.                                                    *)
(***************************************************************************)
CONSTANTS
    Conts,     \* the containers of the namespace
    NoCont,    \* not a container
    TapOf,     \* the name nablaTapName gives to a container's TAP device
    Pause      \* the containers that run the /pause process

ASSUME ContAssumption == NoCont \notin Conts
ASSUME TapNameAssumption ==
    /\ DOMAIN TapOf = Conts
    /\ \A c \in Conts : TapOf[c] \notin {"eth0", "br0"}
ASSUME PauseAssumption == Pause \subseteq Conts

VARIABLES
    addr,      \* eth0 still has its address (and with it its routes)
    hw,        \* the hardware address of eth0
    links,     \* the TAP devices and bridges of the namespace
    up,        \* those that are up
    ports,     \* the links enslaved to br0
    pc,        \* pc[c]: where the init process of c is
    mac,       \* mac[c]: the hardware address that c read
    owner,     \* the container whose AddrDel succeeded (history)
    served,    \* the containers whose NetworkRunFunc succeeded (history)
    errs       \* the kinds of calls that have failed by themselves (history)

nsVars == <<addr, hw, links, up, ports>>
history == <<owner, served, errs>>
vars == <<nsVars, pc, mac, history>>

Names == {TapOf[c] : c \in Conts} \union {"br0"}

\* Before its AddrDel, after it, and at the end.
EarlyLabels == {"link", "addrs", "routes", "tapadd", "tapup", "addrdel"}
LateLabels == {"sethw", "bridge", "master", "tapmaster", "brup"}
NetLabels == EarlyLabels \union LateLabels \union {"done", "failed"}

Init == /\ addr = TRUE
        /\ hw = "veth"
        /\ links = {}
        /\ up = {}
        /\ ports = {}
        /\ pc = [c \in Conts |-> "link"]
        /\ mac = [c \in Conts |-> "none"]
        /\ owner = NoCont
        /\ served = {}
        /\ errs = {}

---------------------------------------------------------------------------
Go(c, label) == pc' = [pc EXCEPT ![c] = label]

\* LinkByName(eth0): its attributes are read here, and stay what they were.
LinkByName(c) ==
    /\ pc[c] = "link"
    /\ mac' = [mac EXCEPT ![c] = hw]
    /\ Go(c, "addrs")
    /\ UNCHANGED <<nsVars, history>>

\* getMasterDetails: "master should have an IP".
AddrList(c) ==
    /\ pc[c] = "addrs"
    /\ Go(c, IF addr THEN "routes" ELSE "failed")
    /\ UNCHANGED <<nsVars, mac, history>>

\* getMasterDetails: "master should have at least one route".
RouteList(c) ==
    /\ pc[c] = "routes"
    /\ Go(c, IF addr THEN "tapadd" ELSE "failed")
    /\ UNCHANGED <<nsVars, mac, history>>

\* SetupTunDev fails, or LinkAdd cannot open what it found.
SetupTunFails(c) ==
    /\ pc[c] = "tapadd"
    /\ errs' = errs \union {"tun"}
    /\ Go(c, "failed")
    /\ UNCHANGED <<nsVars, mac, owner, served>>

\* LinkAdd of the TAP device, which must be new.
LinkAddTap(c) ==
    /\ pc[c] = "tapadd"
    /\ \/ /\ TapOf[c] \in links
          /\ Go(c, "failed")
          /\ UNCHANGED links
       \/ /\ TapOf[c] \notin links
          /\ links' = links \union {TapOf[c]}
          /\ Go(c, "tapup")
    /\ UNCHANGED <<addr, hw, up, ports, mac, history>>

LinkSetUpTap(c) ==
    /\ pc[c] = "tapup"
    /\ up' = up \union {TapOf[c]}
    /\ Go(c, "addrdel")
    /\ UNCHANGED <<addr, hw, links, ports, mac, history>>

\* Mutant of AddrDel: its error is ignored.
AddrDelUnchecked(c) ==
    /\ pc[c] = "addrdel"
    /\ addr' = FALSE
    /\ owner' = IF addr THEN c ELSE owner
    /\ Go(c, "sethw")
    /\ UNCHANGED <<hw, links, up, ports, mac, served, errs>>

\* Mutant of AddrDel: the routes are read after the address is gone.
AddrDelFirst(c) ==
    /\ pc[c] = "addrdel"
    /\ addr' = FALSE
    /\ owner' = IF addr THEN c ELSE owner
    /\ Go(c, IF addr THEN "routes" ELSE "failed")
    /\ UNCHANGED <<hw, links, up, ports, mac, served, errs>>

\* AddrDel fails if the address is gone; the kernel drops the routes with it.
AddrDel(c) ==
    /\ pc[c] = "addrdel"
    /\ \/ /\ ~addr
          /\ Go(c, "failed")
          /\ UNCHANGED <<addr, owner>>
       \/ /\ addr
          /\ addr' = FALSE
          /\ owner' = c
          /\ Go(c, "sethw")
    /\ UNCHANGED <<hw, links, up, ports, mac, served, errs>>

\* Mutant of LinkSetHardwareAddr: eth0 keeps the address of the unikernel.
LinkSetHardwareAddrNot(c) ==
    /\ pc[c] = "sethw"
    /\ Go(c, "bridge")
    /\ UNCHANGED <<nsVars, mac, history>>

\* Mutant of LinkSetHardwareAddr: eth0 ends up without one.
LinkSetHardwareAddrUnset(c) ==
    /\ pc[c] = "sethw"
    /\ hw' = ""
    /\ Go(c, "bridge")
    /\ UNCHANGED <<addr, links, up, ports, mac, history>>

\* eth0 gets the hardware address aa:aa:aa:aa:bb:cc.
LinkSetHardwareAddr(c) ==
    /\ pc[c] = "sethw"
    /\ hw' = "generated"
    /\ Go(c, "bridge")
    /\ UNCHANGED <<addr, links, up, ports, mac, history>>

\* CreateBridge: LinkAdd of br0, which must be new.
CreateBridge(c) ==
    /\ pc[c] = "bridge"
    /\ \/ /\ "br0" \in links
          /\ Go(c, "failed")
          /\ UNCHANGED links
       \/ /\ "br0" \notin links
          /\ links' = links \union {"br0"}
          /\ Go(c, "master")
    /\ UNCHANGED <<addr, hw, up, ports, mac, history>>

\* LinkSetMaster of l, whose error nobody looks at.
LinkSetMaster(c, from, l, to) ==
    /\ pc[c] = from
    /\ \/ ports' = ports \union {l} /\ UNCHANGED errs
       \/ errs' = errs \union {"setmaster"} /\ UNCHANGED ports
    /\ Go(c, to)
    /\ UNCHANGED <<addr, hw, links, up, mac, owner, served>>

MasterToBridge(c) == LinkSetMaster(c, "master", "eth0", "tapmaster")
TapToBridge(c) == LinkSetMaster(c, "tapmaster", TapOf[c], "brup")

\* The bridge is set up and NetworkRunFunc returns address, gateway, mask
\* and hardware address.
LinkSetUpBridge(c) ==
    /\ pc[c] = "brup"
    /\ up' = up \union {"br0"}
    /\ served' = served \union {c}
    /\ Go(c, "done")
    /\ UNCHANGED <<addr, hw, links, ports, mac, owner, errs>>

\* A netlink call fails, or the process is killed before it.
CallFails(c) ==
    /\ pc[c] \in EarlyLabels \union LateLabels
    /\ errs' = errs \union {"call"}
    /\ Go(c, "failed")
    /\ UNCHANGED <<nsVars, mac, owner, served>>

\* LinkByName and getMasterDetails; then SetupTunDev and LinkAdd; and all
\* that comes after them.
ReadStep(c) == LinkByName(c) \/ AddrList(c) \/ RouteList(c)

WireStep(c) == \/ LinkSetUpTap(c) \/ AddrDel(c) \/ LinkSetHardwareAddr(c)
               \/ CreateBridge(c) \/ MasterToBridge(c) \/ TapToBridge(c)
               \/ LinkSetUpBridge(c)

NetStep(c) == ReadStep(c) \/ SetupTunFails(c) \/ LinkAddTap(c) \/ WireStep(c)

Next == \E c \in Conts : NetStep(c) \/ CallFails(c)

Spec == Init /\ [][Next]_vars

---------------------------------------------------------------------------
\* The types of the variables.
TypeOK == /\ addr \in BOOLEAN
          /\ hw \in {"veth", "generated"}
          /\ links \subseteq Names
          /\ up \subseteq Names
          /\ ports \subseteq Names \union {"eth0"}
          /\ pc \in [Conts -> NetLabels]
          /\ mac \in [Conts -> {"none", "veth", "generated"}]
          /\ owner \in Conts \union {NoCont}
          /\ served \subseteq Conts
          /\ errs \subseteq {"call", "setmaster", "tun"}

\* The containers of a namespace read its address before they take it, and
\* several may have read it: AddrDel decides, so that it goes to one of them
\* at most (network_linux.go:285-319).
Owner == INSTANCE AddrOwner WITH owner <- owner, served <- served
ImplementsAddrOwner == Owner!Spec

\* A unikernel for which NetworkRunFunc succeeded is connected: eth0 and its
\* TAP, and nothing else, are on the bridge; all is up; eth0 has neither the
\* address nor the hardware address that the unikernel is told to use, and
\* that hardware address is the one eth0 came with (network_linux.go:312-344).
\* What the losers of the race did, or how far they got, does not matter;
\* only the ports are not sure once a LinkSetMaster has failed unnoticed.
ServedConnected ==
    \A c \in served : /\ ports = {"eth0", TapOf[c]} \/ "setmaster" \in errs
                      /\ {"br0", TapOf[c]} \subseteq links \intersect up
                      /\ ~addr
                      /\ mac[c] = "veth"
                      /\ hw = "generated"

\* What is known of a container at each label.  The ports of the bridge are
\* known only if LinkSetMaster does not fail.
Stage(c) ==
    /\ pc[c] \in {"tapup", "addrdel"} \union LateLabels \union {"done"}
         => TapOf[c] \in links
    /\ pc[c] \in {"addrdel"} \union LateLabels \union {"done"} => TapOf[c] \in up
    /\ pc[c] \in LateLabels \union {"done"} => owner = c /\ mac[c] = "veth"
    /\ pc[c] \notin {"link", "failed"} /\ addr => mac[c] = "veth"
    /\ pc[c] \in (LateLabels \ {"sethw"}) \union {"done"} => hw = "generated"
    /\ pc[c] \in {"master", "tapmaster", "brup", "done"} => "br0" \in links
    /\ pc[c] = "done" <=> c \in served
    /\ pc[c] = "done" => "br0" \in up

PortsKnown(c) ==
    /\ pc[c] \in {"sethw", "bridge", "master"} => ports = {}
    /\ pc[c] = "tapmaster" => ports = {"eth0"}
    /\ pc[c] \in {"brup", "done"} => ports = {"eth0", TapOf[c]}

\* The inductive invariant: as long as eth0 has its address nobody owns it,
\* and hardware address and bridge are untouched.
NetInv == /\ addr <=> owner = NoCont
          /\ addr => hw = "veth" /\ ports = {}
          /\ \A c \in Conts : Stage(c)
          /\ "setmaster" \notin errs => \A c \in Conts : PortsKnown(c)

\* tap_bridge.go:38 says "The tap device will get the IP assigned to the k8s
\* nabla container veth pair": without failing calls the one container of a
\* pod that is not its pause container gets the address.
AppServed == errs = {} => \A c \in Conts \ Pause : pc[c] # "failed"

===========================================================================
