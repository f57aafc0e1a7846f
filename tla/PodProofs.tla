----------------------------- MODULE PodProofs -----------------------------
(***************************************************************************)
(* Proofs about NetRun, for any number of containers in the namespace and  *)
(* any assignment of TAP names, and about Pod, for any number of other     *)
(* processes too: what is proved of NetRun holds of the composition, and   *)
(* the race for the device, the TAP names and the address has a winner.    *)
(***************************************************************************)
EXTENDS Pod, TLAPS

USE ContAssumption, TapNameAssumption


\* The initial state satisfies the invariant.
LEMMA InitNet == Init => TypeOK /\ NetInv
BY DEF Init, TypeOK, NetInv, Stage, PortsKnown, NetLabels, EarlyLabels, LateLabels, Names

\* Every step keeps the types.
LEMMA StepTypes == TypeOK /\ [Next]_vars => TypeOK'
<1> SUFFICES ASSUME TypeOK, [Next]_vars PROVE TypeOK'
  OBVIOUS
<1> USE DEF TypeOK, NetLabels, EarlyLabels, LateLabels, Names, Go, nsVars, history
<1>1. CASE UNCHANGED vars
  BY <1>1 DEF vars
<1>2. ASSUME NEW c \in Conts, NetStep(c) PROVE TypeOK'
  <2>1. CASE LinkByName(c)  BY <2>1 DEF LinkByName
  <2>2. CASE AddrList(c)  BY <2>2 DEF AddrList
  <2>3. CASE RouteList(c)  BY <2>3 DEF RouteList
  <2>4. CASE LinkAddTap(c)  BY <2>4 DEF LinkAddTap
  <2>5. CASE LinkSetUpTap(c)  BY <2>5 DEF LinkSetUpTap
  <2>6. CASE AddrDel(c)  BY <2>6 DEF AddrDel
  <2>7. CASE LinkSetHardwareAddr(c)  BY <2>7 DEF LinkSetHardwareAddr
  <2>8. CASE CreateBridge(c)  BY <2>8 DEF CreateBridge
  <2>9. CASE MasterToBridge(c)  BY <2>9 DEF MasterToBridge, LinkSetMaster
  <2>10. CASE TapToBridge(c)  BY <2>10 DEF TapToBridge, LinkSetMaster
  <2>11. CASE LinkSetUpBridge(c)  BY <2>11 DEF LinkSetUpBridge
  <2>12. CASE SetupTunFails(c)  BY <2>12 DEF SetupTunFails
  <2> QED
    BY <1>2, <2>1, <2>2, <2>3, <2>4, <2>5, <2>6, <2>7, <2>8, <2>9, <2>10, <2>11,
       <2>12
       DEF NetStep, ReadStep, WireStep
<1>3. ASSUME NEW c \in Conts, CallFails(c) PROVE TypeOK'
  BY <1>3 DEF CallFails
<1> QED
  BY <1>1, <1>2, <1>3 DEF Next

\* Every step keeps the invariant: only the owner of the address works on
\* hardware address and bridge, and nobody can become the owner after it.
LEMMA StepNet == TypeOK /\ NetInv /\ [Next]_vars => NetInv'
<1> SUFFICES ASSUME TypeOK, NetInv, [Next]_vars PROVE NetInv'
  OBVIOUS
<1> USE DEF TypeOK, NetInv, Stage, PortsKnown, NetLabels, EarlyLabels, LateLabels,
            Names, Go, nsVars, history
<1>1. CASE UNCHANGED vars
  BY <1>1 DEF vars
<1>2. ASSUME NEW c \in Conts, NetStep(c) PROVE NetInv'
  <2>1. CASE LinkByName(c)  BY <2>1 DEF LinkByName
  <2>2. CASE AddrList(c)  BY <2>2 DEF AddrList
  <2>3. CASE RouteList(c)  BY <2>3 DEF RouteList
  <2>4. CASE LinkAddTap(c)  BY <2>4 DEF LinkAddTap
  <2>5. CASE LinkSetUpTap(c)  BY <2>5 DEF LinkSetUpTap
  <2>6. CASE AddrDel(c)  BY <2>6 DEF AddrDel
  <2>7. CASE LinkSetHardwareAddr(c)  BY <2>7 DEF LinkSetHardwareAddr
  <2>8. CASE CreateBridge(c)  BY <2>8 DEF CreateBridge
  <2>9. CASE MasterToBridge(c)  BY <2>9 DEF MasterToBridge, LinkSetMaster
  <2>10. CASE TapToBridge(c)  BY <2>10 DEF TapToBridge, LinkSetMaster
  <2>11. CASE LinkSetUpBridge(c)  BY <2>11 DEF LinkSetUpBridge
  <2>12. CASE SetupTunFails(c)  BY <2>12 DEF SetupTunFails
  <2> QED
    BY <1>2, <2>1, <2>2, <2>3, <2>4, <2>5, <2>6, <2>7, <2>8, <2>9, <2>10, <2>11,
       <2>12
       DEF NetStep, ReadStep, WireStep
<1>3. ASSUME NEW c \in Conts, CallFails(c) PROVE NetInv'
  BY <1>3 DEF CallFails
<1> QED
  BY <1>1, <1>2, <1>3 DEF Next

\* NetInv, with the types, is an invariant.
LEMMA NetCorrect == Spec => [](TypeOK /\ NetInv)
<1>1. TypeOK /\ NetInv /\ [Next]_vars => (TypeOK /\ NetInv)'
  BY StepTypes, StepNet
<1> QED
  BY InitNet, <1>1, PTL DEF Spec

\* A unikernel whose network set up succeeded is connected, with any number
\* of containers racing for the namespace and calls failing anywhere; its
\* bridge is sure as long as no LinkSetMaster, whose error is ignored, fails.
THEOREM Connected == Spec => []ServedConnected
<1>1. TypeOK /\ NetInv => ServedConnected
  <2> SUFFICES ASSUME TypeOK, NetInv, NEW c \in served
               PROVE  /\ ports = {"eth0", TapOf[c]} \/ "setmaster" \in errs
                      /\ {"br0", TapOf[c]} \subseteq links \intersect up
                      /\ ~addr /\ mac[c] = "veth" /\ hw = "generated"
    BY DEF ServedConnected
  <2>1. c \in Conts /\ Stage(c)
    BY DEF TypeOK, NetInv
  <2>2. pc[c] = "done"
    BY <2>1 DEF Stage
  <2>3. "setmaster" \notin errs => ports = {"eth0", TapOf[c]}
    BY <2>1, <2>2 DEF NetInv, PortsKnown
  <2>4. /\ {"br0", TapOf[c]} \subseteq links \intersect up
        /\ owner = c /\ mac[c] = "veth" /\ hw = "generated"
    BY <2>1, <2>2 DEF Stage, LateLabels
  <2>5. ~addr
    BY <2>1, <2>4, ContAssumption DEF NetInv
  <2> QED BY <2>3, <2>4, <2>5
<1> QED
  BY NetCorrect, <1>1, PTL

\* The netlink calls implement the abstract hand-over of the address: it
\* goes to at most one container of the namespace, whatever fails.
THEOREM OneOwner == Spec => ImplementsAddrOwner
<1>1. Init => Owner!Init
  BY DEF Init, Owner!Init
<1>2. TypeOK /\ NetInv /\ [Next]_vars => [Owner!Next]_<<owner, served>>
  <2> SUFFICES ASSUME TypeOK, NetInv, [Next]_vars
               PROVE  Owner!Next \/ UNCHANGED <<owner, served>>
    OBVIOUS
  <2>1. CASE UNCHANGED vars
    BY <2>1 DEF vars, history
  <2>2. ASSUME NEW c \in Conts, NetStep(c)
        PROVE  Owner!Next \/ UNCHANGED <<owner, served>>
    <3>1. CASE AddrDel(c)
      BY <3>1 DEF AddrDel, NetInv, Owner!Next, Owner!Take
    <3>2. CASE LinkSetUpBridge(c)
      BY <3>2 DEF LinkSetUpBridge, NetInv, Stage, LateLabels, Owner!Next, Owner!Serve
    <3> QED
      BY <2>2, <3>1, <3>2
         DEF NetStep, ReadStep, WireStep, LinkByName, AddrList, RouteList,
             SetupTunFails, LinkAddTap, LinkSetUpTap, LinkSetHardwareAddr,
             CreateBridge, MasterToBridge, TapToBridge, LinkSetMaster, history
  <2>3. ASSUME NEW c \in Conts, CallFails(c)
        PROVE  Owner!Next \/ UNCHANGED <<owner, served>>
    BY <2>3 DEF CallFails, history
  <2> QED
    BY <2>1, <2>2, <2>3 DEF Next
<1> QED
  BY NetCorrect, <1>1, <1>2, PTL DEF Spec, ImplementsAddrOwner, Owner!Spec

---------------------------------------------------------------------------
(* The composition with SetupTunDev.                                       *)

Users == Conts \union Others

\* Who is about to make the node has found or made its directory.
PlaceKnown == \A u \in Users : upc[u] = "mknod" => devnet = "dir"

\* A call that succeeds leaves a node of the device number.
NumberRight == \A u \in Users : upc[u] = "ok" => tun \in {"right", "block"}

TunInv == Tun!TypeOK /\ NumberRight /\ PlaceKnown

\* The steps of Pod are steps of NetRun, or leave its variables alone.
LEMMA PodStepsAreNetSteps == PodNext => Next \/ UNCHANGED vars
<1> SUFFICES ASSUME PodNext PROVE Next \/ UNCHANGED vars
  OBVIOUS
<1>1. ASSUME NEW c \in Conts, PodStep(c) \/ PodCallFails(c)
      PROVE  Next \/ UNCHANGED vars
  BY <1>1 DEF PodStep, PodCallFails, InTun, TunReady, TunMissing, Outside, Next,
              NetStep
<1> QED BY <1>1 DEF PodNext, OtherStep

\* And they are steps of SetupTunDev, or leave its variables alone.
LEMMA PodStepsAreTunSteps ==
    ASSUME PodNext
    PROVE  \/ \E u \in Users : \/ Tun!Call(u) \/ Tun!SetupTunDev(u)
                               \/ Tun!Killed(u) \/ Tun!Return(u)
           \/ UNCHANGED tunVars
<1>1. ASSUME NEW c \in Conts, PodStep(c) \/ PodCallFails(c)
      PROVE  \/ \/ Tun!Call(c) \/ Tun!SetupTunDev(c)
                \/ Tun!Killed(c) \/ Tun!Return(c)
             \/ UNCHANGED tunVars
  BY <1>1 DEF PodStep, PodCallFails, InTun, TunReady, TunMissing, Outside
<1>2. Conts \subseteq Users /\ Others \subseteq Users
  BY DEF Users
<1> QED BY <1>1, <1>2 DEF PodNext, OtherStep

\* Every step of SetupTunDev keeps its invariant.
LEMMA TunStep ==
    ASSUME TunInv, NEW u \in Users,
           \/ Tun!Call(u) \/ Tun!SetupTunDev(u) \/ Tun!Killed(u) \/ Tun!Return(u)
    PROVE  TunInv'
<1> USE DEF TunInv, NumberRight, PlaceKnown, Users, Tun!Nodes,
            Tun!TypeOK, Tun!UserLabels, Tun!At, Tun!GoOn
<1>1. CASE Tun!Call(u)  BY <1>1 DEF Tun!Call
<1>2. CASE Tun!Verify(u)  BY <1>2 DEF Tun!Verify, Tun!VerifyTunDevice
<1>3. CASE Tun!StatNet(u)  BY <1>3 DEF Tun!StatNet
<1>4. CASE Tun!MkdirNet(u)  BY <1>4 DEF Tun!MkdirNet
<1>5. CASE Tun!Mknod(u)  BY <1>5 DEF Tun!Mknod
<1>6. CASE Tun!CallFails(u)  BY <1>6 DEF Tun!CallFails
<1>7. CASE Tun!Reverify(u)  BY <1>7 DEF Tun!Reverify, Tun!VerifyTunDevice
<1>8. CASE Tun!Killed(u)  BY <1>8 DEF Tun!Killed
<1>9. CASE Tun!Return(u)  BY <1>9 DEF Tun!Return
<1> QED
  BY <1>1, <1>2, <1>3, <1>4, <1>5, <1>6, <1>7, <1>8, <1>9 DEF Tun!SetupTunDev

LEMMA TunCorrect == PodSpec => []TunInv
<1>1. PodInit => TunInv
  BY DEF PodInit, Tun!Init, TunInv, NumberRight,
         PlaceKnown, Users, Tun!Nodes, Tun!TypeOK, Tun!UserLabels, Tun!At
<1>2. TunInv /\ [PodNext]_podVars => TunInv'
  <2> SUFFICES ASSUME TunInv, [PodNext]_podVars PROVE TunInv'
    OBVIOUS
  <2>1. CASE UNCHANGED tunVars
    BY <2>1 DEF tunVars, TunInv, NumberRight,
                PlaceKnown, Tun!TypeOK, Tun!At
  <2> QED BY <2>1, TunStep, PodStepsAreTunSteps DEF podVars, tunVars
<1> QED BY <1>1, <1>2, PTL DEF PodSpec

\* With the calls of SetupTunDev opened up, and other processes in them, the
\* containers of a pod still do what NetRun says: what is proved of it
\* (Connected, OneOwner) holds of the composition.
THEOREM PodImplementsNetRun == PodSpec => Spec
<1>1. PodInit => Init
  BY DEF PodInit
<1>2. [PodNext]_podVars => [Next]_vars
  BY PodStepsAreNetSteps DEF podVars
<1> QED BY <1>1, <1>2, PTL DEF PodSpec, Spec

\* The types of the variables of NetRun and TunDev (network_linux.go:270-395).
THEOREM PodTypes == PodSpec => []PodTypeOK
<1>1. TunInv => Tun!TypeOK
  BY DEF TunInv
<1> QED BY <1>1, TunCorrect, NetCorrect, PodImplementsNetRun, PTL DEF PodTypeOK

---------------------------------------------------------------------------
(* Why the race for the device and the address has a winner.               *)

PodInv == TypeOK /\ NetInv /\ TunInv /\ WinInv

UserSteps(u) == \/ Tun!Call(u) \/ Tun!SetupTunDev(u)
                \/ u \in Others /\ (Tun!Killed(u) \/ Tun!Return(u))

\* What the step of one caller of SetupTunDev, inside it, does to the others.
LEMMA UserMoves ==
    ASSUME NEW u \in Users, UserSteps(u), upc \in [Users -> Tun!UserLabels]
    PROVE  /\ \A v \in Users \ {u} : upc'[v] = upc[v]
           /\ upc'[u] \in Tun!UserLabels
           /\ upc'[u] = "reverify" => tun' # "none"
           /\ tun # "none" => tun' = tun
           /\ broken => broken'
           /\ makers \subseteq makers'
<1> USE DEF Tun!UserLabels, Tun!At, Tun!GoOn, Users
<1>1. CASE Tun!Call(u)  BY <1>1 DEF Tun!Call
<1>2. CASE Tun!Verify(u)  BY <1>2 DEF Tun!Verify
<1>3. CASE Tun!StatNet(u)  BY <1>3 DEF Tun!StatNet
<1>4. CASE Tun!MkdirNet(u)  BY <1>4 DEF Tun!MkdirNet
<1>5. CASE Tun!Mknod(u)  BY <1>5 DEF Tun!Mknod
<1>6. CASE Tun!CallFails(u)  BY <1>6 DEF Tun!CallFails
<1>7. CASE Tun!Reverify(u)  BY <1>7 DEF Tun!Reverify
<1>8. CASE Tun!Killed(u)  BY <1>8 DEF Tun!Killed
<1>9. CASE Tun!Return(u)  BY <1>9 DEF Tun!Return
<1> QED
  BY <1>1, <1>2, <1>3, <1>4, <1>5, <1>6, <1>7, <1>8, <1>9
     DEF UserSteps, Tun!SetupTunDev

\* What a step in SetupTunDev does, unless something goes wrong: the device
\* only comes, and by mknod; the directory comes by one who is at mknod then;
\* a caller fails without having called mkdir only where a node is; where the
\* right one is, nobody gets to mkdir or mknod any more and a caller that found
\* it or made it succeeds.
TunMoves(u) ==
    /\ \/ tun' = tun /\ makers' = makers
       \/ tun = "none" /\ tun' = "right" /\ upc'[u] = "reverify" /\ u \in makers'
    /\ devnet' = devnet \/ (devnet = "none" /\ upc'[u] = "mknod")
    /\ upc'[u] = "mkdir" => devnet' = "none"
    /\ upc[u] = "mknod" => tun' # "none"
    /\ upc'[u] = "err" => \/ devnet = "file"
                          \/ tun # "none"
                          \/ upc[u] = "mkdir" /\ devnet # "none"
    /\ tun = "right" /\ upc'[u] \in {"statnet", "mkdir", "mknod", "err"}
         => upc[u] \in {"statnet", "mkdir", "mknod"}
    /\ u \notin Others =>
         /\ upc[u] # "err"
         /\ tun = "right" /\ upc[u] \in {"reverify", "ok"} => upc'[u] = "ok"

\* So does every step in it that is not marked broken.
LEMMA UserGoes ==
    ASSUME TunInv, NEW u \in Users, UserSteps(u), ~broken',
           \A v \in Users : upc[v] = "reverify" => tun # "none"
    PROVE  TunMoves(u)
<1> USE DEF TunMoves, TunInv, Tun!TypeOK, Tun!UserLabels, Tun!At, Tun!GoOn, Users
<1>1. CASE Tun!Call(u)  BY <1>1 DEF Tun!Call
<1>2. CASE Tun!Verify(u)  BY <1>2 DEF Tun!Verify, Tun!VerifyTunDevice
<1>3. CASE Tun!StatNet(u)  BY <1>3 DEF Tun!StatNet
<1>4. CASE Tun!MkdirNet(u)  BY <1>4 DEF Tun!MkdirNet
<1>5. CASE Tun!Mknod(u)  BY <1>5 DEF Tun!Mknod
<1>6. CASE Tun!CallFails(u)  BY <1>6 DEF Tun!CallFails
<1>7. CASE Tun!Reverify(u)  BY <1>7 DEF Tun!Reverify, Tun!VerifyTunDevice
<1>8. CASE u \in Others /\ Tun!Killed(u)  BY <1>8 DEF Tun!Killed
<1>9. CASE u \in Others /\ Tun!Return(u)  BY <1>9 DEF Tun!Return
<1> QED
  BY <1>1, <1>2, <1>3, <1>4, <1>5, <1>6, <1>7, <1>8, <1>9
     DEF UserSteps, Tun!SetupTunDev

\* Steps inside SetupTunDev keep the invariant of the race.
LEMMA UserStepKeeps ==
    ASSUME PodInv, NEW u \in Users, UserSteps(u), UNCHANGED vars,
           u \in Conts => pc[u] = "tapadd"
    PROVE  WinInv'
<1> USE DEF Tun!At
<1>1. /\ upc \in [Users -> Tun!UserLabels]
      /\ TunPassed /\ OwnerGoesOn /\ MakerGoesOn /\ TunInv
      /\ Conts \subseteq Users /\ Others \subseteq Users
  BY DEF PodInv, WinInv, TunInv, Tun!TypeOK, Users
<1>2. /\ \A v \in Users \ {u} : upc'[v] = upc[v]
      /\ upc'[u] = "reverify" => tun' # "none"
      /\ tun # "none" => tun' = tun
      /\ broken => broken'
      /\ makers \subseteq makers'
  BY <1>1, UserMoves
<1>3. UNCHANGED <<addr, links, pc, owner, errs, served>>
  BY DEF vars, nsVars, history
<1>4. \A v \in Users : upc[v] = "reverify" => tun # "none"
  BY <1>1 DEF TunPassed, Users
<1>5. TunPassed'
  <2>1. \A c \in Conts : upc'[c] # "idle" => pc[c] = "tapadd"
    BY <1>1, <1>2 DEF TunPassed
  <2>2. \A v \in Conts \union Others : upc'[v] = "reverify" => tun' # "none"
    BY <1>1, <1>2, <1>4
  <2> QED BY <1>1, <1>2, <1>3, <2>1, <2>2 DEF TunPassed
<1>6. OwnerGoesOn'
  BY <1>1, <1>3 DEF OwnerGoesOn
<1>7. MakerGoesOn'
  <2> SUFFICES ASSUME ~Spoilt' PROVE MakerGoesOn'
    BY DEF MakerGoesOn
  <2>1. ~broken'
    BY DEF Spoilt
  <2>2. TunMoves(u)
    BY <1>1, <1>4, <2>1, UserGoes
  <2>3. ~Spoilt
    BY <1>2, <1>3, <2>2 DEF TunMoves, Spoilt
  <2>4. devnet # "file" /\ tun \notin {"block", "wrong"}
    BY <2>3 DEF Spoilt
  <2>5. devnet \in {"none", "dir"} /\ tun \in {"none", "right"}
    BY <1>1, <2>4 DEF TunInv, Tun!TypeOK, Tun!Nodes
  <2>6. tun' = "none" /\ Making => Making'
    BY <1>1, <1>2, <2>2 DEF TunMoves, Making, Users
  <2>7. ASSUME tun' = "none", devnet' = "dir", NEW c \in Conts, upc'[c] = "mkdir"
        PROVE  Making'
    <3>1. CASE devnet = "dir"
      BY <1>1, <1>2, <2>2, <2>3, <2>6, <2>7, <3>1 DEF TunMoves, MakerGoesOn
    <3>2. CASE devnet = "none"
      BY <2>2, <2>7, <3>2 DEF TunMoves, Making, Users
    <3> QED BY <2>5, <3>1, <3>2
  <2>8. ASSUME tun' = "none", NEW c \in Conts, pc[c] = "failed" \/ upc'[c] = "err"
        PROVE  Making'
    <3>1. CASE pc[c] = "failed" \/ upc[c] = "err"
      BY <1>1, <2>2, <2>3, <2>6, <2>8, <3>1 DEF TunMoves, MakerGoesOn
    <3>2. CASE c = u /\ upc'[u] = "err"
      BY <1>1, <2>2, <2>3, <2>4, <2>5, <2>6, <2>8, <3>2 DEF TunMoves, MakerGoesOn
    <3> QED BY <1>1, <1>2, <2>8, <3>1, <3>2
  <2>9. ASSUME tun' = "right", addr, NEW c \in Conts, Late(c)'
        PROVE  \E d \in Conts : Ahead(d)'
    <3>1. CASE tun = "none"
      <4>1. u \in Conts /\ pc[u] = "tapadd"
        BY <2>2, <2>9, <3>1 DEF TunMoves, Spoilt, Users
      <4> QED BY <1>3, <2>2, <2>9, <3>1, <4>1 DEF TunMoves, Ahead
    <3>2. CASE tun = "right"
      <4>1. Late(c)
        BY <1>1, <1>2, <1>3, <2>2, <2>9, <3>2 DEF TunMoves, Late
      <4>2. PICK d \in Conts : Ahead(d)
        BY <1>1, <2>3, <2>9, <3>2, <4>1 DEF MakerGoesOn
      <4>3. d \notin Others
        BY OthersAssumption
      <4> QED BY <1>1, <1>2, <1>3, <2>2, <3>2, <4>2, <4>3 DEF TunMoves, Ahead
    <3> QED BY <2>5, <3>1, <3>2
  <2> QED BY <1>3, <2>7, <2>8, <2>9 DEF MakerGoesOn
<1> QED BY <1>1, <1>5, <1>6, <1>7 DEF WinInv

\* What a container has done and may do when it has left SetupTunDev, or is
\* not there: it goes on from the TAP device only with the right node, fails
\* only when it found none or a block device, the name is taken or the address
\* is gone, and who takes the address makes the bridge.
NetMoves(c) ==
    /\ pc' = [pc EXCEPT ![c] = pc'[c]]
    /\ upc' = upc \/ upc' = [upc EXCEPT ![c] = "idle"]
    /\ upc[c] \in {"idle", "ok", "err"} /\ upc'[c] = "idle"
    /\ UNCHANGED <<devnet, tun, makers, broken>>
    /\ errs \subseteq errs'
    /\ pc'[c] \in {"tapup", "addrdel"} => tun = "right"
    /\ ~addr' => tun = "right"
    /\ pc'[c] = "failed" =>
         \/ upc[c] = "err" \/ tun = "block"
         \/ tun = "right" /\ (addr' => pc[c] = "tapadd" /\ TapOf[c] \in links)
    /\ addr' => /\ addr /\ owner' = owner
                /\ \/ links' = links
                   \/ links' = links \union {TapOf[c]} /\ pc'[c] = "tapup"
                /\ pc[c] \in {"tapup", "addrdel"} => pc'[c] \in {"tapup", "addrdel"}
                /\ upc[c] = "ok" /\ tun = "right"
                     => pc'[c] = "tapup" \/ TapOf[c] \in links
    /\ addr /\ ~addr' => owner' = c /\ pc'[c] = "sethw" /\ links' = links
    /\ ~addr => /\ ~addr' /\ owner' = owner
                /\ owner # c => ("br0" \in links' => "br0" \in links)
                /\ owner = c /\ pc[c] \in LateLabels \union {"done"}
                     /\ ("br0" \in links => pc[c] \notin {"sethw", "bridge"})
                   => /\ pc'[c] \in LateLabels \union {"done"}
                      /\ "br0" \in links' => pc'[c] \notin {"sethw", "bridge"}

\* So does every netlink call, in all its outcomes.
LEMMA NetStepMoves ==
    ASSUME PodInv, NEW c \in Conts,
           TunReady(c) \/ TunMissing(c) \/ Outside(c)
    PROVE  NetMoves(c)
<1> USE DEF Tun!At
<1>1. /\ TunPassed /\ OwnerGoesOn /\ MakerGoesOn /\ NumberRight
      /\ upc \in [Conts \union Others -> Tun!UserLabels]
      /\ pc \in [Conts -> NetLabels]
      /\ TapOf[c] \notin {"eth0", "br0"}
      /\ addr \in BOOLEAN
      /\ addr <=> owner = NoCont
      /\ pc[c] \in LateLabels \union {"done"} => owner = c
  BY DEF PodInv, WinInv, TunInv, Tun!TypeOK, NetInv, TypeOK, Stage
<1>2. /\ pc[c] # "tapadd" => upc[c] = "idle"
      /\ pc[c] \in {"tapup", "addrdel"} => tun = "right"
      /\ ~addr => tun = "right"
      /\ upc[c] = "ok" => tun \in {"right", "block"}
  BY <1>1 DEF TunPassed, NumberRight, Users
<1>3. ASSUME Outside(c) PROVE UNCHANGED tunVars
  BY <1>3 DEF Outside
<1> USE DEF NetMoves, Go, nsVars, history, NetLabels, EarlyLabels, LateLabels
<1>4. CASE TunReady(c)
  BY <1>1, <1>2, <1>4 DEF TunReady, Tun!Return, Tun!GoOn, LinkAddTap
<1>5. CASE TunMissing(c)
  BY <1>1, <1>2, <1>5 DEF TunMissing, Tun!Return, Tun!GoOn, SetupTunFails
<1>6. CASE Outside(c)
  <2> USE <1>1, <1>2, <1>3, <1>6 DEF tunVars
  <2>1. CASE LinkByName(c)  BY <2>1 DEF LinkByName
  <2>2. CASE AddrList(c)  BY <2>2 DEF AddrList
  <2>3. CASE RouteList(c)  BY <2>3 DEF RouteList
  <2>4. CASE LinkSetUpTap(c)  BY <2>4 DEF LinkSetUpTap
  <2>5. CASE AddrDel(c)  BY <2>5, ContAssumption DEF AddrDel
  <2>6. CASE LinkSetHardwareAddr(c)  BY <2>6 DEF LinkSetHardwareAddr
  <2>7. CASE CreateBridge(c)  BY <2>7 DEF CreateBridge
  <2>8. CASE MasterToBridge(c)  BY <2>8 DEF MasterToBridge, LinkSetMaster
  <2>9. CASE TapToBridge(c)  BY <2>9 DEF TapToBridge, LinkSetMaster
  <2>10. CASE LinkSetUpBridge(c)  BY <2>10 DEF LinkSetUpBridge
  <2> QED
    BY <2>1, <2>2, <2>3, <2>4, <2>5, <2>6, <2>7, <2>8, <2>9, <2>10
       DEF Outside, ReadStep, WireStep
<1> QED BY <1>4, <1>5, <1>6

\* So do the netlink calls, and how a container leaves SetupTunDev.
LEMMA NetStepKeeps ==
    ASSUME PodInv, NEW c \in Conts, NetMoves(c)
    PROVE  WinInv'
<1> USE DEF Tun!At
<1>1. /\ TunPassed /\ OwnerGoesOn /\ MakerGoesOn
      /\ upc \in [Conts \union Others -> Tun!UserLabels]
      /\ pc \in [Conts -> NetLabels]
      /\ addr \in BOOLEAN
      /\ owner \in Conts \union {NoCont}
      /\ addr <=> owner = NoCont
  BY DEF PodInv, WinInv, TunInv, Tun!TypeOK, NetInv, TypeOK
<1>2. /\ \A d \in Conts \ {c} : pc'[d] = pc[d]
      /\ \A u \in (Conts \union Others) \ {c} : upc'[u] = upc[u]
      /\ upc'[c] = "idle" /\ upc' \in [Conts \union Others -> Tun!UserLabels]
      /\ UNCHANGED <<devnet, tun, makers, broken>>
  <2>1. "idle" \in Tun!UserLabels
    BY DEF Tun!UserLabels
  <2> QED BY <1>1, <2>1 DEF NetMoves
<1>3. TunPassed'
  <2>1. \A d \in Conts : upc'[d] # "idle" => pc'[d] = "tapadd"
    BY <1>1, <1>2 DEF TunPassed
  <2>2. \A d \in Conts : pc'[d] \in {"tapup", "addrdel"} => tun = "right"
    BY <1>1, <1>2 DEF TunPassed, NetMoves
  <2>3. \A u \in Conts \union Others : upc'[u] = "reverify" => tun # "none"
    BY <1>1, <1>2 DEF TunPassed
  <2> QED BY <1>2, <2>1, <2>2, <2>3 DEF TunPassed, NetMoves
<1>4. ASSUME "call" \notin errs'
      PROVE  /\ addr' => \A l \in links' : \E d \in Conts :
                    TapOf[d] = l /\ pc'[d] \in {"tapup", "addrdel"}
             /\ ~addr' => pc'[owner'] \in LateLabels \union {"done"}
             /\ ~addr' /\ "br0" \in links' => pc'[owner'] \notin {"sethw", "bridge"}
  <2>1. "call" \notin errs
    BY <1>4 DEF NetMoves
  <2>2. ASSUME addr', NEW l \in links'
        PROVE  \E d \in Conts : TapOf[d] = l /\ pc'[d] \in {"tapup", "addrdel"}
    <3>1. CASE l \in links
      <4>1. PICK d \in Conts : TapOf[d] = l /\ pc[d] \in {"tapup", "addrdel"}
        BY <1>1, <2>1, <2>2, <3>1 DEF OwnerGoesOn, NetMoves
      <4> QED BY <1>2, <2>2, <4>1 DEF NetMoves
    <3>2. CASE l = TapOf[c] /\ pc'[c] = "tapup"
      BY <3>2
    <3> QED BY <2>2, <3>1, <3>2 DEF NetMoves
  <2>3. ASSUME addr, ~addr'
        PROVE  /\ pc'[owner'] \in LateLabels \union {"done"}
               /\ "br0" \notin links'
    <3>1. pc'[owner'] \in LateLabels
      BY <2>3 DEF NetMoves, LateLabels
    <3>2. "br0" \notin links
      BY <1>1, <2>1, <2>3, TapNameAssumption DEF OwnerGoesOn
    <3> QED BY <2>3, <3>1, <3>2 DEF NetMoves
  <2>4. ASSUME ~addr
        PROVE  /\ pc'[owner'] \in LateLabels \union {"done"}
               /\ "br0" \in links' => pc'[owner'] \notin {"sethw", "bridge"}
    <3>1. /\ owner' = owner /\ owner \in Conts
          /\ pc[owner] \in LateLabels \union {"done"}
          /\ "br0" \in links => pc[owner] \notin {"sethw", "bridge"}
      BY <1>1, <2>1, <2>4 DEF OwnerGoesOn, NetMoves
    <3>2. CASE owner = c
      BY <2>4, <3>1, <3>2 DEF NetMoves
    <3>3. CASE owner # c
      BY <1>2, <2>4, <3>1, <3>3 DEF NetMoves
    <3> QED BY <3>2, <3>3
  <2> QED BY <2>2, <2>3, <2>4
<1>5. OwnerGoesOn'
  BY <1>4 DEF OwnerGoesOn
<1>6. MakerGoesOn'
  <2> SUFFICES ASSUME ~Spoilt' PROVE MakerGoesOn'
    BY DEF MakerGoesOn
  <2>1. ~Spoilt /\ "call" \notin errs
    BY <1>2 DEF Spoilt, NetMoves
  <2>2. tun = "none" /\ upc[c] # "mknod" /\ Making => Making'
    BY <1>2 DEF Making
  <2>3. upc[c] # "mknod"
    BY DEF NetMoves
  <2>4. ASSUME tun = "none", devnet = "dir", NEW d \in Conts, upc'[d] = "mkdir"
        PROVE  Making'
    BY <1>1, <1>2, <2>1, <2>2, <2>3, <2>4 DEF MakerGoesOn
  <2>5. ASSUME tun = "none", NEW d \in Conts, pc'[d] = "failed" \/ upc'[d] = "err"
        PROVE  Making'
    <3>1. pc[d] = "failed" \/ upc[d] = "err"
      BY <1>2, <2>5 DEF NetMoves
    <3> QED BY <1>1, <2>1, <2>2, <2>3, <2>5, <3>1 DEF MakerGoesOn
  <2>6. ASSUME tun = "right", addr', NEW d \in Conts, Late(d)'
        PROVE  \E e \in Conts : Ahead(e)'
    <3>1. addr
      BY <1>1, <2>6 DEF NetMoves
    <3>2. ASSUME TapOf[c] \in links PROVE \E e \in Conts : Ahead(e)'
      <4>1. PICK e \in Conts : pc[e] \in {"tapup", "addrdel"}
        BY <2>1, <1>1, <3>1, <3>2 DEF OwnerGoesOn
      <4> QED BY <1>2, <2>6, <4>1 DEF Ahead, NetMoves
    <3>3. ASSUME Late(d) PROVE \E e \in Conts : Ahead(e)'
      <4>1. PICK e \in Conts : Ahead(e)
        BY <1>1, <2>1, <2>6, <3>1, <3>3 DEF MakerGoesOn
      <4>2. CASE e # c
        BY <1>2, <4>1, <4>2 DEF Ahead
      <4>3. CASE e = c
        BY <2>6, <3>2, <4>1, <4>3 DEF Ahead, NetMoves
      <4> QED BY <4>2, <4>3
    <3>4. ASSUME ~Late(d) PROVE d = c /\ TapOf[c] \in links
      BY <1>2, <2>6, <3>4 DEF Late, NetMoves
    <3> QED BY <3>2, <3>3, <3>4
  <2> QED BY <1>2, <2>4, <2>5, <2>6 DEF MakerGoesOn
<1> QED BY <1>3, <1>5, <1>6 DEF WinInv

\* A call that fails and a kill leave OwnerGoesOn and MakerGoesOn nothing to
\* say.
LEMMA FailureKeeps ==
    ASSUME PodInv, NEW c \in Conts, PodCallFails(c)
    PROVE  WinInv'
<1> USE DEF Tun!At
<1>1. /\ TunPassed
      /\ upc \in [Conts \union Others -> Tun!UserLabels]
      /\ pc \in [Conts -> NetLabels]
  BY DEF PodInv, WinInv, TunInv, Tun!TypeOK, TypeOK
<1>2. /\ pc' = [pc EXCEPT ![c] = "failed"]
      /\ "call" \in errs' /\ UNCHANGED <<addr, tun>>
  BY DEF PodCallFails, CallFails, Go, nsVars, Tun!Killed, tunVars
<1>3. upc' = [upc EXCEPT ![c] = "idle"]
  BY <1>1 DEF PodCallFails, Tun!Killed, Tun!GoOn, tunVars
<1>4. TunPassed'
  <2>1. \A d \in Conts : upc'[d] # "idle" => pc'[d] = "tapadd"
    BY <1>1, <1>2, <1>3 DEF TunPassed
  <2>2. \A u \in Conts \union Others : upc'[u] = "reverify" => tun # "none"
    BY <1>1, <1>3 DEF TunPassed
  <2> QED BY <1>1, <1>2, <2>1, <2>2 DEF TunPassed
<1>5. OwnerGoesOn' /\ MakerGoesOn'
  BY <1>2 DEF OwnerGoesOn, MakerGoesOn, Spoilt
<1> QED BY <1>4, <1>5 DEF WinInv

\* Every step of a pod keeps the invariant of the race.
LEMMA PodStepKeeps == PodInv /\ [PodNext]_podVars => WinInv'
<1> SUFFICES ASSUME PodInv, [PodNext]_podVars PROVE WinInv'
  OBVIOUS
<1>1. CASE UNCHANGED podVars
  <2>1. /\ UNCHANGED <<addr, links, pc, owner, errs>>
        /\ UNCHANGED <<devnet, tun, upc, makers, broken>>
    BY <1>1 DEF podVars, vars, nsVars, history, tunVars
  <2>2. TunPassed' /\ OwnerGoesOn'
    BY <2>1 DEF PodInv, WinInv, TunPassed, OwnerGoesOn, Tun!At
  <2>3. MakerGoesOn'
    BY <2>1 DEF PodInv, WinInv, MakerGoesOn, Spoilt, Making, Late, Ahead, Tun!At
  <2> QED BY <2>2, <2>3 DEF WinInv
<1>2. ASSUME NEW c \in Conts, PodStep(c) PROVE WinInv'
  <2>1. CASE InTun(c)
    BY <2>1, UserStepKeeps DEF InTun, UserSteps, Users
  <2> QED BY <1>2, <2>1, NetStepMoves, NetStepKeeps DEF PodStep
<1>3. ASSUME NEW c \in Conts, PodCallFails(c) PROVE WinInv'
  BY <1>3, FailureKeeps
<1>4. ASSUME NEW u \in Others, OtherStep(u) PROVE WinInv'
  <2>1. u \in Users /\ u \notin Conts
    BY OthersAssumption DEF Users
  <2> QED BY <1>4, <2>1, UserStepKeeps DEF OtherStep, UserSteps
<1> QED BY <1>1, <1>2, <1>3, <1>4 DEF PodNext

\* PodInv is an invariant of any pod.
LEMMA PodCorrect == PodSpec => []PodInv
<1>1. PodInit => WinInv
  BY DEF PodInit, Init, Tun!Init, WinInv, TunPassed, OwnerGoesOn, MakerGoesOn,
         Late, Tun!At
<1>2. PodSpec => [](TypeOK /\ NetInv)
  BY PodImplementsNetRun, NetCorrect
<1>3. TypeOK /\ NetInv /\ TunInv /\ WinInv /\ [PodNext]_podVars => WinInv'
  BY PodStepKeeps DEF PodInv
<1>4. PodInv <=> TypeOK /\ NetInv /\ TunInv /\ WinInv
  BY DEF PodInv
<1> QED BY <1>1, <1>2, <1>3, <1>4, TunCorrect, PTL DEF PodSpec

\* It keeps the race going, whoever fails where (network_linux.go:303-325,
\* 348-395).
THEOREM RaceGoesOn == PodSpec => []WinInv
BY PodCorrect, PTL DEF PodInv

\* However many containers of a pod race for /dev/net/tun, for TAP names that
\* may be equal and for the address: when all are through, one has won, unless
\* a call failed or a process of another container interfered
\* (network_linux.go:303-325, 348-395).
THEOREM SomeoneWins == PodSpec => []RaceHasWinner
<1>1. PodInv => RaceHasWinner
  <2> SUFFICES ASSUME PodInv, Conts # {}, \A c \in Conts : pc[c] \in {"done", "failed"},
                      ~Spoilt, served = {}, \A u \in Others : ~Tun!At(u, "mknod")
               PROVE  FALSE
    BY DEF RaceHasWinner
  <2> USE DEF Tun!At
  <2>1. \A c \in Conts : pc[c] = "failed"
    BY DEF PodInv, NetInv, Stage
  <2>2. /\ TunPassed /\ OwnerGoesOn /\ MakerGoesOn
        /\ tun \in {"none", "right"} /\ addr \in BOOLEAN
        /\ owner \in Conts \union {NoCont} /\ (addr <=> owner = NoCont)
    BY DEF PodInv, WinInv, TunInv, Tun!TypeOK, Tun!Nodes, NetInv, TypeOK, Spoilt
  <2>3. addr
    BY <2>1, <2>2 DEF OwnerGoesOn, LateLabels, Spoilt
  <2>4. PICK c \in Conts : Late(c)
    BY <2>1 DEF Late
  <2>5. tun = "right"
    <3>1. Making => FALSE
      BY <2>1, <2>2 DEF Making, TunPassed
    <3> QED BY <2>1, <2>2, <2>4, <3>1 DEF MakerGoesOn
  <2> QED BY <2>1, <2>2, <2>3, <2>4, <2>5 DEF MakerGoesOn, Ahead
<1> QED BY PodCorrect, <1>1, PTL

============================================================================
