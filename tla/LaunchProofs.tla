---------------------------- MODULE LaunchProofs ----------------------------
(***************************************************************************)
(* Proofs about Launch, for any memory limit, whatever the other inputs.   *)
(***************************************************************************)
EXTENDS Launch, TLAPS

USE LaunchAssumption

\* What each stage has behind it.
AfterSpec == {"tapname", "net", "gate", "exec", "run", "running", "paused"}

LaunchInv ==
    /\ in \in Inputs
    /\ cont \in [memory : Int, tap : Int, mask : Int, ip : {"none", "address"},
                 gw : {"none", "gateway", "nilString"}, mac : {"none", "mac"}]
    /\ stage \in AfterSpec => cont.memory = Memory(in.limit)
    /\ stage = "running" => argv.mem = cont.memory

---------------------------------------------------------------------------
\* What ParseSpec makes of a limit (configs/spec.go:39-48): the floor for
\* all limits below 513 MB, and above them the limit in whole megabytes.
LEMMA MemoryIs ==
    ASSUME NEW l \in Int, l # NoLimit
    PROVE  /\ l < 513 * MiB => Memory(l) = 512
           /\ l >= 513 * MiB => /\ Memory(l) \in Int /\ Memory(l) > 512
                                /\ Memory(l) * MiB <= l
                                /\ l - Memory(l) * MiB < MiB
<1>1. CASE l < 0
  <2>1. (-l) \div 1048576 >= 0 /\ (-l) \div 1048576 \in Int
    BY <1>1, SMT
  <2> DEFINE q == (-l) \div 1048576
  <2>2. Memory(l) = IF -q < 512 THEN 512 ELSE -q
    BY <1>1, SMT DEF Memory, Quo, MiB, ContainerMemoryMinimum
  <2>3. -q < 512 /\ l < 513 * MiB /\ ~(l >= 513 * MiB)
    BY <2>1, <1>1, SMT DEF MiB
  <2> QED BY <2>2, <2>3
<1>2. CASE l >= 0
  <2> DEFINE q == l \div 1048576
  <2>1. q \in Int /\ q * 1048576 <= l /\ l < q * 1048576 + 1048576
    BY <1>2, SMT
  <2>2. Memory(l) = IF q < 512 THEN 512 ELSE q
    BY <1>2, SMT DEF Memory, Quo, MiB, ContainerMemoryMinimum
  <2> HIDE DEF q
  <2> QED BY <2>1, <2>2, <1>2, SMT DEF MiB
<1> QED BY <1>1, <1>2

\* Without a limit it is the floor.
LEMMA MemoryOfNone == Memory(NoLimit) = 512
BY DEF Memory, ContainerMemoryMinimum

LEMMA MemoryIsInt == \A l \in Limits \union {NoLimit} : Memory(l) \in Int
<1> SUFFICES ASSUME NEW l \in Limits \union {NoLimit} PROVE Memory(l) \in Int
  OBVIOUS
<1>1. CASE l = NoLimit  BY <1>1, MemoryOfNone
<1>2. CASE l # NoLimit
  <2>1. l \in Int /\ 513 * MiB \in Int
    BY <1>2, SMT DEF MiB
  <2>2. l < 513 * MiB \/ l >= 513 * MiB
    BY <2>1
  <2> QED BY <1>2, <2>1, <2>2, MemoryIs
<1> QED BY <1>1, <1>2

---------------------------------------------------------------------------
LEMMA LaunchStays == Spec => []LaunchInv
<1>1. Init => LaunchInv
  BY DEF Init, LaunchInv, NoCont, AfterSpec
<1>2. LaunchInv /\ [Next]_vars => LaunchInv'
  <2> SUFFICES ASSUME LaunchInv, [Next]_vars PROVE LaunchInv'
    OBVIOUS
  <2> USE DEF LaunchInv, AfterSpec, Fail
  <2>i. /\ in.limit \in Limits \union {NoLimit} /\ in.mask \in Masks
        /\ in.gw \in {"gateway", "nil"} /\ in.hw \in {"none", "mac"}
    BY DEF Inputs
  <2>m. in.mask \in 0 .. 32
    BY <2>i
  <2>1. CASE UNCHANGED vars  BY <2>1 DEF vars
  <2>2. CASE ParseSpec
    <3>1. Memory(in.limit) \in Int
      BY <2>i, MemoryIsInt
    <3> QED BY <2>2, <3>1 DEF ParseSpec
  <2>3. CASE NablaTapName  BY <2>3 DEF NablaTapName, IFNAMSIZ
  <2>4. CASE NetworkRun
    <3>1. /\ stage = "net" /\ stage' = "gate"
          /\ in' = in /\ argv' = argv
      BY <2>4 DEF NetworkRun
    <3>2. cont'.memory = cont.memory
      BY <2>4 DEF NetworkRun
    <3>3. cont' \in [memory : Int, tap : Int, mask : Int, ip : {"none", "address"},
                     gw : {"none", "gateway", "nilString"}, mac : {"none", "mac"}]
      <4>1. in.mask \in Int
        BY <2>m
      <4>2. (IF in.gw = "nil" THEN "nilString" ELSE in.gw) \in {"none", "gateway", "nilString"}
        BY <2>i
      <4> QED BY <2>4, <2>i, <4>1, <4>2 DEF NetworkRun
    <3> QED BY <3>1, <3>2, <3>3
  <2>5. CASE PauseCheck  BY <2>5 DEF PauseCheck
  <2>6. CASE NewRunncCont  BY <2>6 DEF NewRunncCont
  <2>7. CASE Run  BY <2>7 DEF Run
  <2> QED BY <2>1, <2>2, <2>3, <2>4, <2>5, <2>6, <2>7 DEF Next
<1> QED BY <1>1, <1>2, PTL DEF Spec

\* Whatever the limit, a unikernel gets the floor, or the whole megabytes of
\* its limit and never more (configs/spec.go:39-48).
THEOREM MemoryIsGranted == Spec => []MemoryGranted
<1>1. LaunchInv => MemoryGranted
  <2> SUFFICES ASSUME LaunchInv, stage = "running"
               PROVE  \/ argv.mem = 512 /\ (in.limit = NoLimit \/ in.limit < 513 * MiB)
                      \/ /\ in.limit # NoLimit /\ argv.mem > 512
                         /\ argv.mem * MiB <= in.limit
                         /\ in.limit - argv.mem * MiB < MiB
    BY DEF MemoryGranted
  <2>1. argv.mem = Memory(in.limit)
    BY DEF LaunchInv, AfterSpec
  <2>2. CASE in.limit = NoLimit
    BY <2>1, <2>2, MemoryOfNone
  <2>3. CASE in.limit # NoLimit
    <3>1. in.limit \in Limits
      BY <2>3 DEF LaunchInv, Inputs
    <3>3. in.limit \in Int
      BY <3>1
    <3>4. 513 * MiB \in Int
      BY SMT DEF MiB
    <3>2. in.limit < 513 * MiB \/ in.limit >= 513 * MiB
      BY <3>3, <3>4
    <3> QED BY <2>1, <2>3, <3>2, <3>3, MemoryIs
  <2> QED BY <2>2, <2>3
<1> QED BY <1>1, LaunchStays, PTL

=============================================================================
