---------------------------- MODULE RunnerProofs ----------------------------
(***************************************************************************)
(* Proofs about Hook, for any number of hooks, with or without timeouts,   *)
(* and about Runner, for any size of config and socket buffer too.         *)
(***************************************************************************)
EXTENDS Runner, TLAPS

USE HookAssumption

\* The initial state satisfies the invariant.
LEMMA InitHook == Init => TypeOK /\ HookInv
<1> SUFFICES ASSUME Init PROVE TypeOK /\ HookInv
  OBVIOUS
<1>1. bg \in BOOLEAN /\ timer \in BOOLEAN /\ pidOther \in BOOLEAN
  BY DEF Init
<1>2. TypeOK
  BY <1>1 DEF Init, TypeOK
<1>3. HookInv
  BY DEF Init, HookInv, HooksInOrder, NoHookLeft
<1> QED
  BY <1>2, <1>3

\* Every step keeps the types and the invariant.
LEMMA StepHook == TypeOK /\ HookInv /\ [Next]_vars => TypeOK' /\ HookInv'
<1> SUFFICES ASSUME TypeOK, HookInv, [Next]_vars PROVE TypeOK' /\ HookInv'
  OBVIOUS
<1> USE DEF TypeOK, HookInv, HooksInOrder, NoHookLeft, hookVars
<1>1. CASE UNCHANGED vars
  BY <1>1 DEF vars
<1>2. CASE HookForks \/ ChildExits \/ PidReused
  <2>1. CASE HookForks
    <3>1. TypeOK'
      BY <2>1 DEF HookForks
    <3>2. HookInv'
      BY <2>1 DEF HookForks
    <3> QED BY <3>1, <3>2
  <2>2. CASE ChildExits  BY <2>2 DEF ChildExits
  <2>3. CASE PidReused  BY <2>3 DEF PidReused
  <2> QED BY <1>2, <2>1, <2>2, <2>3
<1>3. ASSUME NEW s \in {"ok", "bad"}, HookExits(s) PROVE TypeOK' /\ HookInv'
  BY <1>3 DEF HookExits
<1>4. CASE Start
  BY <1>4 DEF Start
<1>5. CASE Wait4
  BY <1>5 DEF Wait4
<1>6. CASE WaitReturns
  BY <1>6 DEF WaitReturns
<1>7. CASE TimerFires \/ SelectTimer
  BY <1>7 DEF TimerFires, SelectTimer
<1>8. CASE Receive
  BY <1>8 DEF Receive, AfterWait
<1>9. CASE Kill
  <2>1. pidOther' \in BOOLEAN
    BY <1>9 DEF Kill
  <2>2. CASE hook = "running"
    BY <1>9, <2>1, <2>2 DEF Kill
  <2>3. CASE hook # "running"
    BY <1>9, <2>1, <2>3 DEF Kill
  <2> QED
    BY <2>2, <2>3
<1> QED
  BY <1>1, <1>2, <1>3, <1>4, <1>5, <1>6, <1>7, <1>8, <1>9 DEF Next, RunHook, HookWorld

\* The init process runs a hook, and goes on after the last one, only when
\* every hook before has exited with status 0; and no hook process is left
\* running then, or when init gives up.
THEOREM HooksCorrect == Spec => [](HooksInOrder /\ NoHookLeft)
<1>1. TypeOK /\ HookInv => HooksInOrder /\ NoHookLeft
  BY DEF HookInv
<1> QED
  BY InitHook, StepHook, <1>1, PTL DEF Spec

---------------------------------------------------------------------------
(* The create around the hooks.                                            *)

USE SizeAssumption

\* The calls of create that may fail.
Kinds == {"io", "root", "fork", "starttime", "save", "pidopen", "pidwrite",
          "rename", "oom", "destroy"}

\* The variables of create, without those of the hooks.
CreateTypes ==
    /\ pc \in Working \union Over
    /\ size \in 1 .. MaxSize
    /\ notified \in BOOLEAN
    /\ end \in {"none", "term", "kill"}
    /\ sent \in {"none", "part", "all"}
    /\ child \in Alive \union {"none", "dead", "reaped"}
    /\ state \in BOOLEAN
    /\ tmp \in {"none", "stale", "mine"}
    /\ pidfile \in {"none", "old", "part", "new"}
    /\ past \subseteq Kinds

\* What is known at each label of create: which of its steps it has behind
\* it, what it has made by then, and what must have failed for it to be at
\* destroy or at its end with something left.
Early == {"process", "io", "notify", "root", "encode", "fork"}
Recorded == {"pidopen", "pidwrite", "rename"}

Progress ==
    /\ pc \in Early => child = "none" /\ tmp # "mine"
    /\ pc \in (Working \ Early) \ {"destroy"} => child # "none"
    /\ pc = "fork" \/ child # "none" => sent = "all"
    /\ ~notified => child = "none" /\ tmp # "mine"
                      /\ pc \in {"process", "io", "notify", "destroy", "err", "gone"}
    /\ end = "term" => pc = "gone"
    /\ pc \in Recorded => state \/ "save" \in past
    /\ child = "none" => ~state

PidFileLeft ==
    /\ pidfile # "part"
    /\ pidfile = "new" => child # "none" /\ (state \/ "save" \in past \/ pc = "err")
    /\ pidfile = "new" => pc \in {"oom", "ok", "gone"} \/ "oom" \in past

TmpLeft ==
    tmp = "mine" => \/ pc \in {"pidwrite", "rename", "gone"}
                    \/ "pidwrite" \in past \/ "rename" \in past

InitLeft ==
    /\ pc \in {"destroy", "err"} /\ child \in Alive => "starttime" \in past
    /\ end = "term" => child = "none" /\ tmp # "mine"

Leftovers == PidFileLeft /\ TmpLeft /\ InitLeft

CreateInv == CreateTypes /\ Progress /\ Leftovers

---------------------------------------------------------------------------
\* A step of create that only moves on, or fails.
LEMMA MoveTypes ==
    ASSUME CreateTypes, NEW from, NEW l \in Working \union Over, NEW kind \in Kinds,
           Passes(from, l) \/ Fails(from, kind, l)
    PROVE  CreateTypes'
<1>1. pc' = l /\ past' \subseteq Kinds
  BY DEF Passes, Fails, Goes, CreateTypes
<1>2. UNCHANGED <<notified, end, tmp, pidfile, size, sent, child, state>>
  BY DEF Passes, Fails
<1> QED BY <1>1, <1>2 DEF CreateTypes

\* Every step of create keeps the types, and the invariant.
LEMMA StepCreateTypes ==
    ASSUME CreateTypes, RunStep
    PROVE  CreateTypes'
<1>l. /\ AfterSave \union AfterPidFile \union Working \subseteq Working \union Over
      /\ {"io", "notify", "root", "encode", "fork", "starttime", "save", "pidopen",
          "pidwrite", "rename", "terminate", "destroy", "ok", "err"} \subseteq Working \union Over
      /\ {"io", "root", "fork", "starttime", "save", "pidopen", "pidwrite", "rename",
          "oom", "destroy"} \subseteq Kinds
  BY DEF AfterSave, AfterPidFile, Working, Over, Kinds
<1>1. CASE NewProcess \/ SetupIO \/ OpenRoot
  BY <1>1, <1>l, MoveTypes DEF NewProcess, SetupIO, OpenRoot
<1>2. CASE StartTime \/ PidWrite \/ AdjustOomScore
  BY <1>2, <1>l, MoveTypes DEF StartTime, PidWrite, AdjustOomScore
<1>3. CASE NewSignalHandler
  BY <1>3, <1>l DEF NewSignalHandler, CreateTypes, Goes
<1>4. CASE Encode
  BY <1>4, <1>l DEF Encode, CreateTypes, Goes
<1>5. CASE StartFork
  <2>1. CASE Fails("fork", "fork", "destroy")
    BY <2>1, <1>l, MoveTypes
  <2>2. CASE ~Fails("fork", "fork", "destroy")
    BY <1>5, <2>2, <1>l DEF StartFork, CreateTypes, Goes, Alive
  <2> QED BY <2>1, <2>2
<1>6. CASE Save
  <2> PICK l \in AfterSave :
          \/ Fails("save", "save", l)
          \/ /\ Goes("save", l)
             /\ state' = TRUE
             /\ UNCHANGED <<notified, end, tmp, pidfile, size, sent, child, past, vars>>
    BY <1>6 DEF Save
  <2>1. CASE Fails("save", "save", l)
    BY <2>1, <1>l, MoveTypes
  <2>2. CASE ~Fails("save", "save", l)
    BY <2>2, <1>l DEF CreateTypes, Goes
  <2> QED BY <2>1, <2>2
<1>7. CASE PidOpen
  <2>1. CASE Fails("pidopen", "pidopen", "terminate") \/ Passes("pidopen", "terminate")
    BY <2>1, <1>l, MoveTypes
  <2>2. CASE Goes("pidopen", "pidwrite") /\ tmp' = "mine"
             /\ UNCHANGED <<notified, end, pidfile, size, sent, child, state, past, vars>>
    BY <2>2, <1>l DEF CreateTypes, Goes
  <2> QED BY <1>7, <2>1, <2>2 DEF PidOpen
<1>8. CASE Rename
  <2>1. CASE Fails("rename", "rename", "terminate")
    BY <2>1, <1>l, MoveTypes
  <2>2. CASE ~Fails("rename", "rename", "terminate")
    BY <1>8, <2>2, <1>l DEF Rename, CreateTypes, Goes
  <2> QED BY <2>1, <2>2
<1>9. CASE Terminate
  BY <1>9, <1>l DEF Terminate, CreateTypes, Goes, Passes
<1>10. CASE Destroy
  <2>1. CASE Fails("destroy", "destroy", "err")
    BY <2>1, <1>l, MoveTypes
  <2>2. CASE ~Fails("destroy", "destroy", "err")
    BY <1>10, <2>2, <1>l DEF Destroy, CreateTypes, Goes
  <2> QED BY <2>1, <2>2
<1> QED
  BY <1>1, <1>2, <1>3, <1>4, <1>5, <1>6, <1>7, <1>8, <1>9, <1>10 DEF RunStep

LEMMA StepCreate ==
    ASSUME CreateInv, RunStep
    PROVE  CreateInv'
<1> USE DEF Early, Recorded, Working, Over, Alive, Goes, Passes, Fails, Kinds
<1>i. CreateTypes /\ Progress /\ Leftovers
  BY DEF CreateInv
<1>1. CASE NewProcess
  BY <1>1, <1>i DEF NewProcess, CreateInv, CreateTypes, Progress, Leftovers,
     PidFileLeft, TmpLeft, InitLeft
<1>2. CASE SetupIO
  <2>1. CreateTypes'
    BY <1>i, StepCreateTypes
  <2>2. Progress'
    BY <1>2, <1>i DEF SetupIO, CreateTypes, Progress
  <2>3. PidFileLeft'
    BY <1>2, <1>i DEF SetupIO, CreateTypes, Progress, Leftovers, PidFileLeft
  <2>4. TmpLeft'
    BY <1>2, <1>i DEF SetupIO, Leftovers, TmpLeft
  <2>5. InitLeft'
    BY <1>2, <1>i DEF SetupIO, CreateTypes, Progress, Leftovers, InitLeft
  <2> QED BY <2>1, <2>2, <2>3, <2>4, <2>5 DEF CreateInv, Leftovers
<1>3. CASE NewSignalHandler
  <2>1. CreateTypes'
    BY <1>i, StepCreateTypes
  <2>2. Progress'
    BY <1>3, <1>i DEF NewSignalHandler, CreateTypes, Progress
  <2>3. PidFileLeft'
    BY <1>3, <1>i DEF NewSignalHandler, CreateTypes, Progress, Leftovers, PidFileLeft
  <2>4. TmpLeft'
    BY <1>3, <1>i DEF NewSignalHandler, Leftovers, TmpLeft
  <2>5. InitLeft'
    BY <1>3, <1>i DEF NewSignalHandler, CreateTypes, Progress, Leftovers, InitLeft
  <2> QED BY <2>1, <2>2, <2>3, <2>4, <2>5 DEF CreateInv, Leftovers
<1>4. CASE OpenRoot
  <2>1. CreateTypes'
    BY <1>i, StepCreateTypes
  <2>2. Progress'
    BY <1>4, <1>i DEF OpenRoot, CreateTypes, Progress
  <2>3. PidFileLeft'
    BY <1>4, <1>i DEF OpenRoot, CreateTypes, Progress, Leftovers, PidFileLeft
  <2>4. TmpLeft'
    BY <1>4, <1>i DEF OpenRoot, Leftovers, TmpLeft
  <2>5. InitLeft'
    BY <1>4, <1>i DEF OpenRoot, CreateTypes, Progress, Leftovers, InitLeft
  <2> QED BY <2>1, <2>2, <2>3, <2>4, <2>5 DEF CreateInv, Leftovers
<1>5. CASE Encode
  <2>1. CreateTypes'
    BY <1>i, StepCreateTypes
  <2>2. Progress'
    BY <1>5, <1>i DEF Encode, CreateTypes, Progress
  <2>3. PidFileLeft'
    BY <1>5, <1>i DEF Encode, CreateTypes, Progress, Leftovers, PidFileLeft
  <2>4. TmpLeft'
    BY <1>5, <1>i DEF Encode, Leftovers, TmpLeft
  <2>5. InitLeft'
    BY <1>5, <1>i DEF Encode, CreateTypes, Progress, Leftovers, InitLeft
  <2> QED BY <2>1, <2>2, <2>3, <2>4, <2>5 DEF CreateInv, Leftovers
<1>6. CASE StartFork
  <2>1. CreateTypes'
    BY <1>i, StepCreateTypes
  <2>2. Progress'
    BY <1>6, <1>i DEF StartFork, CreateTypes, Progress
  <2>3. PidFileLeft'
    BY <1>6, <1>i DEF StartFork, CreateTypes, Progress, Leftovers, PidFileLeft
  <2>4. TmpLeft'
    BY <1>6, <1>i DEF StartFork, Leftovers, TmpLeft
  <2>5. InitLeft'
    BY <1>6, <1>i DEF StartFork, CreateTypes, Progress, Leftovers, InitLeft
  <2> QED BY <2>1, <2>2, <2>3, <2>4, <2>5 DEF CreateInv, Leftovers
<1>7. CASE StartTime
  <2>1. CreateTypes'
    BY <1>i, StepCreateTypes
  <2>2. Progress'
    BY <1>7, <1>i DEF StartTime, CreateTypes, Progress
  <2>3. PidFileLeft'
    BY <1>7, <1>i DEF StartTime, CreateTypes, Progress, Leftovers, PidFileLeft
  <2>4. TmpLeft'
    BY <1>7, <1>i DEF StartTime, Leftovers, TmpLeft
  <2>5. InitLeft'
    BY <1>7, <1>i DEF StartTime, CreateTypes, Progress, Leftovers, InitLeft
  <2> QED BY <2>1, <2>2, <2>3, <2>4, <2>5 DEF CreateInv, Leftovers
<1>8. CASE Save
  <2>1. CreateTypes'
    BY <1>i, StepCreateTypes
  <2>2. Progress'
    BY <1>8, <1>i DEF Save, AfterSave, CreateTypes, Progress
  <2>3. PidFileLeft'
    BY <1>8, <1>i DEF Save, AfterSave, CreateTypes, Progress, Leftovers, PidFileLeft
  <2>4. TmpLeft'
    BY <1>8, <1>i DEF Save, AfterSave, Leftovers, TmpLeft
  <2>5. InitLeft'
    BY <1>8, <1>i DEF Save, AfterSave, CreateTypes, Progress, Leftovers, InitLeft
  <2> QED BY <2>1, <2>2, <2>3, <2>4, <2>5 DEF CreateInv, Leftovers
<1>9. CASE PidOpen
  <2>1. CreateTypes'
    BY <1>i, StepCreateTypes
  <2>2. Progress'
    BY <1>9, <1>i DEF PidOpen, CreateTypes, Progress
  <2>3. PidFileLeft'
    BY <1>9, <1>i DEF PidOpen, CreateTypes, Progress, Leftovers, PidFileLeft
  <2>4. TmpLeft'
    BY <1>9, <1>i DEF PidOpen, Leftovers, TmpLeft
  <2>5. InitLeft'
    BY <1>9, <1>i DEF PidOpen, CreateTypes, Progress, Leftovers, InitLeft
  <2> QED BY <2>1, <2>2, <2>3, <2>4, <2>5 DEF CreateInv, Leftovers
<1>10. CASE PidWrite
  <2>1. CreateTypes'
    BY <1>i, StepCreateTypes
  <2>2. Progress'
    BY <1>10, <1>i DEF PidWrite, CreateTypes, Progress
  <2>3. PidFileLeft'
    BY <1>10, <1>i DEF PidWrite, CreateTypes, Progress, Leftovers, PidFileLeft
  <2>4. TmpLeft'
    BY <1>10, <1>i DEF PidWrite, Leftovers, TmpLeft
  <2>5. InitLeft'
    BY <1>10, <1>i DEF PidWrite, CreateTypes, Progress, Leftovers, InitLeft
  <2> QED BY <2>1, <2>2, <2>3, <2>4, <2>5 DEF CreateInv, Leftovers
<1>11. CASE Rename
  <2>1. CreateTypes'
    BY <1>i, StepCreateTypes
  <2>2. Progress'
    BY <1>11, <1>i DEF Rename, AfterPidFile, CreateTypes, Progress
  <2>3. PidFileLeft'
    BY <1>11, <1>i DEF Rename, AfterPidFile, CreateTypes, Progress, Leftovers, PidFileLeft
  <2>4. TmpLeft'
    BY <1>11, <1>i DEF Rename, AfterPidFile, Leftovers, TmpLeft
  <2>5. InitLeft'
    BY <1>11, <1>i DEF Rename, AfterPidFile, CreateTypes, Progress, Leftovers, InitLeft
  <2> QED BY <2>1, <2>2, <2>3, <2>4, <2>5 DEF CreateInv, Leftovers
<1>12. CASE AdjustOomScore
  <2>1. CreateTypes'
    BY <1>i, StepCreateTypes
  <2>2. Progress'
    BY <1>12, <1>i DEF AdjustOomScore, CreateTypes, Progress
  <2>3. PidFileLeft'
    BY <1>12, <1>i DEF AdjustOomScore, CreateTypes, Progress, Leftovers, PidFileLeft
  <2>4. TmpLeft'
    BY <1>12, <1>i DEF AdjustOomScore, Leftovers, TmpLeft
  <2>5. InitLeft'
    BY <1>12, <1>i DEF AdjustOomScore, CreateTypes, Progress, Leftovers, InitLeft
  <2> QED BY <2>1, <2>2, <2>3, <2>4, <2>5 DEF CreateInv, Leftovers
<1>13. CASE Terminate
  <2>1. CreateTypes'
    BY <1>i, StepCreateTypes
  <2>2. Progress'
    BY <1>13, <1>i DEF Terminate, CreateTypes, Progress
  <2>3. PidFileLeft'
    BY <1>13, <1>i DEF Terminate, CreateTypes, Progress, Leftovers, PidFileLeft
  <2>4. TmpLeft'
    BY <1>13, <1>i DEF Terminate, Leftovers, TmpLeft
  <2>5. InitLeft'
    BY <1>13, <1>i DEF Terminate, CreateTypes, Progress, Leftovers, InitLeft
  <2> QED BY <2>1, <2>2, <2>3, <2>4, <2>5 DEF CreateInv, Leftovers
<1>14. CASE Destroy
  <2>1. CreateTypes'
    BY <1>i, StepCreateTypes
  <2>2. Progress'
    BY <1>14, <1>i DEF Destroy, CreateTypes, Progress
  <2>3. PidFileLeft'
    BY <1>14, <1>i DEF Destroy, CreateTypes, Progress, Leftovers, PidFileLeft
  <2>4. TmpLeft'
    BY <1>14, <1>i DEF Destroy, Leftovers, TmpLeft
  <2>5. InitLeft'
    BY <1>14, <1>i DEF Destroy, CreateTypes, Progress, Leftovers, InitLeft
  <2> QED BY <2>1, <2>2, <2>3, <2>4, <2>5 DEF CreateInv, Leftovers
<1> QED
  BY <1>1, <1>2, <1>3, <1>4, <1>5, <1>6, <1>7, <1>8, <1>9, <1>10, <1>11, <1>12,
     <1>13, <1>14 DEF RunStep

\* Signals, init and hooks keep it too: init only moves from life to death
\* and on.
LEMMA StepOthers ==
    ASSUME CreateInv,
           \/ InitStep \/ InitDies \/ HooksAlone
           \/ \E s \in {"term", "kill"} : Signalled(s)
           \/ UNCHANGED runVars
    PROVE  CreateInv'
<1> USE DEF CreateInv, CreateTypes, Progress, Leftovers, PidFileLeft, TmpLeft,
            InitLeft, Early, Recorded, Working,
            Over, Alive, createVars
<1>1. ASSUME NEW s \in {"term", "kill"}, Signalled(s) PROVE CreateInv'
  BY <1>1 DEF Signalled
<1>2. ASSUME UNCHANGED createVars, child \in Alive, child' \in Alive \union {"dead"}
      PROVE  CreateInv'
  <2>1. child # "none" /\ child' # "none"
    BY <1>2
  <2> QED BY <1>2, <2>1
<1>3. ASSUME UNCHANGED createVars, UNCHANGED child PROVE CreateInv'
  BY <1>3
<1>4. CASE InitStep \/ InitDies
  <2>1. UNCHANGED createVars
    BY <1>4 DEF InitStep, InitDies, InitMoves, InitDecode, InitRunsHook,
                InitHooksDone, InitHookFailed
  <2>2. UNCHANGED child \/ (child \in Alive /\ child' \in Alive \union {"dead"})
    BY <1>4 DEF InitStep, InitDies, InitMoves, InitDecode, InitRunsHook,
                InitHooksDone, InitHookFailed
  <2> QED BY <2>1, <2>2, <1>2, <1>3
<1>5. CASE HooksAlone \/ UNCHANGED runVars
  BY <1>5, <1>3 DEF HooksAlone, runVars
<1> QED BY <1>1, <1>4, <1>5

LEMMA CreateCorrect == RunSpec => []CreateInv
<1>1. RunInit => CreateInv
  BY DEF RunInit, CreateInv, CreateTypes, Progress, Leftovers, PidFileLeft, TmpLeft,
            InitLeft, Early, Recorded,
         Working, Over, Alive
<1>2. CreateInv /\ [RunNext]_runVars => CreateInv'
  BY StepCreate, StepOthers DEF RunNext
<1> QED BY <1>1, <1>2, PTL DEF RunSpec

\* Whatever fails, whoever is killed, and whatever signals come, a failed
\* create leaves only what a failure of one of its last steps explains
\* (util_runner.go:41-94, container_nabla.go:226-247).
THEOREM FailuresExplain == RunSpec => []FailureLeaves
<1>1. CreateInv => FailureLeaves
  BY DEF CreateInv, Progress, Leftovers, PidFileLeft, TmpLeft, InitLeft,
         FailureLeaves
<1> QED BY <1>1, CreateCorrect, PTL

\* The pid file is never seen half written, and names an init process whose
\* state.json was written, unless the save or the create failed
\* (util_runner.go:82-88, 158-180, container_nabla.go:247).
THEOREM PidFileComesWhole == RunSpec => []PidFileWhole
<1>1. CreateInv => PidFileWhole
  BY DEF CreateInv, Progress, Leftovers, PidFileLeft, TmpLeft, PidFileWhole
<1> QED BY <1>1, CreateCorrect, PTL

\* No init process is forked before the whole of its config is in the socket
\* pair (container_nabla.go:226-235), for any size of both.
THEOREM ConfigComesFirst == RunSpec => []ConfigBeforeInit
<1>1. CreateInv => ConfigBeforeInit
  BY DEF CreateInv, Progress, ConfigBeforeInit
<1> QED BY <1>1, CreateCorrect, PTL

\* A create that SIGTERM ends had not forked an init process, nor written its
\* state.json or its pid file: from newSignalHandler on it does not die of the
\* signal (util_signal.go:28-48, util_runner.go:60-94).
THEOREM TermIsEarly == RunSpec => []TermLeavesNoInit
<1>1. CreateInv => TermLeavesNoInit
  BY DEF CreateInv, Progress, Leftovers, PidFileLeft, InitLeft, TermLeavesNoInit
<1> QED BY <1>1, CreateCorrect, PTL

\* The hooks in the init process of a create are the hooks of module Hook,
\* so that its invariants hold with signals, kills and failures around them.
THEOREM RunnerImplementsHook == RunSpec => Spec
<1>1. RunInit => Init
  BY DEF RunInit
<1>2. [RunNext]_runVars => [Next]_vars
  <2> SUFFICES ASSUME [RunNext]_runVars PROVE Next \/ UNCHANGED vars
    OBVIOUS
  <2>1. CASE RunStep
    BY <2>1 DEF RunStep, NewProcess, SetupIO, NewSignalHandler, OpenRoot, Encode,
                StartFork, StartTime, Save, PidOpen, PidWrite, Rename,
                AdjustOomScore, Terminate, Destroy, Passes, Fails
  <2>2. CASE InitStep \/ InitDies
    BY <2>2 DEF InitStep, InitDies, InitMoves, InitDecode, InitRunsHook,
                InitHooksDone, InitHookFailed, Next
  <2>3. CASE HooksAlone
    BY <2>3 DEF HooksAlone, Next
  <2>4. CASE \E s \in {"term", "kill"} : Signalled(s)
    BY <2>4 DEF Signalled
  <2>5. CASE UNCHANGED runVars
    BY <2>5 DEF runVars
  <2> QED BY <2>1, <2>2, <2>3, <2>4, <2>5 DEF RunNext
<1> QED BY <1>1, <1>2, PTL DEF RunSpec, Spec

\* The types of the variables of create, init and hooks.
THEOREM RunTypes == RunSpec => []RunTypeOK
<1>1. CreateInv /\ TypeOK => RunTypeOK
  BY DEF CreateInv, CreateTypes, Kinds, RunTypeOK
<1>2. Spec => []TypeOK
  BY InitHook, StepHook, PTL DEF Spec
<1> QED BY <1>1, <1>2, CreateCorrect, RunnerImplementsHook, PTL

\* Nor does a create leave a hook running when its init process goes on or
\* gives up, whatever signals and failures there are around the hooks
\* (hooks.go:43-65).
THEOREM NoHookStays == RunSpec => []NoHookLeft
<1>1. HooksInOrder /\ NoHookLeft => NoHookLeft
  OBVIOUS
<1> QED BY <1>1, HooksCorrect, RunnerImplementsHook, PTL

=============================================================================
