-------------------------------- MODULE Hook --------------------------------
(***************************************************************************)
(* The prestart hooks that an init process runs one after the other, and   *)
(* runHook: the hook's process, the child it may leave in the background   *)
(* with the hook's stdout, the goroutine in cmd.Wait, the buffered channel *)
(* and the timer.  A hook may exit, hang, or exit when its time is up.     *)
(* Module Runner puts this into the init process that create forks.        *)
(***************************************************************************)
EXTENDS Naturals

CONSTANTS
    Last,      \* the number of prestart hooks
    Timed      \* the hooks that have a timeout

ASSUME HookAssumption == Last \in Nat \ {0} /\ Timed \subseteq 1 .. Last

VARIABLES
    k,         \* the hook that is being run
    main,      \* where runHook is
    hook,      \* the hook's process
    status,    \* status[h]: how hook h ended
    bg,        \* a background child holds the hook's stdout
    waiter,    \* where cmd.Wait is: in wait4, reading stdout, or over
    done,      \* what is in the channel
    timer,     \* the timer has fired
    pidOther   \* the hook's pid belongs to an unrelated process

hookVars == <<hook, status, bg>>
vars == <<k, main, hookVars, waiter, done, timer, pidOther>>

Init == /\ k = 1
        /\ main = "start"
        /\ hook = "none"
        /\ status = [h \in 1 .. Last |-> "none"]
        /\ bg = FALSE
        /\ waiter = "none"
        /\ done = "empty"
        /\ timer = FALSE
        /\ pidOther = FALSE

---------------------------------------------------------------------------
(* The hook.                                                               *)

HookForks == /\ hook = "running" /\ ~bg
             /\ bg' = TRUE
             /\ UNCHANGED <<k, main, hook, status, waiter, done, timer, pidOther>>

HookExits(s) == /\ hook = "running"
                /\ hook' = "zombie"
                /\ status' = [status EXCEPT ![k] = s]
                /\ UNCHANGED <<k, main, bg, waiter, done, timer, pidOther>>

ChildExits == /\ bg
              /\ bg' = FALSE
              /\ UNCHANGED <<k, main, hook, status, waiter, done, timer, pidOther>>

\* The pid is free once the hook has been reaped.
PidReused == /\ hook = "reaped" /\ ~pidOther
             /\ pidOther' = TRUE
             /\ UNCHANGED <<k, main, hookVars, waiter, done, timer>>

---------------------------------------------------------------------------
(* runHook.                                                                *)

\* cmd.Start; with a timeout cmd.Wait runs in a goroutine.
Start == /\ main = "start"
         /\ \/ /\ main' = IF k \in Timed THEN "select" ELSE "wait"
               /\ hook' = "running"
               /\ waiter' = "wait4"
               /\ pidOther' = FALSE
            \/ /\ main' = "failed"
               /\ UNCHANGED <<hook, waiter, pidOther>>
         /\ bg' = FALSE /\ done' = "empty" /\ timer' = FALSE
         /\ UNCHANGED <<k, status>>

\* cmd.Wait reaps the hook, then reads its output to the end of file.
Wait4 == /\ waiter = "wait4"
         /\ hook = "zombie"
         /\ hook' = "reaped"
         /\ waiter' = "copy"
         /\ UNCHANGED <<k, main, status, bg, done, timer, pidOther>>

\* The goroutine puts the result in the channel, which has room for it.
WaitReturns == /\ waiter = "copy"
               /\ ~bg
               /\ waiter' = "over"
               /\ done' = status[k]
               /\ UNCHANGED <<k, main, hookVars, timer, pidOther>>

TimerFires == /\ main = "select" /\ ~timer
              /\ timer' = TRUE
              /\ UNCHANGED <<k, main, hookVars, waiter, done, pidOther>>

\* Mutant of AfterWait: the error of the hook is dropped.
AfterWaitIgnored(s) == IF k = Last THEN "done" ELSE "start"

\* A hook that failed ends the init process; otherwise the next one.
AfterWait(s) == IF s # "ok" THEN "failed"
                ELSE IF k = Last THEN "done" ELSE "start"

\* Mutant of Receive: the loop does not end with the last hook.
ReceiveAndNext == /\ main \in {"select", "wait"}
                  /\ done # "empty"
                  /\ done' = "empty"
                  /\ main' = IF done = "ok" THEN "start" ELSE "failed"
                  /\ k' = k + 1
                  /\ UNCHANGED <<hookVars, waiter, timer, pidOther>>

\* The result arrives: from the channel, or (without a timeout) directly.
Receive == /\ main \in {"select", "wait"}
           /\ done # "empty"
           /\ done' = "empty"
           /\ main' = AfterWait(done)
           /\ k' = IF AfterWait(done) = "start" THEN k + 1 ELSE k
           /\ UNCHANGED <<hookVars, waiter, timer, pidOther>>

\* Mutant of SelectTimer: the hook is not killed.
SelectTimerReturns == /\ main = "select" /\ timer
                      /\ main' = "failed"
                      /\ UNCHANGED <<k, hookVars, waiter, done, timer, pidOther>>

\* select takes the timer, also when a result is there as well.
SelectTimer == /\ main = "select" /\ timer
               /\ main' = "kill"
               /\ UNCHANGED <<k, hookVars, waiter, done, timer, pidOther>>

\* Mutant of Kill: runHook then waits for the result.
KillAndWait == /\ main = "kill"
               /\ hook' = IF hook = "running" THEN "zombie" ELSE hook
               /\ status' = IF hook = "running"
                            THEN [status EXCEPT ![k] = "killed"] ELSE status
               /\ main' = "wait"
               /\ UNCHANGED <<k, bg, waiter, done, timer, pidOther>>

\* SIGKILL to the pid, which is the hook's, nobody's, or an unrelated
\* process's by now; runHook returns an error in each case.
Kill == /\ main = "kill"
        /\ hook' = IF hook = "running" THEN "zombie" ELSE hook
        /\ status' = IF hook = "running"
                     THEN [status EXCEPT ![k] = "killed"] ELSE status
        /\ pidOther' = FALSE
        /\ main' = "failed"
        /\ UNCHANGED <<k, bg, waiter, done, timer>>

\* What runHook, Go and the kernel see to.
RunHook == Start \/ Wait4 \/ WaitReturns \/ TimerFires \/ Receive
           \/ SelectTimer \/ Kill

\* What the hook and its child do.
HookWorld == \/ HookForks \/ ChildExits \/ PidReused
             \/ \E s \in {"ok", "bad"} : HookExits(s)

Next == HookWorld \/ RunHook

Spec == Init /\ [][Next]_vars

---------------------------------------------------------------------------
\* The types of the variables.
TypeOK == /\ k \in 1 .. Last
          /\ main \in {"start", "select", "wait", "kill", "done", "failed"}
          /\ hook \in {"none", "running", "zombie", "reaped"}
          /\ status \in [1 .. Last -> {"none", "ok", "bad", "killed"}]
          /\ bg \in BOOLEAN
          /\ waiter \in {"none", "wait4", "copy", "over"}
          /\ done \in {"empty", "ok", "bad", "killed"}
          /\ timer \in BOOLEAN
          /\ pidOther \in BOOLEAN

\* A hook runs, and the init process goes on after the last one, only when
\* every hook before it has exited with status 0 and was not timed out,
\* whatever the order of exit, end of output and timer (hooks.go:43-65,
\* init_nabla.go:119-125).
HooksInOrder ==
    \A h \in 1 .. Last : h < k \/ main = "done" => status[h] = "ok"

\* No hook process is running while the init process prepares the next
\* one, goes on to the network, or gives up.
NoHookLeft == main \in {"start", "done", "failed"} => hook # "running"

\* What makes both inductive: a result in the channel is the status of a
\* hook that has been reaped.
HookInv == /\ HooksInOrder
           /\ NoHookLeft
           /\ waiter = "copy" => hook = "reaped"
           /\ waiter \in {"wait4", "copy"} /\ hook \in {"zombie", "reaped"}
                => status[k] # "none"
           /\ done # "empty" => /\ hook = "reaped"
                                /\ waiter = "over"
                                /\ done = status[k]
           /\ main = "done" => k = Last

===========================================================================
