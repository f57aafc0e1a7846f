------------------------------ MODULE StartGate ------------------------------
(***************************************************************************)
(* What the exec fifo promises, without files, pids or commands.  Starts   *)
(* come to a gate.  An init process passes it only while a start is there  *)
(* and leaves one token, which answers one of the starts that are there;   *)
(* the others are refused.  A start may give up, and may take the token    *)
(* with it; no token is left for starts that come after all of these are   *)
(* gone.                                                                   *)
(***************************************************************************)
EXTENDS Naturals

CONSTANTS Gates, Starts

VARIABLES
    there,     \* there[g]: the starts at gate g
    token,     \* the gates with a token nobody has taken
    passed,    \* passed[g]: how often an init process has passed gate g
    answered   \* answered[g]: how many starts were answered there

vars == <<there, token, passed, answered>>

Init == /\ there = [g \in Gates |-> {}]
        /\ token = {}
        /\ passed = [g \in Gates |-> 0]
        /\ answered = [g \in Gates |-> 0]

Come(g, s) ==
    /\ \A h \in Gates : s \notin there[h]
    /\ there' = [there EXCEPT ![g] = @ \union {s}]
    /\ UNCHANGED <<token, passed, answered>>

Pass(g) ==
    /\ there[g] # {}
    /\ token' = token \union {g}
    /\ passed' = [passed EXCEPT ![g] = @ + 1]
    /\ UNCHANGED <<there, answered>>

Answer(g, s) ==
    /\ s \in there[g]
    /\ g \in token
    /\ there' = [there EXCEPT ![g] = @ \ {s}]
    /\ token' = token \ {g}
    /\ answered' = [answered EXCEPT ![g] = @ + 1]
    /\ UNCHANGED passed

\* A start leaves with nothing: refused because there is no token, or given
\* up, when it may lose the token and the last one surely does.
Leave(g, s) ==
    /\ s \in there[g]
    /\ there' = [there EXCEPT ![g] = @ \ {s}]
    /\ \/ token' = token \ {g}
       \/ there[g] # {s} /\ UNCHANGED token
    /\ UNCHANGED <<passed, answered>>

Next == \E g \in Gates : Pass(g) \/ \E s \in Starts : \/ Come(g, s)
                                                       \/ Answer(g, s)
                                                       \/ Leave(g, s)

Spec == Init /\ [][Next]_vars

==============================================================================
