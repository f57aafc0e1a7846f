---------------------------- MODULE OciContainer ----------------------------
(***************************************************************************)
(* The life of a container as its user sees it: it is absent until a       *)
(* create makes it, it runs once it is started, it stops when its process  *)
(* dies, and only a container that has stopped is removed.  A create that  *)
(* fails leaves nothing.                                                   *)
(***************************************************************************)
CONSTANT Ids

VARIABLE phase    \* phase[i]: where container i is

Phases == {"absent", "creating", "created", "running", "stopped"}

Init == phase = [i \in Ids |-> "absent"]

Move(i, from, to) == /\ phase[i] \in from
                     /\ \E t \in to : phase' = [phase EXCEPT ![i] = t]

Create(i) == Move(i, {"absent"}, {"creating"})

\* The process may be dead by the time create returns.
Created(i) == Move(i, {"creating"}, {"created", "stopped"})

CreateFails(i) == Move(i, {"creating"}, {"absent"})

Start(i) == Move(i, {"created"}, {"running"})

Die(i) == Move(i, {"created", "running"}, {"stopped"})

Delete(i) == Move(i, {"stopped"}, {"absent"})

Next == \E i \in Ids : \/ Create(i) \/ Created(i) \/ CreateFails(i)
                       \/ Start(i) \/ Die(i) \/ Delete(i)

Spec == Init /\ [][Next]_phase

=============================================================================
