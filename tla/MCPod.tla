------------------------------- MODULE MCPod -------------------------------
(* A pod with a pause container; others, if any, share a TAP name. *)
EXTENDS Pod

\* Ids that agree in their first twelve characters.
CutTapName == [c \in Conts |-> IF c \in Pause THEN "tap0" ELSE "tap1"]

============================================================================
