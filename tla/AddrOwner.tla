----------------------------- MODULE AddrOwner -----------------------------
(***************************************************************************)
(* What NetworkRunFunc promises about the IPv4 address that the CNI plugin *)
(* or Docker gave to a network namespace: it is handed to at most one of   *)
(* the containers that share the namespace, once, and never given back.    *)
(***************************************************************************)
CONSTANTS Conts, NoCont

VARIABLES
    owner,      \* the container that took the address off eth0
    served      \* the containers whose set up ended with the address

Init == owner = NoCont /\ served = {}

Take(c) == /\ owner = NoCont
           /\ owner' = c
           /\ UNCHANGED served

Serve(c) == /\ owner = c
            /\ served' = served \union {c}
            /\ UNCHANGED owner

Next == \E c \in Conts : Take(c) \/ Serve(c)

Spec == Init /\ [][Next]_<<owner, served>>

===========================================================================
