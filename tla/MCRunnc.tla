------------------------------ MODULE MCRunnc ------------------------------
(* Values for the constants of Runnc.                                      *)
EXTENDS Racing, TLC

\* Every id has a TAP device name of its own.
OwnTap == [i \in Ids |-> i]

\* Ids that agree in their first twelve characters share one name.
SharedTap == [i \in Ids |-> "tap"]

\* Commands are interchangeable.
CliSymmetry == Permutations(Clis)

===========================================================================
