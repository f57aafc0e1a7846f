------------------------------ MODULE MCLaunch ------------------------------
(* Inputs around every boundary of the launch code.                        *)
EXTENDS Launch

\* -1 is "unlimited"; just below, at and above the floor, and a large one.
SomeLimits == {-1, 0, 511 * MiB, 512 * MiB - 1, 512 * MiB, 513 * MiB - 1,
               513 * MiB, 2047 * MiB + 5}

SomeEnvs == {<<>>, <<"A=1", "B=2">>, <<"A=1", "">>}

===========================================================================
