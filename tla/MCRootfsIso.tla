---------------------------- MODULE MCRootfsIso ----------------------------
(* A short file, a longer one and a directory as sources, an image file that *)
(* is there before, and bundles that share one rootfs.                       *)
EXTENDS RootfsIso, TLC

CreateSymmetry == Permutations(Creates)

MCTree == [short |-> [dir |-> FALSE, files |-> <<<<"s">>>>],
           long |-> [dir |-> FALSE, files |-> <<<<"l", "l">>>>],
           folder |-> [dir |-> TRUE, files |-> <<<<"f">>, <<"g">>>>]]

MCImage == {<<"i", "i">>}

M(d, s) == [dest |-> d, source |-> s]

MCBundles == {[root |-> r, mounts |-> ms] : r \in Roots,
              ms \in {<<M("hosts", "long"), M("hostname", "short")>>,
                      <<M("data", "long"), M("hostname", "long"), M("hostname", "short")>>,
                      <<M("hostname", "folder")>>}}
=============================================================================
