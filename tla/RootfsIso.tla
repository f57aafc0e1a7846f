------------------------------ MODULE RootfsIso ------------------------------
(***************************************************************************)
(* createRootfsISO: a create copies the files mounted on /etc/resolv.conf, *)
(* /etc/hosts and /etc/hostname into its rootfs and has genisoimage make   *)
(* an ISO of it.  Creates may share a rootfs, with nothing between them,   *)
(* fail or be killed half way, and be tried again on what they left.       *)
(***************************************************************************)
EXTENDS Integers, Sequences

CONSTANTS
    Creates,    \* the create commands, one per container
    Roots,      \* the root file systems
    Copied,     \* the destinations that are copied
    Blocks,     \* what a block of a file may hold; data are sequences of them
    Image,      \* the data an image may have at a destination
    Tree,       \* Tree[s]: source s, [dir : BOOLEAN, files : Seq(Seq(Blocks))]
    Bundles,    \* the bundles: [root : Roots, mounts : Seq([dest, source])]
    MaxTries    \* bound: how often a create is tried again

\* A source is a file, or a directory of any number of files.
ASSUME TreeAssumption ==
    \A s \in DOMAIN Tree :
        /\ Tree[s] \in [dir : BOOLEAN, files : Seq(Seq(Blocks))]
        /\ ~Tree[s].dir => Len(Tree[s].files) = 1

ASSUME BundleAssumption ==
    /\ \A b \in Bundles :
        /\ b.root \in Roots
        /\ Len(b.mounts) \in Nat
        /\ \A m \in 1 .. Len(b.mounts) : b.mounts[m].source \in DOMAIN Tree
    /\ Image \subseteq Seq(Blocks)
    /\ MaxTries \in Nat

VARIABLES
    bundle,     \* bundle[c]: the bundle of create c
    node,       \* node[r][p]: what root file system r has at path p
    pc,         \* where create c is
    pos,        \* pos[c]: <<m, k>>, the mount that c is at, and the file in its directory
    at,         \* at[c]: the blocks of that file that are written
    iso,        \* iso[c]: what genisoimage has read
    tries,      \* tries[c]: how often c was tried again
    with        \* with[c]: creates in the same rootfs at the same time (history)

vars == <<bundle, node, pc, pos, at, iso, tries, with>>

Working == {"copy", "write", "iso"}

\* Where a file or directory may be copied to: <<d, 0>> is destination d, and
\* <<d, k>> the k-th file in it.
Paths == UNION {{<<d, k>> : d \in Copied, k \in 0 .. Len(Tree[s].files)} : s \in DOMAIN Tree}

Data == Seq(Blocks \union {"zero"})
None == [kind |-> "none", data |-> <<>>]
Dir == [kind |-> "dir", data |-> <<>>]
File(data) == [kind |-> "file", data |-> data]
Unread == [kind |-> "unread", data |-> <<>>]
NoIso == [p \in Paths |-> Unread]

Root(c) == bundle[c].root
Mounts(c) == bundle[c].mounts
Source(c, m) == Tree[Mounts(c)[m].source]

\* The loop over the mounts takes three destinations.
Taken(c, m) == Mounts(c)[m].dest \in Copied

\* pcopy: a directory is followed by its files, a file is copied alone.
Files(c, m) == IF Source(c, m).dir THEN Len(Source(c, m).files) ELSE 0

\* All that create c copies, the path it goes to, and what it should be there.
Places(c) == UNION {{<<m, k>> : k \in 0 .. Files(c, m)} :
                       m \in {m \in 1 .. Len(Mounts(c)) : Taken(c, m)}}
Path(c, q) == <<Mounts(c)[q[1]].dest, q[2]>>
Copy(c, q) == IF q[2] # 0 THEN File(Source(c, q[1]).files[q[2]])
              ELSE IF Source(c, q[1]).dir THEN Dir
              ELSE File(Source(c, q[1]).files[1])

\* Where create c goes on: the next file of the directory, or the next mount.
Following(c) == IF Taken(c, pos[c][1]) /\ pos[c][2] < Files(c, pos[c][1])
                THEN <<pos[c][1], pos[c][2] + 1>>
                ELSE <<pos[c][1] + 1, 0>>

Target(c) == Path(c, pos[c])
Wanted(c) == Copy(c, pos[c])

Init == /\ bundle \in [Creates -> Bundles]
        /\ node \in [Roots -> {n \in [Paths -> {None} \union {File(d) : d \in Image}] :
                                  \A p \in Paths : p[2] # 0 => n[p] = None}]
        /\ pc = [c \in Creates |-> "idle"]
        /\ pos = [c \in Creates |-> <<1, 0>>]
        /\ at = [c \in Creates |-> 0]
        /\ iso = [c \in Creates |-> NoIso]
        /\ tries = [c \in Creates |-> 0]
        /\ with = [c \in Creates |-> {}]

---------------------------------------------------------------------------
Goes(c, from, label) == pc[c] = from /\ pc' = [pc EXCEPT ![c] = label]

\* Create c is over, and what it had in memory is gone; nothing is cleaned up.
Ends(c, from, label) == /\ Goes(c, from, label)
                        /\ pos' = [pos EXCEPT ![c] = <<1, 0>>]
                        /\ at' = [at EXCEPT ![c] = 0]
                        /\ iso' = [iso EXCEPT ![c] = NoIso]
                        /\ UNCHANGED <<bundle, node, tries, with>>

\* Any call may fail.
Fails(c) == \E l \in Working : Ends(c, l, "failed")

\* MkdirAll of /etc; the creates at work in the same rootfs meet.
Begin(c) ==
    LET others == {o \in Creates \ {c} : pc[o] \in Working /\ Root(o) = Root(c)}
    IN  /\ Goes(c, "idle", "copy")
        /\ pos' = [pos EXCEPT ![c] = <<1, 0>>]
        /\ with' = [o \in Creates |-> IF o = c THEN others
                                      ELSE IF o \in others THEN with[o] \union {c}
                                      ELSE with[o]]
        /\ UNCHANGED <<bundle, node, at, iso, tries>>

\* A mount that is not for /etc/resolv.conf, /etc/hosts or /etc/hostname.
PassOver(c) ==
    /\ pos[c][1] <= Len(Mounts(c)) /\ ~Taken(c, pos[c][1])
    /\ Goes(c, "copy", "copy")
    /\ pos' = [pos EXCEPT ![c] = Following(c)]
    /\ UNCHANGED <<bundle, node, at, iso, tries, with>>

\* dcopy: MkdirAll, which takes a directory that is there but no file.
MakeDir(c) ==
    /\ pos[c] \in Places(c) /\ Wanted(c) = Dir
    /\ node[Root(c)][Target(c)].kind # "file"
    /\ Goes(c, "copy", "copy")
    /\ node' = [node EXCEPT ![Root(c)][Target(c)] = Dir]
    /\ pos' = [pos EXCEPT ![c] = Following(c)]
    /\ UNCHANGED <<bundle, at, iso, tries, with>>

\* Mutant of OpenFile: a file that is there is opened, not truncated.
OpenFileKeeps(c) ==
    /\ pos[c] \in Places(c) /\ Wanted(c) # Dir
    /\ node[Root(c)][Target(c)].kind # "dir"
    /\ Goes(c, "copy", "write")
    /\ node' = [node EXCEPT ![Root(c)][Target(c)] = File(@.data)]
    /\ UNCHANGED <<bundle, pos, at, iso, tries, with>>

\* fcopy: os.Create truncates what is there, unless it is a directory.
OpenFile(c) ==
    /\ pos[c] \in Places(c) /\ Wanted(c) # Dir
    /\ node[Root(c)][Target(c)].kind # "dir"
    /\ Goes(c, "copy", "write")
    /\ node' = [node EXCEPT ![Root(c)][Target(c)] = File(<<>>)]
    /\ UNCHANGED <<bundle, pos, at, iso, tries, with>>

\* Block n written into a file that someone may have truncated meanwhile.
Put(data, n, x) == [i \in 1 .. (IF n > Len(data) THEN n ELSE Len(data)) |->
                       IF i = n THEN x ELSE IF i <= Len(data) THEN data[i] ELSE "zero"]

\* One write of io.Copy, at the offset of this create's descriptor.
Write(c) ==
    /\ Goes(c, "write", "write")
    /\ at[c] < Len(Wanted(c).data)
    /\ at' = [at EXCEPT ![c] = @ + 1]
    /\ node' = [node EXCEPT ![Root(c)][Target(c)].data =
                                Put(@, at[c] + 1, Wanted(c).data[at[c] + 1])]
    /\ UNCHANGED <<bundle, pos, iso, tries, with>>

\* Mutant of CloseFile: the next file is written from the offset of this one.
CloseFileSameOffset(c) ==
    /\ Goes(c, "write", "copy")
    /\ at[c] = Len(Wanted(c).data)
    /\ pos' = [pos EXCEPT ![c] = Following(c)]
    /\ UNCHANGED <<bundle, node, at, iso, tries, with>>

\* End of file: Chmod and Close.
CloseFile(c) ==
    /\ Goes(c, "write", "copy")
    /\ at[c] = Len(Wanted(c).data)
    /\ pos' = [pos EXCEPT ![c] = Following(c)]
    /\ at' = [at EXCEPT ![c] = 0]
    /\ UNCHANGED <<bundle, node, iso, tries, with>>

\* genisoimage reads one file after the other, in an order of its own.
StartIso(c) == /\ pos[c][1] > Len(Mounts(c))
               /\ Goes(c, "copy", "iso")
               /\ UNCHANGED <<bundle, node, pos, at, iso, tries, with>>

ReadFile(c) == \E p \in Paths :
    /\ iso[c][p] = Unread
    /\ Goes(c, "iso", "iso")
    /\ iso' = [iso EXCEPT ![c][p] = node[Root(c)][p]]
    /\ UNCHANGED <<bundle, node, pos, at, tries, with>>

IsoReady(c) == /\ \A p \in Paths : iso[c][p] # Unread
               /\ Goes(c, "iso", "created")
               /\ UNCHANGED <<bundle, node, pos, at, iso, tries, with>>

CreateStep(c) ==
    \/ Begin(c) \/ PassOver(c) \/ MakeDir(c) \/ OpenFile(c) \/ Write(c) \/ CloseFile(c)
    \/ StartIso(c) \/ ReadFile(c) \/ IsoReady(c) \/ Fails(c)

Killed(c) == \E l \in Working : Ends(c, l, "killed")

\* After a delete, and when a killed create's genisoimage is over; what is
\* in the rootfs stays.
Retry(c) == /\ \E l \in {"failed", "killed"} : Goes(c, l, "idle")
            /\ tries[c] < MaxTries
            /\ tries' = [tries EXCEPT ![c] = @ + 1]
            /\ UNCHANGED <<bundle, node, pos, at, iso, with>>

Next == \E c \in Creates : CreateStep(c) \/ Killed(c) \/ Retry(c)

Spec == Init /\ [][Next]_vars

---------------------------------------------------------------------------
\* The types of the variables; between two mounts a create is at the first
\* file of the next, and inside a file it has written as much as it has.
Nodes == [kind : {"none", "dir", "file"}, data : Data]

TypeOK ==
    /\ bundle \in [Creates -> Bundles]
    /\ node \in [Roots -> [Paths -> Nodes]]
    /\ pc \in [Creates -> Working \union {"idle", "created", "failed", "killed"}]
    /\ pos \in [Creates -> Nat \X Nat] /\ at \in [Creates -> Nat]
    /\ iso \in [Creates -> [Paths -> Nodes \union {Unread}]]
    /\ tries \in [Creates -> 0 .. MaxTries]
    /\ with \in [Creates -> SUBSET Creates]
    /\ \A c \in Creates :
        /\ \/ pos[c] \in Places(c)
           \/ pos[c][1] >= 1 /\ pos[c][2] = 0
        /\ IF pc[c] = "write"
           THEN pos[c] \in Places(c) /\ Wanted(c) # Dir /\ at[c] <= Len(Wanted(c).data)
           ELSE at[c] = 0

\* The paths that create c writes, and the places whose copy is not
\* overwritten by that of a later mount.
Written(c) == {Path(c, q) : q \in Places(c)}
Final(c) == {q \in Places(c) :
                \A r \in Places(c) : Path(c, r) = Path(c, q) => r[1] <= q[1]}

\* Another create was writing path p of the same root file system.
Shared(c, p) == \E o \in with[c] : p \in Written(o)

\* A create that succeeds has an ISO with whole copies of its own files,
\* whatever the image, earlier containers, failures and killed creates left
\* in the rootfs, unless another create was writing the same path of the
\* same rootfs at the time (iso_storage.go:45-67, copy.go:49-103).
IsoWhole ==
    \A c \in Creates : pc[c] = "created" =>
        \A q \in Final(c) : iso[c][Path(c, q)] = Copy(c, q) \/ Shared(c, Path(c, q))

=============================================================================
