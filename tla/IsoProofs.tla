----------------------------- MODULE IsoProofs -----------------------------
(***************************************************************************)
(* Theorems of RootfsIso: what a successful create put into its ISO is     *)
(* whole, for any number of creates, root file systems, mounts and blocks. *)
(***************************************************************************)
EXTENDS RootfsIso, SequenceTheorems, TLAPS

USE TreeAssumption, BundleAssumption

---------------------------------------------------------------------------
(* The places that a create copies to.                                     *)

\* Everything that is derived from the bundles stays as it is.
LEMMA BundlesStay ==
    ASSUME bundle' = bundle, NEW c \in Creates
    PROVE  /\ Root(c)' = Root(c) /\ Mounts(c)' = Mounts(c)
           /\ Places(c)' = Places(c) /\ Final(c)' = Final(c) /\ Written(c)' = Written(c)
           /\ \A m : Taken(c, m)' = Taken(c, m) /\ Files(c, m)' = Files(c, m)
           /\ \A q : Path(c, q)' = Path(c, q) /\ Copy(c, q)' = Copy(c, q)
<1>1. /\ Root(c)' = Root(c) /\ Mounts(c)' = Mounts(c)
      /\ \A m : Source(c, m)' = Source(c, m)
  BY DEF Root, Mounts, Source
<1>2. /\ \A m : Taken(c, m)' = Taken(c, m) /\ Files(c, m)' = Files(c, m)
      /\ \A q : Path(c, q)' = Path(c, q) /\ Copy(c, q)' = Copy(c, q)
  BY <1>1 DEF Taken, Files, Path, Copy
<1>3. Places(c)' = Places(c)
  BY <1>1, <1>2 DEF Places
<1> QED BY <1>1, <1>2, <1>3 DEF Final, Written

\* A place is a file of a mount that is copied.
LEMMA PlaceIs ==
    ASSUME TypeOK, NEW c \in Creates
    PROVE  /\ Root(c) \in Roots /\ Len(Mounts(c)) \in Nat
           /\ \A q \in Places(c) :
                /\ q \in Nat \X Nat
                /\ q[1] \in 1 .. Len(Mounts(c)) /\ Taken(c, q[1])
                /\ q[2] \in 0 .. Files(c, q[1]) /\ Files(c, q[1]) \in Nat
           /\ \A m \in 1 .. Len(Mounts(c)), k \in Nat :
                Taken(c, m) /\ k <= Files(c, m) => <<m, k>> \in Places(c)
<1>1. bundle[c] \in Bundles
  BY DEF TypeOK
<1>2. /\ Root(c) \in Roots /\ Len(Mounts(c)) \in Nat
      /\ \A m \in 1 .. Len(Mounts(c)) : Mounts(c)[m].source \in DOMAIN Tree
  BY <1>1 DEF Root, Mounts
<1>3. ASSUME NEW m \in 1 .. Len(Mounts(c)) PROVE Files(c, m) \in Nat
  <2>1. Source(c, m) \in [dir : BOOLEAN, files : Seq(Seq(Blocks))]
    BY <1>2 DEF Source
  <2> QED BY <2>1 DEF Files
<1>4. ASSUME NEW q \in Places(c)
      PROVE  /\ q \in Nat \X Nat
             /\ q[1] \in 1 .. Len(Mounts(c)) /\ Taken(c, q[1])
             /\ q[2] \in 0 .. Files(c, q[1]) /\ Files(c, q[1]) \in Nat
  <2>1. PICK m \in 1 .. Len(Mounts(c)) :
          Taken(c, m) /\ \E k \in 0 .. Files(c, m) : q = <<m, k>>
    BY DEF Places
  <2>2. PICK k \in 0 .. Files(c, m) : q = <<m, k>>
    BY <2>1
  <2>3. m \in Nat /\ k \in Nat
    BY <1>2, <1>3, <2>2
  <2> QED BY <1>3, <2>1, <2>2, <2>3
<1>5. ASSUME NEW m \in 1 .. Len(Mounts(c)), NEW k \in Nat, Taken(c, m), k <= Files(c, m)
      PROVE  <<m, k>> \in Places(c)
  <2>1. k \in 0 .. Files(c, m)
    BY <1>3, <1>5
  <2> QED BY <1>5, <2>1 DEF Places
<1> QED BY <1>2, <1>4, <1>5

\* What is copied to a place is a directory, or a file of its source.
LEMMA CopyIs ==
    ASSUME TypeOK, NEW c \in Creates, NEW q \in Places(c)
    PROVE  /\ Path(c, q) \in Paths /\ Path(c, q) \in Written(c)
           /\ Copy(c, q) \in Nodes
           /\ \/ Copy(c, q) = Dir
              \/ /\ Copy(c, q) # Dir
                 /\ Copy(c, q) = File(Copy(c, q).data)
                 /\ Copy(c, q).data \in Seq(Blocks)
<1> DEFINE s == Source(c, q[1])
<1>1. /\ q[1] \in 1 .. Len(Mounts(c)) /\ Taken(c, q[1])
      /\ q[2] \in 0 .. Files(c, q[1]) /\ Files(c, q[1]) \in Nat
  BY PlaceIs
<1>2. PICK t \in DOMAIN Tree : s = Tree[t]
  <2>1. bundle[c] \in Bundles
    BY DEF TypeOK
  <2> QED BY <1>1, <2>1 DEF Source, Mounts
<1>3. s \in [dir : BOOLEAN, files : Seq(Seq(Blocks))] /\ (~s.dir => Len(s.files) = 1)
  BY <1>2
<1>4. Path(c, q) \in Paths
  <2>1. q[2] \in 0 .. Len(Tree[t].files)
    BY <1>1, <1>2, <1>3 DEF Files
  <2> QED BY <1>1, <2>1 DEF Paths, Path, Taken
<1>5. Copy(c, q) = Dir \/ \E i \in 1 .. Len(s.files) : Copy(c, q) = File(s.files[i])
  <2>1. CASE q[2] # 0
    <3>1. q[2] \in 1 .. Len(s.files)
      BY <1>1, <1>3, <2>1 DEF Files
    <3> QED BY <2>1, <3>1 DEF Copy
  <2>2. CASE q[2] = 0 /\ s.dir
    BY <2>2 DEF Copy
  <2>3. CASE q[2] = 0 /\ ~s.dir
    BY <1>3, <2>3 DEF Copy
  <2> QED BY <2>1, <2>2, <2>3, <1>3
<1>6. \A d \in Seq(Blocks) : File(d) # Dir /\ File(d) \in Nodes /\ File(d).data = d
  <2>1. Seq(Blocks) \subseteq Data
    BY SeqMonotonic DEF Data
  <2> QED BY <2>1 DEF File, Dir, Nodes
<1>7. Dir \in Nodes
  BY DEF Dir, Nodes, Data
<1>8. \A i \in 1 .. Len(s.files) : s.files[i] \in Seq(Blocks)
  BY <1>3
<1> QED BY <1>4, <1>5, <1>6, <1>7, <1>8 DEF Written

\* Blocks written one after the other make a sequence.
LEMMA PutIs ==
    ASSUME NEW data \in Data, NEW n \in Nat, NEW x \in Blocks \union {"zero"}
    PROVE  /\ Put(data, n + 1, x) \in Data
           /\ Len(data) = n => /\ Len(Put(data, n + 1, x)) = n + 1
                               /\ \A i \in 1 .. n : Put(data, n + 1, x)[i] = data[i]
                               /\ Put(data, n + 1, x)[n + 1] = x
<1> DEFINE l == IF n + 1 > Len(data) THEN n + 1 ELSE Len(data)
           e(i) == IF i = n + 1 THEN x ELSE IF i <= Len(data) THEN data[i] ELSE "zero"
<1>1. l \in Nat /\ Len(data) \in Nat
  BY DEF Data
<1>2. \A i \in 1 .. l : e(i) \in Blocks \union {"zero"}
  BY <1>1 DEF Data
<1>3. Put(data, n + 1, x) = [i \in 1 .. l |-> e(i)]
  BY DEF Put
<1>4. [i \in 1 .. l |-> e(i)] \in [1 .. l -> Blocks \union {"zero"}]
  BY <1>2
<1>5. [i \in 1 .. l |-> e(i)] \in Data /\ Len([i \in 1 .. l |-> e(i)]) = l
  <2> HIDE DEF l, e
  <2> QED BY <1>1, <1>4 DEF Data
<1>6. Put(data, n + 1, x) \in Data /\ Len(Put(data, n + 1, x)) = l
  BY <1>3, <1>5
<1>7. ASSUME Len(data) = n
      PROVE  /\ l = n + 1
             /\ \A i \in 1 .. n : Put(data, n + 1, x)[i] = data[i]
             /\ Put(data, n + 1, x)[n + 1] = x
  BY <1>1, <1>3, <1>7
<1> QED BY <1>6, <1>7

\* One more block of what is copied.
LEMMA OneMore ==
    ASSUME NEW e \in Data, NEW a \in Nat, NEW w, NEW x \in Blocks \union {"zero"},
           Len(e) = a, w[a + 1] = x, \A i \in 1 .. a : e[i] = w[i]
    PROVE  Len(Put(e, a + 1, x)) = a + 1 /\ \A i \in 1 .. a + 1 : Put(e, a + 1, x)[i] = w[i]
<1>1. Len(Put(e, a + 1, x)) = a + 1
  BY PutIs
<1>2. Put(e, a + 1, x) = [i \in 1 .. a + 1 |->
                             IF i = a + 1 THEN x ELSE IF i <= Len(e) THEN e[i] ELSE "zero"]
  BY DEF Put
<1>3. \A i \in 1 .. a + 1 : i \in 1 .. a \/ i = a + 1
  OBVIOUS
<1>4. \A i \in 1 .. a + 1 : Put(e, a + 1, x)[i] = w[i]
  BY <1>2, <1>3
<1> QED BY <1>1, <1>4

\* A place is a pair of numbers.
LEMMA PairIs ==
    ASSUME NEW q \in Nat \X Nat
    PROVE  q[1] \in Nat /\ q[2] \in Nat /\ q = <<q[1], q[2]>>
OBVIOUS

\* Where a create goes on after a place, or after a mount it passes over.
LEMMA FollowingIs ==
    ASSUME TypeOK, NEW c \in Creates,
           \/ pos[c] \in Places(c)
           \/ pos[c][1] \in 1 .. Len(Mounts(c)) /\ ~Taken(c, pos[c][1]) /\ pos[c][2] = 0
    PROVE  /\ Following(c) \in Nat \X Nat
           /\ Following(c) \in Places(c) \/ (Following(c)[1] >= 1 /\ Following(c)[2] = 0)
           /\ \A q \in Places(c) :
                (q[1] < Following(c)[1]
                   \/ (q[1] = Following(c)[1] /\ q[2] < Following(c)[2]))
                => (q = pos[c] \/ q[1] < pos[c][1]
                      \/ (q[1] = pos[c][1] /\ q[2] < pos[c][2]))
<1> DEFINE m == pos[c][1]  k == pos[c][2]
<1>1. pos[c] \in Nat \X Nat /\ m \in 1 .. Len(Mounts(c)) /\ Len(Mounts(c)) \in Nat
  BY PlaceIs DEF TypeOK
<1>2. \A q \in Places(c) :
        /\ q \in Nat \X Nat
        /\ q[1] \in 1 .. Len(Mounts(c)) /\ Taken(c, q[1])
        /\ q[2] \in 0 .. Files(c, q[1]) /\ Files(c, q[1]) \in Nat
  BY PlaceIs
<1>3. CASE Taken(c, m) /\ k < Files(c, m)
  <2>1. pos[c] \in Places(c) /\ Files(c, m) \in Nat
    BY <1>2, <1>3
  <2>2. Following(c) = <<m, k + 1>>
    BY <1>3 DEF Following
  <2>3. k \in Nat /\ k + 1 <= Files(c, m)
    BY <1>1, <1>3, <2>1
  <2>4. <<m, k + 1>> \in Places(c)
    BY <1>1, <1>3, <2>3, PlaceIs
  <2>5. ASSUME NEW q \in Places(c), q[1] < m \/ (q[1] = m /\ q[2] < k + 1)
        PROVE  q = pos[c] \/ q[1] < m \/ (q[1] = m /\ q[2] < k)
    <3>1. q[2] \in Nat /\ q = <<q[1], q[2]>> /\ pos[c] = <<m, k>>
      BY <1>1, <1>2, PairIs
    <3>2. q[2] < k + 1 => q[2] = k \/ q[2] < k
      BY <2>3, <3>1
    <3> QED BY <2>5, <3>1, <3>2
  <2>6. Following(c) \in Nat \X Nat /\ Following(c)[1] = m /\ Following(c)[2] = k + 1
    BY <1>1, <2>2, <2>3
  <2> QED BY <2>2, <2>4, <2>5, <2>6
<1>4. CASE ~(Taken(c, m) /\ k < Files(c, m))
  <2>1. Following(c) = <<m + 1, 0>>
    BY <1>4 DEF Following
  <2>2. ASSUME NEW q \in Places(c), q[1] < m + 1 \/ (q[1] = m + 1 /\ q[2] < 0)
        PROVE  q = pos[c] \/ q[1] < m \/ (q[1] = m /\ q[2] < k)
    <3>1. /\ q[1] \in Nat /\ q[2] \in Nat /\ q = <<q[1], q[2]>>
          /\ pos[c] = <<m, k>> /\ k \in Nat
      BY <1>1, <1>2, PairIs
    <3>2. q[1] = m \/ q[1] < m
      <4>1. \A a, b, n \in Nat : a < n + 1 \/ (a = n + 1 /\ b < 0) => (a = n \/ a < n)
        OBVIOUS
      <4> QED BY <1>1, <2>2, <3>1, <4>1
    <3>3. CASE q[1] = m
      <4>1. Taken(c, m) /\ q[2] <= Files(c, m) /\ Files(c, m) \in Nat
        BY <1>2, <3>3
      <4>2. pos[c] \in Places(c)
        BY <4>1
      <4>3. k <= Files(c, m)
        BY <1>2, <4>2
      <4>4. q[2] <= k
        BY <1>4, <3>1, <4>1, <4>3
      <4>5. q[2] = k \/ q[2] < k
        BY <3>1, <4>4
      <4> QED BY <3>1, <3>3, <4>5
    <3> QED BY <3>2, <3>3
  <2>3. Following(c) \in Nat \X Nat /\ Following(c)[1] = m + 1 /\ Following(c)[2] = 0
    BY <1>1, <2>1
  <2> QED BY <1>1, <2>2, <2>3
<1> QED BY <1>3, <1>4

---------------------------------------------------------------------------
(* The types.                                                              *)

\* What TypeOK says of one create.
At(c) == /\ \/ pos[c] \in Places(c)
            \/ pos[c][1] >= 1 /\ pos[c][2] = 0
         /\ IF pc[c] = "write"
            THEN pos[c] \in Places(c) /\ Wanted(c) # Dir /\ at[c] <= Len(Wanted(c).data)
            ELSE at[c] = 0

\* A step of one create leaves the others where they are.
LEMMA AtStays ==
    ASSUME bundle' = bundle, NEW o \in Creates, At(o),
           pc'[o] = pc[o], pos'[o] = pos[o], at'[o] = at[o]
    PROVE  At(o)'
BY BundlesStay DEF At, Wanted

\* A block of what a create copies.
LEMMA BlockIs ==
    ASSUME TypeOK, NEW c \in Creates, pc[c] = "write"
    PROVE  /\ Wanted(c).data \in Seq(Blocks) /\ Wanted(c) = File(Wanted(c).data)
           /\ Target(c) \in Paths /\ Target(c) \in Written(c) /\ pos[c] \in Places(c)
           /\ \A n \in Nat : n < Len(Wanted(c).data)
                            => Wanted(c).data[n + 1] \in Blocks \union {"zero"}
<1>1. pos[c] \in Places(c) /\ Wanted(c) # Dir
  BY DEF TypeOK
<1>2. /\ Wanted(c).data \in Seq(Blocks) /\ Wanted(c) = File(Wanted(c).data)
      /\ Target(c) \in Paths /\ Target(c) \in Written(c)
  BY <1>1, CopyIs DEF Wanted, Target
<1>3. ASSUME NEW n \in Nat, n < Len(Wanted(c).data)
      PROVE  Wanted(c).data[n + 1] \in Blocks
  <2>1. n + 1 \in 1 .. Len(Wanted(c).data)
    BY <1>2, <1>3
  <2> QED BY <1>2, <2>1
<1> QED BY <1>1, <1>2, <1>3

\* TypeOK holds of every number of creates: in particular a create writes a
\* file from its first block to its last (iso_storage.go:45-67, copy.go:33-103).
THEOREM IsoTypes == Spec => []TypeOK
<1>e. <<>> \in Data
  BY DEF Data
<1>1. Init => TypeOK
  <2> SUFFICES ASSUME Init PROVE TypeOK
    OBVIOUS
  <2>1. Image \subseteq Data
    BY SeqMonotonic DEF Data
  <2>2. None \in Nodes /\ \A d \in Image : File(d) \in Nodes
    BY <1>e, <2>1 DEF None, Nodes, File
  <2>3. node \in [Roots -> [Paths -> Nodes]]
    BY <2>2 DEF Init
  <2>4. iso \in [Creates -> [Paths -> Nodes \union {Unread}]]
    BY DEF Init, NoIso
  <2>5. /\ pc \in [Creates -> Working \union {"idle", "created", "failed", "killed"}]
        /\ pos \in [Creates -> Nat \X Nat] /\ at \in [Creates -> Nat]
        /\ tries \in [Creates -> 0 .. MaxTries] /\ with \in [Creates -> SUBSET Creates]
        /\ bundle \in [Creates -> Bundles]
    BY DEF Init
  <2>6. \A c \in Creates : pos[c] = <<1, 0>> /\ pc[c] # "write" /\ at[c] = 0
    BY DEF Init
  <2> QED BY <2>3, <2>4, <2>5, <2>6 DEF TypeOK
<1>2. TypeOK /\ [Next]_vars => TypeOK'
  <2> SUFFICES ASSUME TypeOK, [Next]_vars PROVE TypeOK'
    OBVIOUS
  <2>t. /\ bundle \in [Creates -> Bundles] /\ node \in [Roots -> [Paths -> Nodes]]
        /\ pc \in [Creates -> Working \union {"idle", "created", "failed", "killed"}]
        /\ pos \in [Creates -> Nat \X Nat] /\ at \in [Creates -> Nat]
        /\ iso \in [Creates -> [Paths -> Nodes \union {Unread}]]
        /\ tries \in [Creates -> 0 .. MaxTries] /\ with \in [Creates -> SUBSET Creates]
        /\ \A o \in Creates : At(o)
    BY DEF TypeOK, At
  <2>q. ASSUME bundle' = bundle, node' \in [Roots -> [Paths -> Nodes]],
               pc' \in [Creates -> Working \union {"idle", "created", "failed", "killed"}],
               pos' \in [Creates -> Nat \X Nat], at' \in [Creates -> Nat],
               iso' \in [Creates -> [Paths -> Nodes \union {Unread}]],
               tries' \in [Creates -> 0 .. MaxTries], with' \in [Creates -> SUBSET Creates],
               \A o \in Creates : At(o)'
        PROVE  TypeOK'
    BY <2>t, <2>q DEF TypeOK, At
  <2>0. CASE UNCHANGED vars
    <3>1. bundle' = bundle /\ pc' = pc /\ pos' = pos /\ at' = at
      BY <2>0 DEF vars
    <3>2. \A o \in Creates : At(o)'
      BY <2>t, <3>1, AtStays
    <3> QED BY <2>0, <2>t, <2>q, <3>2 DEF vars
  <2>1. ASSUME NEW c \in Creates, CreateStep(c) \/ Killed(c) \/ Retry(c)
        PROVE  TypeOK'
    <3>b. bundle' = bundle
      BY <2>1 DEF CreateStep, Killed, Retry, Begin, PassOver, MakeDir, OpenFile, Write,
                  CloseFile, StartIso, ReadFile, IsoReady, Fails, Ends
    <3>r. Root(c) \in Roots /\ \A q \in Places(c) : Path(c, q) \in Paths
      BY PlaceIs, CopyIs
    <3>f. \A r \in Roots, p \in Paths, n \in Nodes :
            [node EXCEPT ![r][p] = n] \in [Roots -> [Paths -> Nodes]]
      BY <2>t
    <3>a. ASSUME \A o \in Creates : o # c => pc'[o] = pc[o] /\ pos'[o] = pos[o] /\ at'[o] = at[o],
                 At(c)'
          PROVE  \A o \in Creates : At(o)'
      BY <2>t, <3>b, <3>a, AtStays
    <3>1. CASE Begin(c)
      <4>1. At(c)'
        BY <2>t, <3>1, <3>b, BundlesStay DEF Begin, Goes, At, Wanted
      <4>2. with' \in [Creates -> SUBSET Creates]
        BY <2>t, <3>1 DEF Begin
      <4>3. pos' \in [Creates -> Nat \X Nat]
        <5>1. <<1, 0>> \in Nat \X Nat
          OBVIOUS
        <5> QED BY <2>t, <3>1, <5>1 DEF Begin
      <4> QED BY <2>t, <2>q, <3>1, <3>a, <4>1, <4>2, <4>3 DEF Begin, Goes, Working
    <3>2. CASE PassOver(c)
      <4>1. pos[c][1] \in 1 .. Len(Mounts(c)) /\ ~Taken(c, pos[c][1]) /\ pos[c][2] = 0
        BY <2>t, <3>2, PlaceIs DEF PassOver, At
      <4>2. At(c)'
        BY <2>t, <3>2, <3>b, <4>1, FollowingIs, BundlesStay DEF PassOver, Goes, At, Wanted
      <4>3. pos' \in [Creates -> Nat \X Nat]
        BY <2>t, <3>2, <4>1, FollowingIs DEF PassOver
      <4> QED BY <2>t, <2>q, <3>2, <3>a, <4>2, <4>3 DEF PassOver, Goes, Working
    <3>3. CASE MakeDir(c)
      <4>1. At(c)'
        BY <2>t, <3>3, <3>b, FollowingIs, BundlesStay DEF MakeDir, Goes, At, Wanted
      <4>2. pos' \in [Creates -> Nat \X Nat]
        BY <2>t, <3>3, FollowingIs DEF MakeDir
      <4>3. node' \in [Roots -> [Paths -> Nodes]]
        <5>1. Dir \in Nodes
          BY <1>e DEF Dir, Nodes
        <5> QED BY <3>3, <3>r, <3>f, <5>1 DEF MakeDir, Target
      <4> QED BY <2>t, <2>q, <3>3, <3>a, <4>1, <4>2, <4>3 DEF MakeDir, Goes, Working
    <3>4. CASE OpenFile(c)
      <4>1. At(c)'
        <5>1. /\ pos[c] \in Places(c) /\ Wanted(c) # Dir /\ at[c] = 0
              /\ pc'[c] = "write" /\ pos'[c] = pos[c] /\ at'[c] = at[c]
          BY <2>t, <3>4 DEF OpenFile, Goes, At
        <5>2. Len(Wanted(c).data) \in Nat
          BY <5>1, CopyIs DEF Wanted
        <5> QED BY <3>b, <5>1, <5>2, BundlesStay DEF At, Wanted
      <4>2. node' \in [Roots -> [Paths -> Nodes]]
        <5>1. File(<<>>) \in Nodes
          BY <1>e DEF File, Nodes
        <5> QED BY <3>4, <3>r, <3>f, <5>1 DEF OpenFile, Target
      <4> QED BY <2>t, <2>q, <3>4, <3>a, <4>1, <4>2 DEF OpenFile, Goes, Working
    <3>5. CASE Write(c)
      <4>1. pc[c] = "write" /\ at[c] \in Nat /\ Len(Wanted(c).data) \in Nat
        BY <2>t, <3>5, BlockIs DEF Write, Goes
      <4>2. At(c)'
        <5>1. /\ pos[c] \in Places(c) /\ Wanted(c) # Dir /\ at[c] + 1 <= Len(Wanted(c).data)
              /\ pc'[c] = "write" /\ pos'[c] = pos[c] /\ at'[c] = at[c] + 1
          BY <2>t, <3>5, <4>1 DEF Write, Goes, At
        <5> QED BY <3>b, <5>1, BundlesStay DEF At, Wanted
      <4>3. node' \in [Roots -> [Paths -> Nodes]]
        <5> DEFINE n == node[Root(c)][Target(c)]
                   d == Put(n.data, at[c] + 1, Wanted(c).data[at[c] + 1])
        <5>1. Target(c) \in Paths /\ n \in Nodes
          BY <2>t, <3>r, <4>1, BlockIs
        <5>2. d \in Data
          BY <3>5, <4>1, <5>1, BlockIs, PutIs DEF Nodes, Write
        <5>3. node' = [node EXCEPT ![Root(c)][Target(c)] = [n EXCEPT !.data = d]]
          BY <2>t, <3>5, <3>r, <5>1 DEF Write
        <5>4. [n EXCEPT !.data = d] \in Nodes
          BY <5>1, <5>2 DEF Nodes
        <5> HIDE DEF n, d
        <5> QED BY <3>r, <3>f, <5>1, <5>3, <5>4
      <4>4. at' \in [Creates -> Nat]
        BY <2>t, <3>5 DEF Write
      <4> QED BY <2>t, <2>q, <3>5, <3>a, <4>2, <4>3, <4>4 DEF Write, Goes, Working
    <3>6. CASE CloseFile(c)
      <4>1. pos[c] \in Places(c)
        BY <3>6, BlockIs DEF CloseFile, Goes
      <4>2. At(c)'
        BY <2>t, <3>6, <3>b, <4>1, FollowingIs, BundlesStay DEF CloseFile, Goes, At, Wanted
      <4>3. pos' \in [Creates -> Nat \X Nat]
        BY <2>t, <3>6, <4>1, FollowingIs DEF CloseFile
      <4> QED BY <2>t, <2>q, <3>6, <3>a, <4>2, <4>3 DEF CloseFile, Goes, Working
    <3>7. CASE StartIso(c) \/ IsoReady(c)
      <4>1. At(c)'
        BY <2>t, <3>7, <3>b, BundlesStay DEF StartIso, IsoReady, Goes, At, Wanted
      <4> QED BY <2>t, <2>q, <3>7, <3>a, <4>1 DEF StartIso, IsoReady, Goes, Working
    <3>8. CASE ReadFile(c)
      <4>1. At(c)'
        BY <2>t, <3>8, <3>b, BundlesStay DEF ReadFile, Goes, At, Wanted
      <4>2. iso' \in [Creates -> [Paths -> Nodes \union {Unread}]]
        BY <2>t, <3>8, <3>r DEF ReadFile
      <4> QED BY <2>t, <2>q, <3>8, <3>a, <4>1, <4>2 DEF ReadFile, Goes, Working
    <3>9. CASE Fails(c) \/ Killed(c)
      <4>1. PICK l \in Working : Ends(c, l, "failed") \/ Ends(c, l, "killed")
        BY <3>9 DEF Fails, Killed
      <4>2. At(c)'
        BY <2>t, <3>b, <4>1, BundlesStay DEF Ends, Goes, At, Wanted
      <4>3. iso' \in [Creates -> [Paths -> Nodes \union {Unread}]]
        <5>1. NoIso \in [Paths -> Nodes \union {Unread}]
          BY DEF NoIso
        <5> QED BY <2>t, <4>1, <5>1 DEF Ends
      <4>4. pos' \in [Creates -> Nat \X Nat]
        <5>1. <<1, 0>> \in Nat \X Nat
          OBVIOUS
        <5> QED BY <2>t, <4>1, <5>1 DEF Ends
      <4>5. /\ pc' \in [Creates -> Working \union {"idle", "created", "failed", "killed"}]
            /\ at' \in [Creates -> Nat]
        <5>1. pc' = [pc EXCEPT ![c] = "failed"] \/ pc' = [pc EXCEPT ![c] = "killed"]
          BY <4>1 DEF Ends, Goes
        <5>2. at' = [at EXCEPT ![c] = 0]
          BY <4>1 DEF Ends
        <5> QED BY <2>t, <5>1, <5>2
      <4>6. \A o \in Creates : o # c => pc'[o] = pc[o] /\ pos'[o] = pos[o] /\ at'[o] = at[o]
        BY <2>t, <4>1 DEF Ends, Goes
      <4>7. /\ node' \in [Roots -> [Paths -> Nodes]]
            /\ tries' \in [Creates -> 0 .. MaxTries] /\ with' \in [Creates -> SUBSET Creates]
        BY <2>t, <4>1 DEF Ends
      <4>8. \A o \in Creates : At(o)'
        BY <3>a, <4>2, <4>6
      <4> QED BY <2>q, <3>b, <4>3, <4>4, <4>5, <4>7, <4>8
    <3>10. CASE Retry(c)
      <4>1. At(c)'
        BY <2>t, <3>10, <3>b, BundlesStay DEF Retry, Goes, At, Wanted
      <4>2. tries' \in [Creates -> 0 .. MaxTries]
        BY <2>t, <3>10 DEF Retry
      <4> QED BY <2>t, <2>q, <3>10, <3>a, <4>1, <4>2 DEF Retry, Goes, Working
    <3> QED BY <2>1, <3>1, <3>2, <3>3, <3>4, <3>5, <3>6, <3>7, <3>8, <3>9, <3>10
            DEF CreateStep
  <2> QED BY <2>0, <2>1 DEF Next
<1> QED BY <1>1, <1>2, PTL DEF Spec
---------------------------------------------------------------------------
(* What a create has copied.                                               *)

\* Creates that work in one root file system know of each other.
Meet == \A c, o \in Creates :
    c # o /\ pc[c] \in Working /\ pc[o] \in Working /\ Root(c) = Root(o) => o \in with[c]

\* Create c is past place q.
Past(c, q) == \/ q[1] < pos[c][1]
              \/ q[1] = pos[c][1] /\ q[2] < pos[c][2]

\* What create c has copied and does not overwrite itself is there.
CopiesStay(c) == pc[c] \in Working => \A q \in Final(c) :
    Past(c, q) => \/ node[Root(c)][Path(c, q)] = Copy(c, q)
                  \/ Shared(c, Path(c, q))

\* The file that create c writes has the blocks written so far.
WritesInOrder(c) == pc[c] = "write" =>
    \/ Shared(c, Target(c))
    \/ LET n == node[Root(c)][Target(c)]
       IN  /\ n = File(n.data) /\ Len(n.data) = at[c]
           /\ \A i \in 1 .. at[c] : n.data[i] = Wanted(c).data[i]

\* genisoimage starts when all is copied, and reads what is there.
ReadsCopies(c) ==
    /\ pc[c] \notin {"iso", "created"} => iso[c] = NoIso
    /\ pc[c] = "iso" => pos[c][1] > Len(Mounts(c))
    /\ pc[c] \in {"iso", "created"} => \A q \in Final(c) :
         \/ iso[c][Path(c, q)] \in {Unread, Copy(c, q)}
         \/ Shared(c, Path(c, q))
    /\ pc[c] = "created" => \A p \in Paths : iso[c][p] # Unread

IsoInv == Meet /\ \A c \in Creates : CopiesStay(c) /\ WritesInOrder(c) /\ ReadsCopies(c)

\* A step of create c leaves all but its own paths alone.
Keeps(c) == \A r \in Roots, p \in Paths :
    (r # Root(c) \/ p \notin Written(c)) => node'[r][p] = node[r][p]

LEMMA NodeIs ==
    ASSUME TypeOK, NEW c \in Creates, pos[c] \in Places(c), NEW n,
           node' = [node EXCEPT ![Root(c)][Target(c)] = n]
    PROVE  /\ node'[Root(c)][Target(c)] = n /\ Keeps(c)
           /\ \A p \in Paths : p # Target(c) => node'[Root(c)][p] = node[Root(c)][p]
<1>1. /\ Root(c) \in Roots /\ Target(c) \in Paths /\ Target(c) \in Written(c)
      /\ node \in [Roots -> [Paths -> Nodes]]
  BY PlaceIs, CopyIs DEF Target, TypeOK
<1> QED BY <1>1 DEF Keeps

\* A step of create c disturbs another create only at the paths c writes.
LEMMA OthersKeep ==
    ASSUME TypeOK, Meet, bundle' = bundle, NEW c \in Creates, NEW o \in Creates, o # c,
           CopiesStay(o), WritesInOrder(o), ReadsCopies(o),
           pc'[o] = pc[o], pos'[o] = pos[o], at'[o] = at[o], iso'[o] = iso[o],
           with[o] \subseteq with'[o],
           node' = node \/ (pc[c] \in Working /\ Keeps(c))
    PROVE  CopiesStay(o)' /\ WritesInOrder(o)' /\ ReadsCopies(o)'
<1>1. /\ Root(o)' = Root(o) /\ Mounts(o)' = Mounts(o) /\ Final(o)' = Final(o)
      /\ \A q : Path(o, q)' = Path(o, q) /\ Copy(o, q)' = Copy(o, q)
      /\ Target(o)' = Target(o) /\ Wanted(o)' = Wanted(o)
  BY BundlesStay DEF Target, Wanted
<1>2. \A p : Shared(o, p) => Shared(o, p)'
  <2>1. \A b \in Creates : Written(b)' = Written(b)
    BY BundlesStay
  <2>2. with[o] \subseteq Creates
    BY DEF TypeOK
  <2> QED BY <2>1, <2>2 DEF Shared
<1>3. \A p \in Paths : pc[o] \in Working =>
        node'[Root(o)][p] = node[Root(o)][p] \/ Shared(o, p)
  BY PlaceIs DEF Meet, Shared, Keeps
<1>4. CopiesStay(o)'
  <2>1. \A q \in Final(o) : Path(o, q) \in Paths
    BY CopyIs DEF Final
  <2> QED BY <1>1, <1>2, <1>3, <2>1 DEF CopiesStay, Past
<1>5. WritesInOrder(o)'
  <2>1. pc[o] = "write" => Target(o) \in Paths
    BY BlockIs
  <2> QED BY <1>1, <1>2, <1>3, <2>1 DEF WritesInOrder, Working
<1>6. ReadsCopies(o)'
  BY <1>1, <1>2 DEF ReadsCopies
<1> QED BY <1>4, <1>5, <1>6

\* Places that differ and are final have paths that differ, and a place with
\* the path of a final one is not after it.
LEMMA FinalIs ==
    ASSUME TypeOK, NEW c \in Creates, NEW q \in Final(c), NEW r \in Places(c),
           Path(c, r) = Path(c, q), q # r
    PROVE  r[1] < q[1] /\ q \in Places(c)
<1>1. q \in Places(c) /\ q[2] = r[2] /\ r[1] <= q[1]
  BY DEF Final, Path
<1>2. q \in Nat \X Nat /\ r \in Nat \X Nat
  BY <1>1, PlaceIs
<1>3. q[1] # r[1]
  BY <1>1, <1>2, PairIs
<1> QED BY <1>1, <1>2, <1>3, PairIs

\* A create does not come back to the path of a final place it is past.
LEMMA NotAgain ==
    ASSUME TypeOK, NEW c \in Creates, pos[c] \in Places(c), NEW q \in Final(c), Past(c, q)
    PROVE  Path(c, q) # Target(c)
<1>1. q \in Places(c) /\ q \in Nat \X Nat /\ pos[c] \in Nat \X Nat
  BY PlaceIs DEF Final
<1>2. q # pos[c] /\ q[1] <= pos[c][1]
  BY <1>1, PairIs DEF Past
<1> QED BY <1>1, <1>2, FinalIs, PairIs DEF Target

\* The invariant is kept by every step.
LEMMA IsoSteps ==
    ASSUME TypeOK, TypeOK', IsoInv, [Next]_vars
    PROVE  IsoInv'
<1>t. /\ node \in [Roots -> [Paths -> Nodes]]
      /\ pc \in [Creates -> Working \union {"idle", "created", "failed", "killed"}]
      /\ pos \in [Creates -> Nat \X Nat] /\ at \in [Creates -> Nat]
      /\ iso \in [Creates -> [Paths -> Nodes \union {Unread}]]
      /\ with \in [Creates -> SUBSET Creates]
  BY DEF TypeOK
<1>i. Meet /\ \A o \in Creates : CopiesStay(o) /\ WritesInOrder(o) /\ ReadsCopies(o)
  BY DEF IsoInv
<1>0. CASE UNCHANGED vars
  <2>1. /\ bundle' = bundle /\ node' = node /\ pc' = pc /\ pos' = pos
        /\ at' = at /\ iso' = iso /\ with' = with
    BY <1>0 DEF vars
  <2>2. \A o \in Creates :
          /\ Root(o)' = Root(o) /\ Mounts(o)' = Mounts(o) /\ Final(o)' = Final(o)
          /\ \A q : Path(o, q)' = Path(o, q) /\ Copy(o, q)' = Copy(o, q)
          /\ Target(o)' = Target(o) /\ Wanted(o)' = Wanted(o)
          /\ \A p : Shared(o, p)' = Shared(o, p)
    BY <1>t, <2>1, BundlesStay DEF Target, Wanted, Shared
  <2>3. Meet'
    BY <1>i, <2>1, <2>2 DEF Meet
  <2>4. \A o \in Creates : CopiesStay(o)'
    BY <1>i, <2>1, <2>2 DEF CopiesStay, Past
  <2>5. \A o \in Creates : WritesInOrder(o)'
    BY <1>i, <2>1, <2>2 DEF WritesInOrder
  <2>6. \A o \in Creates : ReadsCopies(o)'
    BY <1>i, <2>1, <2>2 DEF ReadsCopies
  <2> QED BY <2>3, <2>4, <2>5, <2>6 DEF IsoInv
<1>1. ASSUME NEW c \in Creates, CreateStep(c) \/ Killed(c) \/ Retry(c)
      PROVE  IsoInv'
  <2>b. bundle' = bundle
    BY <1>1 DEF CreateStep, Killed, Retry, Begin, PassOver, MakeDir, OpenFile, Write,
                CloseFile, StartIso, ReadFile, IsoReady, Fails, Ends
  <2>c. /\ Root(c)' = Root(c) /\ Mounts(c)' = Mounts(c) /\ Final(c)' = Final(c)
        /\ \A q : Path(c, q)' = Path(c, q) /\ Copy(c, q)' = Copy(c, q)
    BY <2>b, BundlesStay
  <2>s. ASSUME with' = with
        PROVE  \A o \in Creates : \A p : Shared(o, p)' = Shared(o, p)
    BY <1>t, <2>b, <2>s, BundlesStay DEF Shared
  <2>m. ASSUME with' = with, \A o \in Creates : pc'[o] \in Working => pc[o] \in Working
        PROVE  Meet'
    <3>1. \A o \in Creates : Root(o)' = Root(o)
      BY <2>b, BundlesStay
    <3> QED BY <1>i, <2>m, <3>1 DEF Meet
  <2>q. ASSUME Meet', CopiesStay(c)', WritesInOrder(c)', ReadsCopies(c)',
               \A o \in Creates \ {c} : /\ pc'[o] = pc[o] /\ pos'[o] = pos[o]
                                       /\ at'[o] = at[o] /\ iso'[o] = iso[o]
                                       /\ with[o] \subseteq with'[o],
               node' = node \/ (pc[c] \in Working /\ Keeps(c))
        PROVE  IsoInv'
    <3>1. ASSUME NEW o \in Creates, o # c
          PROVE  CopiesStay(o)' /\ WritesInOrder(o)' /\ ReadsCopies(o)'
      BY <1>i, <2>b, <2>q, <3>1, OthersKeep
    <3> QED BY <2>q, <3>1 DEF IsoInv
  <2>o. ASSUME pos[c] \in Places(c), with' = with, pc'[c] \in Working, pc[c] \in Working,
               NEW n, node' = [node EXCEPT ![Root(c)][Target(c)] = n],
               pos' = pos \/ (pos'[c] = Following(c) /\ n = Wanted(c))
        PROVE  CopiesStay(c)'
    <3>1. ASSUME NEW q \in Final(c), Past(c, q)'
          PROVE  node'[Root(c)][Path(c, q)] = Copy(c, q) \/ Shared(c, Path(c, q))
      <4>1. q \in Places(c)
        BY DEF Final
      <4>2. CASE Past(c, q)
        <5>1. Path(c, q) # Target(c)
          BY <2>o, <4>2, NotAgain
        <5>2. node'[Root(c)][Path(c, q)] = node[Root(c)][Path(c, q)]
          BY <2>o, <4>1, <5>1, NodeIs, CopyIs
        <5> QED BY <1>i, <2>o, <4>2, <5>2 DEF CopiesStay
      <4>3. CASE q = pos[c] /\ n = Wanted(c)
        <5>1. node'[Root(c)][Target(c)] = n
          BY <2>o, NodeIs
        <5> QED BY <4>3, <5>1 DEF Target, Wanted
      <4>4. pos' = pos => Past(c, q)
        BY <3>1 DEF Past
      <4>5. pos'[c] = Following(c) => Past(c, q) \/ q = pos[c]
        BY <2>o, <3>1, <4>1, FollowingIs DEF Past
      <4> QED BY <2>o, <4>2, <4>3, <4>4, <4>5
    <3> QED BY <2>c, <2>o, <2>s, <3>1 DEF CopiesStay
  <2>1. CASE Begin(c)
    <3>1. /\ pc' = [pc EXCEPT ![c] = "copy"] /\ pc[c] = "idle" /\ node' = node
          /\ pos' = [pos EXCEPT ![c] = <<1, 0>>] /\ at' = at /\ iso' = iso
      BY <2>1 DEF Begin, Goes
    <3>2. /\ \A o \in Creates \ {c} : with[o] \subseteq with'[o]
          /\ \A o \in Creates \ {c} : pc[o] \in Working /\ Root(o) = Root(c)
                                    => o \in with'[c] /\ c \in with'[o]
      BY <1>t, <2>1 DEF Begin
    <3>3. Meet'
      <4>1. \A o \in Creates : Root(o)' = Root(o)
        BY <2>b, BundlesStay
      <4>2. \A o \in Creates : o # c => pc'[o] = pc[o]
        BY <1>t, <3>1
      <4> QED BY <1>i, <3>2, <4>1, <4>2 DEF Meet
    <3>4. CopiesStay(c)'
      <4>1. pos'[c] = <<1, 0>>
        BY <1>t, <3>1
      <4>2. \A q \in Final(c) : ~Past(c, q)'
        BY <4>1, PlaceIs, PairIs DEF Final, Past
      <4> QED BY <2>c, <4>2 DEF CopiesStay
    <3>5. WritesInOrder(c)' /\ ReadsCopies(c)'
      BY <1>t, <1>i, <3>1 DEF WritesInOrder, ReadsCopies
    <3> QED BY <1>t, <2>q, <3>1, <3>2, <3>3, <3>4, <3>5
  <2>2. CASE PassOver(c)
    <3>1. /\ pc' = [pc EXCEPT ![c] = "copy"] /\ pc[c] = "copy" /\ node' = node /\ with' = with
          /\ pos' = [pos EXCEPT ![c] = Following(c)] /\ at' = at /\ iso' = iso
      BY <2>2 DEF PassOver, Goes
    <3>2. pos[c][1] \in 1 .. Len(Mounts(c)) /\ ~Taken(c, pos[c][1]) /\ pos[c][2] = 0
      BY <1>t, <2>2, PlaceIs DEF PassOver, TypeOK
    <3>3. \A q \in Final(c) : Past(c, q)' => Past(c, q)
      <4>1. pos'[c] = Following(c)
        BY <1>t, <3>1
      <4>2. \A q \in Final(c) : q \in Places(c) /\ q # pos[c]
        BY <3>2, PlaceIs DEF Final
      <4> QED BY <3>2, <4>1, <4>2, FollowingIs DEF Past
    <3>4. CopiesStay(c)'
      BY <1>i, <2>c, <2>s, <3>1, <3>3 DEF CopiesStay, Working
    <3>5. WritesInOrder(c)' /\ ReadsCopies(c)'
      BY <1>t, <1>i, <3>1 DEF WritesInOrder, ReadsCopies
    <3>6. Meet'
      BY <1>t, <2>m, <3>1 DEF Working
    <3> QED BY <1>t, <2>q, <3>1, <3>4, <3>5, <3>6
  <2>3. CASE MakeDir(c)
    <3>1. /\ pc' = [pc EXCEPT ![c] = "copy"] /\ pc[c] = "copy" /\ with' = with
          /\ node' = [node EXCEPT ![Root(c)][Target(c)] = Dir] /\ Wanted(c) = Dir
          /\ pos[c] \in Places(c) /\ at' = at /\ iso' = iso
          /\ pos' = [pos EXCEPT ![c] = Following(c)]
      BY <2>3 DEF MakeDir, Goes
    <3>2. pc'[c] \in Working /\ pc[c] \in Working /\ pos'[c] = Following(c)
      BY <1>t, <3>1 DEF Working
    <3>3. CopiesStay(c)'
      BY <2>o, <3>1, <3>2
    <3>4. WritesInOrder(c)' /\ ReadsCopies(c)'
      BY <1>t, <1>i, <3>1 DEF WritesInOrder, ReadsCopies
    <3>5. Meet'
      BY <1>t, <2>m, <3>1 DEF Working
    <3>6. Keeps(c)
      BY <3>1, NodeIs
    <3> QED BY <1>t, <2>q, <3>1, <3>2, <3>3, <3>4, <3>5, <3>6
  <2>4. CASE OpenFile(c)
    <3>1. /\ pc' = [pc EXCEPT ![c] = "write"] /\ pc[c] = "copy" /\ with' = with
          /\ node' = [node EXCEPT ![Root(c)][Target(c)] = File(<<>>)] /\ at[c] = 0
          /\ pos[c] \in Places(c) /\ at' = at /\ iso' = iso /\ pos' = pos
      BY <2>4 DEF OpenFile, Goes, TypeOK
    <3>2. pc'[c] \in Working /\ pc[c] \in Working
      BY <1>t, <3>1 DEF Working
    <3>3. CopiesStay(c)'
      BY <2>o, <3>1, <3>2
    <3>4. Keeps(c) /\ node'[Root(c)][Target(c)] = File(<<>>)
      BY <3>1, NodeIs
    <3>5. WritesInOrder(c)'
      <4>1. /\ File(<<>>) = File(File(<<>>).data) /\ Len(File(<<>>).data) = 0
            /\ Root(c)' = Root(c) /\ Target(c)' = Target(c)
        BY <2>c, <3>1 DEF File, Target
      <4> QED BY <3>1, <3>4, <4>1 DEF WritesInOrder
    <3>6. ReadsCopies(c)' /\ Meet'
      BY <1>t, <1>i, <2>m, <3>1 DEF ReadsCopies, Working
    <3> QED BY <1>t, <2>q, <3>1, <3>2, <3>3, <3>4, <3>5, <3>6
  <2>5. CASE Write(c)
    <3> DEFINE n == node[Root(c)][Target(c)]
               d == Put(n.data, at[c] + 1, Wanted(c).data[at[c] + 1])
    <3>1. /\ pc' = [pc EXCEPT ![c] = "write"] /\ pc[c] = "write" /\ with' = with
          /\ node' = [node EXCEPT ![Root(c)][Target(c)].data = d] /\ iso' = iso
          /\ at[c] < Len(Wanted(c).data) /\ at' = [at EXCEPT ![c] = @ + 1] /\ pos' = pos
      BY <1>t, <2>5, PlaceIs, BlockIs DEF Write, Goes
    <3>2. /\ pc'[c] = "write" /\ pc'[c] \in Working /\ pc[c] \in Working /\ pos[c] \in Places(c)
          /\ n \in Nodes /\ at[c] \in Nat /\ at'[c] = at[c] + 1
          /\ Wanted(c).data[at[c] + 1] \in Blocks \union {"zero"}
      BY <1>t, <3>1, PlaceIs, BlockIs DEF Working
    <3>3. node' = [node EXCEPT ![Root(c)][Target(c)] = [n EXCEPT !.data = d]]
      BY <1>t, <3>1, PlaceIs, BlockIs
    <3>4. CopiesStay(c)'
      <4> HIDE DEF n, d
      <4> QED BY <2>o, <3>1, <3>2, <3>3
    <3>5. Keeps(c) /\ node'[Root(c)][Target(c)] = [n EXCEPT !.data = d]
      <4> HIDE DEF n, d
      <4> QED BY <3>2, <3>3, NodeIs
    <3>6. WritesInOrder(c)'
      <4>1. CASE Shared(c, Target(c))
        BY <2>c, <2>s, <3>1, <4>1 DEF WritesInOrder, Target
      <4>2. CASE ~Shared(c, Target(c))
        <5>1. /\ n = File(n.data) /\ Len(n.data) = at[c]
              /\ \A i \in 1 .. at[c] : n.data[i] = Wanted(c).data[i]
          BY <1>i, <3>1, <4>2 DEF WritesInOrder
        <5>2. [n EXCEPT !.data = d] = File(d)
          BY <5>1 DEF File
        <5>3. n.data \in Data
          BY <3>2 DEF Nodes
        <5>4. Len(d) = at[c] + 1 /\ \A i \in 1 .. at[c] + 1 : d[i] = Wanted(c).data[i]
          <6> DEFINE e == n.data
                     a == at[c]
                     w == Wanted(c).data
                     x == w[a + 1]
          <6>1. e \in Data /\ a \in Nat /\ x \in Blocks \union {"zero"} /\ Len(e) = a
            BY <3>2, <5>1, <5>3
          <6>2. \A i \in 1 .. a : e[i] = w[i]
            BY <5>1
          <6>3. w[a + 1] = x
            OBVIOUS
          <6>4. Len(Put(e, a + 1, x)) = a + 1 /\ \A i \in 1 .. a + 1 : Put(e, a + 1, x)[i] = w[i]
            <7> HIDE DEF e, a, w, x
            <7> QED BY <6>1, <6>2, <6>3, OneMore
          <6> QED BY <6>4
        <5>6. File(d) = File(File(d).data) /\ File(d).data = d
          BY DEF File
        <5>7. Root(c)' = Root(c) /\ Target(c)' = Target(c) /\ Wanted(c)' = Wanted(c)
          BY <2>c, <3>1 DEF Target, Wanted
        <5> HIDE DEF n, d
        <5> QED BY <3>2, <3>5, <5>2, <5>4, <5>6, <5>7 DEF WritesInOrder
      <4> QED BY <4>1, <4>2
    <3>7. ReadsCopies(c)' /\ Meet'
      BY <1>t, <1>i, <2>m, <3>1 DEF ReadsCopies, Working
    <3> QED BY <1>t, <2>q, <3>1, <3>2, <3>4, <3>5, <3>6, <3>7
  <2>6. CASE CloseFile(c)
    <3>1. /\ pc' = [pc EXCEPT ![c] = "copy"] /\ pc[c] = "write" /\ with' = with
          /\ node' = node /\ iso' = iso /\ at[c] = Len(Wanted(c).data)
          /\ pos' = [pos EXCEPT ![c] = Following(c)] /\ pos[c] \in Places(c)
          /\ at' = [at EXCEPT ![c] = 0]
      BY <2>6, BlockIs DEF CloseFile, Goes
    <3>2. node[Root(c)][Target(c)] = Wanted(c) \/ Shared(c, Target(c))
      <4> DEFINE n == node[Root(c)][Target(c)]
      <4>1. SUFFICES ASSUME ~Shared(c, Target(c)) PROVE n = Wanted(c)
        OBVIOUS
      <4>2. /\ n = File(n.data) /\ Len(n.data) = Len(Wanted(c).data)
            /\ \A i \in 1 .. Len(n.data) : n.data[i] = Wanted(c).data[i]
        BY <1>i, <3>1, <4>1 DEF WritesInOrder
      <4>3. n.data \in Data
        BY <1>t, <3>1, PlaceIs, BlockIs DEF Nodes
      <4>4. Wanted(c).data \in Data /\ Wanted(c) = File(Wanted(c).data)
        <5>1. Seq(Blocks) \subseteq Data
          BY SeqMonotonic DEF Data
        <5> QED BY <3>1, <5>1, BlockIs
      <4>5. n.data = Wanted(c).data
        BY <4>2, <4>3, <4>4, SeqEqual DEF Data
      <4> QED BY <4>2, <4>4, <4>5
    <3>3. CopiesStay(c)'
      <4>1. ASSUME NEW q \in Final(c), Past(c, q)'
            PROVE  node[Root(c)][Path(c, q)] = Copy(c, q) \/ Shared(c, Path(c, q))
        <5>1. q \in Places(c) /\ pos'[c] = Following(c)
          BY <1>t, <3>1 DEF Final
        <5>2. Past(c, q) \/ q = pos[c]
          BY <3>1, <4>1, <5>1, FollowingIs DEF Past
        <5>3. CASE Past(c, q)
          BY <1>i, <3>1, <5>3 DEF CopiesStay, Working
        <5>4. CASE q = pos[c]
          BY <3>2, <5>4 DEF Target, Wanted
        <5> QED BY <5>2, <5>3, <5>4
      <4> QED BY <2>c, <2>s, <3>1, <4>1 DEF CopiesStay
    <3>4. WritesInOrder(c)' /\ ReadsCopies(c)' /\ Meet'
      BY <1>t, <1>i, <2>m, <3>1 DEF WritesInOrder, ReadsCopies, Working
    <3> QED BY <1>t, <2>q, <3>1, <3>3, <3>4
  <2>7. CASE StartIso(c)
    <3>1. /\ pc' = [pc EXCEPT ![c] = "iso"] /\ pc[c] = "copy" /\ with' = with
          /\ node' = node /\ iso' = iso /\ pos' = pos /\ at' = at /\ pos[c][1] > Len(Mounts(c))
      BY <2>7 DEF StartIso, Goes
    <3>2. CopiesStay(c)'
      BY <1>i, <2>c, <2>s, <3>1 DEF CopiesStay, Past, Working
    <3>3. ReadsCopies(c)'
      <4>1. iso[c] = NoIso /\ \A q \in Final(c) : Path(c, q) \in Paths
        BY <1>i, <3>1, CopyIs DEF ReadsCopies, Final
      <4>2. \A q \in Final(c) : iso[c][Path(c, q)] = Unread
        BY <4>1 DEF NoIso
      <4> QED BY <1>t, <2>c, <3>1, <4>2 DEF ReadsCopies
    <3>4. WritesInOrder(c)' /\ Meet'
      BY <1>t, <2>m, <3>1 DEF WritesInOrder, Working
    <3> QED BY <1>t, <2>q, <3>1, <3>2, <3>3, <3>4
  <2>8. CASE ReadFile(c)
    <3>1. PICK p \in Paths :
            /\ pc' = [pc EXCEPT ![c] = "iso"] /\ pc[c] = "iso" /\ with' = with
            /\ node' = node /\ pos' = pos /\ at' = at
            /\ iso' = [iso EXCEPT ![c][p] = node[Root(c)][p]]
      BY <2>8 DEF ReadFile, Goes
    <3>2. CopiesStay(c)'
      BY <1>i, <2>c, <2>s, <3>1 DEF CopiesStay, Past, Working
    <3>3. ReadsCopies(c)'
      <4>1. pc'[c] = "iso" /\ pos[c][1] > Len(Mounts(c))
        BY <1>t, <1>i, <3>1 DEF ReadsCopies
      <4>2. ASSUME NEW q \in Final(c)
            PROVE  iso'[c][Path(c, q)] \in {Unread, Copy(c, q)} \/ Shared(c, Path(c, q))
        <5>1. q \in Places(c) /\ Path(c, q) \in Paths
          BY CopyIs DEF Final
        <5>2. CASE Path(c, q) = p
          <6>1. q[1] < pos[c][1]
            BY <1>t, <4>1, <5>1, PlaceIs, PairIs
          <6>2. \/ node[Root(c)][Path(c, q)] = Copy(c, q)
                \/ Shared(c, Path(c, q))
            BY <1>i, <3>1, <6>1 DEF CopiesStay, Past, Working
          <6>3. iso'[c][p] = node[Root(c)][p]
            BY <1>t, <3>1
          <6> QED BY <5>2, <6>2, <6>3
        <5>3. CASE Path(c, q) # p
          <6>1. iso'[c][Path(c, q)] = iso[c][Path(c, q)]
            BY <1>t, <3>1, <5>3
          <6> QED BY <1>i, <3>1, <6>1 DEF ReadsCopies
        <5> QED BY <5>2, <5>3
      <4> QED BY <2>c, <2>s, <3>1, <4>1, <4>2 DEF ReadsCopies
    <3>4. WritesInOrder(c)' /\ Meet'
      BY <1>t, <2>m, <3>1 DEF WritesInOrder, Working
    <3>5. \A o \in Creates : o # c => iso'[o] = iso[o] /\ pc'[o] = pc[o]
      BY <1>t, <3>1
    <3> QED BY <1>t, <2>q, <3>1, <3>2, <3>3, <3>4, <3>5
  <2>9. CASE IsoReady(c)
    <3>1. /\ pc' = [pc EXCEPT ![c] = "created"] /\ pc[c] = "iso" /\ with' = with
          /\ node' = node /\ iso' = iso /\ pos' = pos /\ at' = at
          /\ \A p \in Paths : iso[c][p] # Unread
      BY <2>9 DEF IsoReady, Goes
    <3>2. CopiesStay(c)' /\ WritesInOrder(c)' /\ Meet'
      BY <1>t, <2>m, <3>1 DEF CopiesStay, WritesInOrder, Working
    <3>3. ReadsCopies(c)'
      <4>1. pc'[c] = "created"
        BY <1>t, <3>1
      <4> QED BY <1>i, <2>c, <2>s, <3>1, <4>1 DEF ReadsCopies
    <3> QED BY <1>t, <2>q, <3>1, <3>2, <3>3
  <2>10. CASE Fails(c) \/ Killed(c)
    <3>1. /\ \E l \in {"failed", "killed"} : pc' = [pc EXCEPT ![c] = l]
          /\ node' = node /\ with' = with /\ pos' = [pos EXCEPT ![c] = <<1, 0>>]
          /\ at' = [at EXCEPT ![c] = 0] /\ iso' = [iso EXCEPT ![c] = NoIso]
      BY <2>10 DEF Fails, Killed, Ends, Goes
    <3>2. /\ pc'[c] \in {"failed", "killed"} /\ iso'[c] = NoIso
          /\ \A o \in Creates : o # c => /\ pc'[o] = pc[o] /\ pos'[o] = pos[o]
                                       /\ at'[o] = at[o] /\ iso'[o] = iso[o]
      BY <1>t, <3>1
    <3>3. CopiesStay(c)' /\ WritesInOrder(c)' /\ Meet'
      BY <2>m, <3>1, <3>2 DEF CopiesStay, WritesInOrder, Working
    <3>4. ReadsCopies(c)'
      <4>1. NoIso' = NoIso
        BY DEF NoIso
      <4> QED BY <3>2, <4>1 DEF ReadsCopies
    <3> QED BY <1>t, <2>q, <3>1, <3>2, <3>3, <3>4
  <2>11. CASE Retry(c)
    <3>1. /\ pc' = [pc EXCEPT ![c] = "idle"] /\ pc[c] \in {"failed", "killed"}
          /\ with' = with /\ node' = node /\ iso' = iso /\ pos' = pos /\ at' = at
      BY <2>11 DEF Retry, Goes
    <3>2. CopiesStay(c)' /\ WritesInOrder(c)' /\ ReadsCopies(c)' /\ Meet'
      BY <1>t, <1>i, <2>m, <3>1 DEF CopiesStay, WritesInOrder, ReadsCopies, Working
    <3> QED BY <1>t, <2>q, <3>1, <3>2
  <2> QED BY <1>1, <2>1, <2>2, <2>3, <2>4, <2>5, <2>6, <2>7, <2>8, <2>9, <2>10, <2>11
          DEF CreateStep
<1> QED BY <1>0, <1>1 DEF Next

\* A create that succeeds has whole copies of its own files in its ISO
\* (iso_storage.go:45-67, copy.go:49-103), whatever failed and killed creates
\* left in the rootfs, except at the paths that another create was writing at
\* the time: nothing keeps two creates from one rootfs.
THEOREM IsoIsWhole == Spec => []IsoWhole
<1>1. Init => IsoInv
  <2> SUFFICES ASSUME Init PROVE IsoInv
    OBVIOUS
  <2>1. \A c \in Creates : pc[c] = "idle" /\ iso[c] = NoIso
    BY DEF Init
  <2> QED BY <2>1 DEF IsoInv, Meet, CopiesStay, WritesInOrder, ReadsCopies, Working
<1>2. TypeOK /\ TypeOK' /\ IsoInv /\ [Next]_vars => IsoInv'
  BY IsoSteps
<1>3. TypeOK /\ IsoInv => IsoWhole
  <2> SUFFICES ASSUME TypeOK, IsoInv, NEW c \in Creates, pc[c] = "created", NEW q \in Final(c)
               PROVE  iso[c][Path(c, q)] = Copy(c, q) \/ Shared(c, Path(c, q))
    BY DEF IsoWhole
  <2>1. Path(c, q) \in Paths
    BY CopyIs DEF Final
  <2> QED BY <2>1 DEF IsoInv, ReadsCopies
<1> QED BY <1>1, <1>2, <1>3, IsoTypes, PTL DEF Spec

=============================================================================
