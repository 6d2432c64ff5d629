------------------------- MODULE StagedCommitProofs -------------------------
(***************************************************************************)
(* Proofs about staged commits (StagedCommit), for every number of blocks  *)
(* and commits.                                                            *)
(*                                                                         *)
(* The inductive invariant rests on two ideas.  Each version of the file   *)
(* that a crash may expose is Sound: its superblock leads to a whole tree, *)
(* and everything it refers to or records as reusable was written.  And a  *)
(* version differs from the one that is written to it either in blocks the *)
(* two superblocks do not share or in the superblock alone (FilesInv): the *)
(* barriers keep the two kinds of writes apart, so that no mix of old and  *)
(* new pages joins a superblock to blocks it was not written for.          *)
(***************************************************************************)
EXTENDS StagedCommit, FiniteSetTheorems, WellFoundedInduction, TLAPS

Values == 0 .. MaxCommits
Refs   == Addrs \cup {None}
Kinds  == {"absent", "root", "data", "managers"}
Blocks == [kind : Kinds, value : Values, ref : Refs, free : SUBSET Addrs]
Supers == [root : Addrs, mgr : Refs, eof : Nat]
Files  == [sb : Supers, blk : [Addrs -> Blocks]]
Found0 == [root : Values, data : Values]

TreeKinds == {"tree", "keep", "over", "managers"}
Jobs ==
    [kind : {"none"}] \cup [kind : {"inplace"}, target : Found0]
    \cup [kind : TreeKinds, target : Found0, post : SUBSET Addrs, sb : Supers]

Steps == {"idle", "content", "publish", "uncertain", "published", "truncated", "undo", "stopped"}

\* The values of the variables.
TypeOK ==
    /\ policy \in {"Always", "OnClose"}
    /\ stale \in BOOLEAN
    /\ image \in Files /\ os \in Files /\ disk \in Files
    /\ pc \in Steps
    /\ job \in Jobs
    /\ free \in SUBSET Addrs
    /\ saved \in SUBSET Addrs
    /\ undo \in SUBSET (Addrs \X Blocks)
    /\ count \in Values
    /\ allowed \in SUBSET Found0
    /\ before \in SUBSET Found0

(***************************************************************************)
(* The inductive invariant.                                                *)
(***************************************************************************)
Written(file) == {a \in Addrs : file.blk[a] # Absent}

\* A set of blocks with the blocks before them: the file does not end between the two.
WithPredecessors(set) == set \cup {a \in Addrs : a + 1 \in set}

\* Blocks that may be handed out: written, and not referred to.
Reusable(file, set) ==
    set \cap Referenced(file) = {} /\ WithPredecessors(set) \subseteq Written(file)

Recorded(file) == IF file.sb.mgr = None THEN {} ELSE file.blk[file.sb.mgr].free

\* What the superblock relies on, the last block before its end of file included.
Needed(file) == WithPredecessors(Referenced(file) \cup Recorded(file)) \cup {file.sb.eof - 1}

Sound(file) ==
    /\ DataOf(file) \in Addrs
    /\ file.blk[file.sb.root].kind = "root"
    /\ file.blk[DataOf(file)].kind = "data"
    /\ file.sb.mgr # None => file.blk[file.sb.mgr].kind = "managers"
    /\ Recorded(file) \cap Referenced(file) = {}
    /\ \A a \in Referenced(file) \cup Recorded(file) : a < file.sb.eof
    /\ Needed(file) \subseteq Written(file)

\* The two versions have one superblock, and the blocks it binds agree but for the data's value.
SameTree(f, g) ==
    /\ f.sb = g.sb
    /\ f.blk[f.sb.root] = g.blk[f.sb.root]
    /\ f.sb.mgr # None => f.blk[f.sb.mgr] = g.blk[f.sb.mgr]

\* A loss of power may expose the disk.
DiskExposed == policy = "Always" /\ ~stale

\* Phases in which the new superblock may be in flight.
InFlight == pc \in {"uncertain", "stopped"}

FilesInv ==
    /\ Sound(image)
    /\ Sound(os)
    /\ DiskExposed => Sound(disk)
    /\ ~InFlight => SameTree(os, image) /\ (DiskExposed => SameTree(disk, os))
    /\ pc = "stopped" => os = image /\ (DiskExposed => SameTree(disk, os) \/ disk.blk = os.blk)
    /\ pc \in {"publish", "uncertain", "published"} =>
          os.blk = image.blk /\ (DiskExposed => disk.blk = image.blk)
    /\ pc = "truncated" => os = image

\* The file as the running commit will publish it.
Staged == [image EXCEPT !.sb = job.sb]

JobInv ==
    /\ pc \in {"content", "publish"} =>
          /\ Reusable(image, saved)
          /\ undo = {} \/ \E b \in Blocks : b.kind = "data" /\ undo = {<<DataOf(image), b>>}
    /\ pc = "content" => job.kind # "none" /\ (job.kind = "inplace" => free = saved)
    /\ pc \in {"publish", "uncertain", "published", "truncated"} => job.kind \in TreeKinds
    /\ pc \in {"uncertain", "published", "truncated"} => image.sb = job.sb
    /\ pc \in {"content", "publish", "uncertain", "published", "truncated"} /\ job.kind \in TreeKinds =>
          /\ Sound(Staged)
          /\ Reusable(Staged, job.post)
          /\ \A a \in job.post : a < job.sb.eof
    /\ pc \in {"published", "truncated"} => free = job.post
    /\ pc \in {"idle", "undo"} => Reusable(image, free)

\* What the file is found to contain, in every version and whatever becomes of the commit.
ContentInv ==
    /\ before \subseteq allowed
    /\ Found(image) \in allowed
    /\ Found(os) \in allowed
    /\ DiskExposed => Found(disk) \in allowed
    /\ pc \in {"idle", "stopped"} => before = allowed
    /\ pc = "undo" => Found(image) \in before
    /\ pc \in {"content", "publish"} =>
          /\ Found(Restored) \in before
          /\ undo = {} => Found(os) \in before /\ (DiskExposed => Found(disk) \in before)
    /\ pc \in {"content", "publish", "uncertain", "published", "truncated"} =>
          /\ job.target \in allowed
          /\ job.kind \in TreeKinds => Found(Staged) = job.target
          /\ job.kind = "inplace" => Found(image) = job.target

IInv == TypeOK /\ FilesInv /\ JobInv /\ ContentInv

(***************************************************************************)
(* Blocks, files and their length.                                         *)
(***************************************************************************)
LEMMA Bounds ==
    /\ MaxAddr \in Nat /\ MaxAddr >= 3 /\ MaxCommits \in Nat
    /\ \A a \in Addrs : a \in Nat /\ a >= 1 /\ a <= MaxAddr
    /\ \A a \in Nat : a >= 1 /\ a <= MaxAddr => a \in Addrs
    /\ None \notin Addrs
  BY StagedCommitAssumption DEF Addrs, None

LEMMA FileFacts ==
    ASSUME NEW f \in Files
    PROVE  /\ f.sb \in Supers /\ f.sb.root \in Addrs /\ f.sb.mgr \in Refs /\ f.sb.eof \in Nat
           /\ f.blk \in [Addrs -> Blocks]
           /\ \A a \in Addrs : f.blk[a] \in Blocks
  BY Zenon DEF Files, Supers

LEMMA BlockFacts ==
    ASSUME NEW b \in Blocks
    PROVE  b.kind \in Kinds /\ b.value \in Values /\ b.ref \in Refs /\ b.free \in SUBSET Addrs
  BY Zenon DEF Blocks

\* Only a block that was never written is Absent.
LEMMA KindsAreWritten ==
    ASSUME NEW b, b.kind \in {"root", "data", "managers"}
    PROVE  b # Absent
  BY DEF Absent

\* The blocks a commit writes.
LEMMA NewBlocks ==
    ASSUME NEW v \in Values, NEW d \in Addrs, NEW set \in SUBSET Addrs
    PROVE  /\ RootBlock(v, d) \in Blocks /\ RootBlock(v, d).kind = "root"
           /\ RootBlock(v, d).value = v /\ RootBlock(v, d).ref = d
           /\ DataBlock(v) \in Blocks /\ DataBlock(v).kind = "data" /\ DataBlock(v).value = v
           /\ Managers(set) \in Blocks /\ Managers(set).kind = "managers" /\ Managers(set).free = set
           /\ Absent \in Blocks
  <1>1. RootBlock(v, d) \in Blocks /\ DataBlock(v) \in Blocks /\ Managers(set) \in Blocks /\ Absent \in Blocks
    <2>1. 0 \in Values
      BY Bounds DEF Values
    <2> QED BY <2>1, Zenon DEF Blocks, Kinds, Refs, RootBlock, DataBlock, Managers, Absent
  <1> QED BY <1>1, Zenon DEF RootBlock, DataBlock, Managers

LEMMA LeastNat ==
    ASSUME NEW T \in SUBSET Nat, T # {}
    PROVE  \E m \in T : \A y \in T : m <= y
  <1> DEFINE Less == {ss \in Nat \X Nat : ss[1] < ss[2]}
  <1>1. OpToRel(<, Nat) = Less
    BY Zenon DEF OpToRel
  <1>2. IsWellFoundedOn(Less, Nat)
    BY <1>1, NatLessThanWellFounded, Zenon
  <1> HIDE DEF Less
  <1>3. PICK m \in T : \A y \in T : ~(<<y, m>> \in Less)
    BY <1>2, WFMin, Zenon
  <1>4. ASSUME NEW y \in T PROVE m <= y
    <2>1. SUFFICES ASSUME y < m PROVE FALSE
      OBVIOUS
    <2>2. <<y, m>> \in Nat \X Nat /\ <<y, m>>[1] = y /\ <<y, m>>[2] = m
      BY Zenon
    <2>3. <<y, m>> \in Less
      BY <2>1, <2>2, Zenon DEF Less
    <2> QED BY <2>3, <1>3, Zenon
  <1> QED BY <1>4, Zenon

\* A nonempty set of addresses has a last one.
LEMMA LastAddress ==
    ASSUME NEW T \in SUBSET Addrs, T # {}
    PROVE  \E m \in T : \A y \in T : y <= m
  <1> DEFINE Down == {n \in Nat : \E y \in T : n = MaxAddr - y}
  <1>1. \A y \in T : MaxAddr - y \in Down
    BY Bounds
  <1>2. Down \in SUBSET Nat /\ Down # {}
    BY <1>1, Zenon
  <1>3. PICK n \in Down : \A k \in Down : n <= k
    BY <1>2, LeastNat, Zenon
  <1>4. PICK m \in T : n = MaxAddr - m
    BY <1>3, Zenon
  <1>5. ASSUME NEW y \in T PROVE y <= m
    <2>1. n <= MaxAddr - y
      BY <1>1, <1>3, Zenon
    <2> QED BY <2>1, <1>4, Bounds
  <1> QED BY <1>5, Zenon

\* End is one past the last written block.
LEMMA EndFacts ==
    ASSUME NEW f \in Files
    PROVE  /\ End(f) \in Nat /\ End(f) >= 1 /\ End(f) <= MaxAddr + 1
           /\ End(f) > 1 => End(f) - 1 \in Written(f)
           /\ \A a \in Written(f) : a < End(f)
  <1> DEFINE S == {a \in Addrs : \E b \in a .. MaxAddr : f.blk[b] # Absent}
  <1>1. End(f) = 1 + Cardinality(S)
    BY Zenon DEF End
  <1>2. CASE Written(f) = {}
    <2>1. S = {}
      <3> SUFFICES ASSUME NEW a \in Addrs, NEW b \in a .. MaxAddr, f.blk[b] # Absent PROVE FALSE
        BY Zenon
      <3>1. b \in Addrs
        BY Bounds
      <3> QED BY <3>1, <1>2, Zenon DEF Written
    <2>2. Cardinality(S) = 0
      BY <2>1, FS_EmptySet, Zenon
    <2> HIDE DEF S
    <2> QED BY <1>1, <1>2, <2>2, Bounds
  <1>3. CASE Written(f) # {}
    <2>1. Written(f) \in SUBSET Addrs
      BY Zenon DEF Written
    <2>2. PICK m \in Written(f) : \A y \in Written(f) : y <= m
      BY <1>3, <2>1, LastAddress, Zenon
    <2>3. m \in Addrs /\ m \in Nat /\ m >= 1 /\ m <= MaxAddr
      BY <2>1, Bounds, Zenon
    <2>4. S = 1 .. m
      <3>1. ASSUME NEW a \in S PROVE a \in 1 .. m
        <4>1. PICK b \in a .. MaxAddr : f.blk[b] # Absent
          BY Zenon
        <4>2. a \in Addrs /\ b \in Addrs
          BY Bounds
        <4>3. b <= m
          BY <4>1, <4>2, <2>2, Zenon DEF Written
        <4> QED BY <4>2, <4>3, <2>3, Bounds
      <3>2. ASSUME NEW a \in 1 .. m PROVE a \in S
        <4>1. a \in Addrs /\ m \in a .. MaxAddr
          BY <2>3, Bounds
        <4>2. f.blk[m] # Absent
          BY <2>2, Zenon DEF Written
        <4> QED BY <4>1, <4>2, Zenon
      <3> HIDE DEF S
      <3> QED BY <3>1, <3>2, Zenon
    <2> HIDE DEF S
    <2>5. Cardinality(S) = m
      <3>1. Cardinality(1 .. m) = m
        BY <2>3, FS_Interval
      <3> QED BY <3>1, <2>4, Zenon
    <2>6. End(f) = m + 1
      BY <1>1, <2>5, <2>3
    <2> QED BY <2>6, <2>2, <2>3, <2>1, Bounds
  <1> QED BY <1>2, <1>3, Zenon

(***************************************************************************)
(* Sound files.                                                            *)
(***************************************************************************)
LEMMA SoundFacts ==
    ASSUME NEW f \in Files, Sound(f)
    PROVE  /\ DataOf(f) \in Addrs /\ DataOf(f) # f.sb.root
           /\ f.sb.mgr # None => f.sb.mgr \in Addrs
           /\ Referenced(f) \in SUBSET Addrs
           /\ f.sb.root \in Referenced(f) /\ DataOf(f) \in Referenced(f)
           /\ f.sb.mgr # None => f.sb.mgr \in Referenced(f)
           /\ Recorded(f) \in SUBSET Addrs
           /\ Referenced(f) \subseteq Needed(f) /\ Recorded(f) \subseteq Needed(f)
           /\ f.sb.eof - 1 \in Needed(f) /\ f.sb.eof - 1 \in Addrs
  <1>1. DataOf(f) \in Addrs /\ DataOf(f) # f.sb.root
    BY Zenon DEF Sound
  <1>2. f.sb.mgr # None => f.sb.mgr \in Addrs
    BY FileFacts, Zenon DEF Refs
  <1>3. Referenced(f) \in SUBSET Addrs
    BY <1>1, <1>2, FileFacts, Zenon DEF Referenced
  <1>4. f.sb.root # None /\ DataOf(f) # None
    BY <1>1, FileFacts, Bounds, Zenon
  <1>5. Recorded(f) \in SUBSET Addrs
    BY <1>2, FileFacts, BlockFacts, Zenon DEF Recorded
  <1>6. f.sb.eof - 1 \in Needed(f) /\ Referenced(f) \subseteq Needed(f) /\ Recorded(f) \subseteq Needed(f)
    BY Zenon DEF Needed, WithPredecessors
  <1>7. f.sb.eof - 1 \in Addrs
    BY <1>6, Zenon DEF Sound, Written
  <1>8. f.sb.root \in Referenced(f) /\ DataOf(f) \in Referenced(f) /\ (f.sb.mgr # None => f.sb.mgr \in Referenced(f))
    BY <1>4, Zenon DEF Referenced
  <1> QED BY <1>1, <1>2, <1>3, <1>5, <1>6, <1>7, <1>8, Zenon

\* A sound file is intact: the end of file it records is reached.
LEMMA SoundIsIntact ==
    ASSUME NEW f \in Files, Sound(f)
    PROVE  Intact(f)
  <1>1. f.sb.eof - 1 \in Written(f)
    BY SoundFacts, Zenon DEF Sound
  <1>2. f.sb.eof - 1 < End(f)
    BY <1>1, EndFacts, Zenon
  <1>3. f.sb.eof <= End(f)
    BY <1>2, EndFacts, FileFacts
  <1>4. \A a \in Referenced(f) : a < f.sb.eof
    BY Zenon DEF Sound
  <1> QED BY <1>3, <1>4, Zenon DEF Sound, Intact

\* What a superblock refers to and records depends on the root and the managers.
LEMMA SameTreeFacts ==
    ASSUME NEW f, NEW g, SameTree(f, g)
    PROVE  /\ DataOf(f) = DataOf(g) /\ Referenced(f) = Referenced(g)
           /\ Recorded(f) = Recorded(g) /\ Needed(f) = Needed(g)
           /\ SameTree(g, f)
  <1>1. DataOf(f) = DataOf(g)
    BY Zenon DEF SameTree, DataOf
  <1>2. Referenced(f) = Referenced(g)
    BY <1>1, Zenon DEF SameTree, Referenced
  <1>3. Recorded(f) = Recorded(g)
    BY Zenon DEF SameTree, Recorded
  <1>4. Needed(f) = Needed(g)
    BY <1>2, <1>3, Zenon DEF SameTree, Needed
  <1>5. SameTree(g, f)
    BY Zenon DEF SameTree
  <1> QED BY <1>1, <1>2, <1>3, <1>4, <1>5, Zenon

LEMMA SameTreeTransitive ==
    ASSUME NEW f, NEW g, NEW h, SameTree(f, g), SameTree(g, h)
    PROVE  SameTree(f, h)
  BY Zenon DEF SameTree

LEMMA SameTreeReflexive == \A f : SameTree(f, f)
  BY Zenon DEF SameTree

\* A version with the tree of a sound one, its data and its needed blocks written, is sound.
LEMMA Carried ==
    ASSUME NEW f \in Files, NEW g \in Files, Sound(f), SameTree(g, f),
           g.blk[DataOf(f)].kind = "data", Needed(f) \subseteq Written(g)
    PROVE  Sound(g)
  <1>1. /\ DataOf(g) = DataOf(f) /\ Referenced(g) = Referenced(f) /\ Recorded(g) = Recorded(f)
        /\ Needed(g) = Needed(f)
    BY SameTreeFacts, Zenon
  <1>2. /\ g.sb = f.sb /\ g.blk[g.sb.root] = f.blk[f.sb.root]
        /\ g.sb.mgr # None => g.blk[g.sb.mgr] = f.blk[f.sb.mgr]
    BY Zenon DEF SameTree
  <1> QED BY <1>1, <1>2, Zenon DEF Sound

\* Any mix of two sound versions of one tree is a sound version of it.
LEMMA Mixed ==
    ASSUME NEW f \in Files, NEW g \in Files, NEW h \in Files, Sound(f), Sound(g), SameTree(f, g),
           h.sb = f.sb, \A a \in Addrs : h.blk[a] = f.blk[a] \/ h.blk[a] = g.blk[a]
    PROVE  /\ Sound(h) /\ SameTree(h, f) /\ SameTree(h, g)
           /\ Found(h) = Found(f) \/ Found(h) = Found(g)
  <1>1. DataOf(g) = DataOf(f) /\ Needed(g) = Needed(f)
    BY SameTreeFacts, Zenon
  <1>2. f.sb.root \in Addrs /\ DataOf(f) \in Addrs /\ (f.sb.mgr # None => f.sb.mgr \in Addrs)
    BY FileFacts, SoundFacts, Zenon
  <1>3. SameTree(h, f)
    BY <1>2, Zenon DEF SameTree
  <1>4. SameTree(h, g)
    BY <1>3, SameTreeTransitive, Zenon
  <1>5. Needed(f) \subseteq Written(h)
    <2> SUFFICES ASSUME NEW a \in Needed(f) PROVE a \in Written(h)
      BY Zenon
    <2>1. a \in Written(f) /\ a \in Written(g)
      BY <1>1, Zenon DEF Sound
    <2> QED BY <2>1, Zenon DEF Written
  <1>6. h.blk[DataOf(f)].kind = "data"
    BY <1>1, <1>2, Zenon DEF Sound
  <1>7. Sound(h)
    BY <1>3, <1>5, <1>6, Carried, Zenon
  <1>8. /\ h.blk[h.sb.root] = f.blk[f.sb.root] /\ g.blk[g.sb.root] = f.blk[f.sb.root]
        /\ DataOf(h) = DataOf(f)
    BY <1>3, SameTreeFacts, Zenon DEF SameTree
  <1>9. Found(h) = Found(f) \/ Found(h) = Found(g)
    BY <1>1, <1>2, <1>8, Zenon DEF Found
  <1> QED BY <1>3, <1>4, <1>7, <1>9, Zenon

\* One block of g reaches f.
Receives(h, f, g, a) == h.sb = f.sb /\ h.blk = [f.blk EXCEPT ![a] = g.blk[a]]

LEMMA BlockArrives ==
    ASSUME NEW f \in Files, NEW g \in Files, Sound(f), Sound(g), SameTree(f, g), NEW a \in Addrs,
           NEW h \in Files, Receives(h, f, g, a)
    PROVE  /\ Sound(h) /\ SameTree(h, f) /\ SameTree(h, g)
           /\ Found(h) = Found(f) \/ Found(h) = Found(g)
  <1>1. \A b \in Addrs : h.blk[b] = f.blk[b] \/ h.blk[b] = g.blk[b]
    BY FileFacts, Zenon DEF Receives
  <1>2. h.sb = f.sb
    BY Zenon DEF Receives
  <1> QED BY <1>1, <1>2, Mixed, Zenon

\* Writing over the data and placing blocks elsewhere keep a file sound.
LEMMA Grown ==
    ASSUME NEW f \in Files, NEW g \in Files, Sound(f), SameTree(g, f),
           g.blk[DataOf(f)].kind = "data", Written(f) \subseteq Written(g)
    PROVE  /\ Sound(g)
           /\ \A set : Reusable(f, set) => Reusable(g, set)
  <1>1. Needed(f) \subseteq Written(g)
    BY Zenon DEF Sound
  <1>2. Sound(g)
    BY <1>1, Carried, Zenon
  <1>3. Referenced(g) = Referenced(f)
    BY SameTreeFacts, Zenon
  <1> QED BY <1>2, <1>3, Zenon DEF Reusable

\* The data block alone is written.
WritesData(g, f, b) == g.sb = f.sb /\ g.blk = [f.blk EXCEPT ![DataOf(f)] = b]

LEMMA DataWritten ==
    ASSUME NEW f \in Files, Sound(f), NEW b \in Blocks, b.kind = "data",
           NEW g \in Files, WritesData(g, f, b)
    PROVE  /\ SameTree(g, f) /\ Sound(g)
           /\ \A set : Reusable(f, set) => Reusable(g, set)
           /\ Found(g) = [Found(f) EXCEPT !.data = b.value]
           /\ g.blk[DataOf(f)] = b
           /\ \A a \in Addrs : a # DataOf(f) => g.blk[a] = f.blk[a]
  <1>1. /\ f.blk \in [Addrs -> Blocks] /\ DataOf(f) \in Addrs /\ DataOf(f) # f.sb.root
        /\ f.sb.root \in Addrs /\ (f.sb.mgr # None => f.sb.mgr \in Addrs)
    BY FileFacts, SoundFacts, Zenon
  <1>2. g.sb = f.sb /\ g.blk = [f.blk EXCEPT ![DataOf(f)] = b]
    BY Zenon DEF WritesData
  <1>3. g.blk[DataOf(f)] = b /\ \A a \in Addrs : a # DataOf(f) => g.blk[a] = f.blk[a]
    BY <1>1, <1>2, Zenon
  <1>4. f.sb.mgr # None => f.sb.mgr # DataOf(f)
    BY Zenon DEF Sound
  <1>5. SameTree(g, f)
    BY <1>1, <1>2, <1>3, <1>4, Zenon DEF SameTree
  <1>6. Written(f) \subseteq Written(g)
    <2>1. b # Absent
      BY KindsAreWritten, SMTT(30)
    <2> QED BY <2>1, <1>3, Zenon DEF Written
  <1>7. Sound(g) /\ \A set : Reusable(f, set) => Reusable(g, set)
    BY <1>3, <1>5, <1>6, Grown, Zenon
  <1>8. Found(g) = [Found(f) EXCEPT !.data = b.value]
    <2>1. DataOf(g) = DataOf(f) /\ g.blk[g.sb.root] = f.blk[f.sb.root]
      BY <1>5, SameTreeFacts, Zenon DEF SameTree
    <2>2. Found(g) = [root |-> f.blk[f.sb.root].value, data |-> b.value]
      BY <2>1, <1>3, Zenon DEF Found
    <2> QED BY <2>2, SMTT(30) DEF Found
  <1> QED BY <1>3, <1>5, <1>7, <1>8, Zenon

\* Cutting a file at its published end keeps all that its superblock relies on.
LEMMA CutKeeps ==
    ASSUME NEW f \in Files, Sound(f), NEW g, g = Cut(f, f.sb.eof)
    PROVE  /\ g \in Files /\ SameTree(g, f) /\ Sound(g) /\ Found(g) = Found(f)
           /\ \A set \in SUBSET Addrs :
                 Reusable(f, set) /\ (\A a \in set : a < f.sb.eof) => Reusable(g, set)
  <1> DEFINE put == [a \in Addrs |-> IF a < f.sb.eof THEN f.blk[a] ELSE Absent]
  <1>1. put \in [Addrs -> Blocks]
    <2>1. Absent \in Blocks
      BY NewBlocks, SoundFacts, Bounds DEF Values
    <2> QED BY <2>1, FileFacts, Zenon
  <1>2. g \in Files /\ g.sb = f.sb /\ g.blk = put
    BY <1>1, Zenon DEF Cut, Files
  <1>3. \A a \in Addrs : a < f.sb.eof => g.blk[a] = f.blk[a]
    BY <1>2, Zenon
  <1> HIDE DEF put
  <1>4. \A a \in Referenced(f) : g.blk[a] = f.blk[a]
    BY <1>3, SoundFacts, Zenon DEF Sound
  <1>5. SameTree(g, f)
    BY <1>2, <1>4, SoundFacts, Zenon DEF SameTree
  <1>6. ASSUME NEW set \in SUBSET Addrs, \A a \in set : a < f.sb.eof, WithPredecessors(set) \subseteq Written(f)
        PROVE  WithPredecessors(set) \subseteq Written(g)
    <2> SUFFICES ASSUME NEW a \in WithPredecessors(set) PROVE a \in Written(g)
      BY Zenon
    <2>1. a \in Addrs /\ f.blk[a] # Absent
      BY <1>6, Zenon DEF Written
    <2>2. a \in set \/ a + 1 \in set
      BY Zenon DEF WithPredecessors
    <2>3. a < f.sb.eof
      BY <2>1, <2>2, <1>6, FileFacts, Bounds, SMTT(30)
    <2> QED BY <2>1, <2>3, <1>3, Zenon DEF Written
  <1>7. Needed(f) \subseteq Written(g)
    <2>1. WithPredecessors(Referenced(f) \cup Recorded(f)) \subseteq Written(f)
      BY Zenon DEF Sound, Needed
    <2>2. Referenced(f) \cup Recorded(f) \in SUBSET Addrs
      BY SoundFacts, Zenon
    <2>3. \A a \in Referenced(f) \cup Recorded(f) : a < f.sb.eof
      BY Zenon DEF Sound
    <2>4. WithPredecessors(Referenced(f) \cup Recorded(f)) \subseteq Written(g)
      BY <2>1, <2>2, <2>3, <1>6, Zenon
    <2>5. f.sb.eof - 1 \in Addrs /\ f.sb.eof - 1 \in Written(f)
      BY SoundFacts, Zenon DEF Sound
    <2>6. f.sb.eof - 1 < f.sb.eof
      BY FileFacts
    <2>7. f.sb.eof - 1 \in Written(g)
      BY <2>5, <2>6, <1>3, Zenon DEF Written
    <2> QED BY <2>4, <2>7, Zenon DEF Needed
  <1>8. g.blk[DataOf(f)] = f.blk[DataOf(f)]
    BY <1>4, SoundFacts, Zenon
  <1>9. Sound(g)
    <2>1. g.blk[DataOf(f)].kind = "data"
      BY <1>8, Zenon DEF Sound
    <2> QED BY <2>1, <1>2, <1>5, <1>7, Carried, Zenon
  <1>10. Found(g) = Found(f)
    BY <1>5, <1>8, SameTreeFacts, Zenon DEF Found, SameTree
  <1>11. Referenced(g) = Referenced(f)
    BY <1>5, SameTreeFacts, Zenon
  <1> QED BY <1>2, <1>5, <1>6, <1>9, <1>10, <1>11, Zenon DEF Reusable

\* A session that opens a sound file may hand out what it loads.
LEMMA LoadedIsReusable ==
    ASSUME NEW f \in Files, Sound(f)
    PROVE  Loaded(f) \in SUBSET Addrs /\ Reusable(f, Loaded(f))
  <1>1. Loaded(f) \subseteq Recorded(f)
    BY Zenon DEF Loaded, Recorded
  <1>2. WithPredecessors(Loaded(f)) \subseteq Needed(f)
    BY <1>1, Zenon DEF WithPredecessors, Needed
  <1>3. WithPredecessors(Loaded(f)) \subseteq Written(f)
    BY <1>2, Zenon DEF Sound
  <1>4. Loaded(f) \cap Referenced(f) = {}
    BY <1>1, Zenon DEF Sound
  <1> QED BY <1>1, <1>3, <1>4, SoundFacts, Zenon DEF Reusable

(***************************************************************************)
(* Placement.  A chain of reservations that starts with the reusable       *)
(* blocks fr and the end e has placed the blocks `placed' and left the     *)
(* space s.                                                                *)
(***************************************************************************)
Placing(fr, e, s, placed) ==
    /\ s.end \in Nat /\ e <= s.end
    /\ s.free \subseteq fr
    /\ s.free \cap placed = {}
    /\ \A a \in placed : a \in Nat /\ a >= 1 /\ a < s.end /\ (a \in fr \/ e <= a)
    /\ \A a \in Nat : e <= a /\ a < s.end => a \in placed

\* What one more reservation does to the chain.
Takes(s, t) ==
    \/ t.at \in s.free /\ t.free = s.free \ {t.at} /\ t.end = s.end
    \/ t.at = s.end /\ t.free \subseteq s.free /\ t.end = s.end + 1

\* Reserve takes the lowest reusable block, or extends the file.
LEMMA ReserveTakes ==
    ASSUME NEW s, s.free \in SUBSET Nat
    PROVE  Takes(s, Reserve(s))
  <1>1. CASE s.free = {}
    <2>1. Reserve(s) = [at |-> s.end, free |-> {}, end |-> s.end + 1]
      BY <1>1, Zenon DEF Reserve
    <2> QED BY <2>1 DEF Takes
  <1>2. CASE s.free # {}
    <2> DEFINE a == CHOOSE x \in s.free : \A y \in s.free : x <= y
    <2>1. a \in s.free
      <3>1. \E x \in s.free : \A y \in s.free : x <= y
        BY <1>2, LeastNat, Zenon
      <3> QED BY <3>1, Zenon
    <2>2. Reserve(s) = [at |-> a, free |-> s.free \ {a}, end |-> s.end]
      BY <1>2, Zenon DEF Reserve
    <2> HIDE DEF a
    <2> QED BY <2>1, <2>2, SMTT(30) DEF Takes
  <1> QED BY <1>1, <1>2, Zenon

LEMMA AppendTakes ==
    ASSUME NEW s
    PROVE  Takes(s, Append(s))
  <1>1. Append(s) = [at |-> s.end, free |-> s.free, end |-> s.end + 1]
    BY Zenon DEF Append
  <1> QED BY <1>1, SMTT(30) DEF Takes

\* A reservation takes a block of its own, and the chain goes on.
LEMMA TakesKeepsPlacing ==
    ASSUME NEW e \in Nat, e >= 1, NEW fr \in SUBSET Nat, \A a \in fr : a >= 1 /\ a < e,
           NEW s, NEW placed, Placing(fr, e, s, placed), NEW t, Takes(s, t)
    PROVE  t.at \notin placed /\ Placing(fr, e, t, placed \cup {t.at})
  <1>1. CASE t.at \in s.free /\ t.free = s.free \ {t.at} /\ t.end = s.end
    <2>1. t.at \in fr /\ t.at \notin placed /\ t.at \in Nat
      BY <1>1, Zenon DEF Placing
    <2>2. t.free \subseteq fr /\ t.free \cap (placed \cup {t.at}) = {}
      BY <1>1, Zenon DEF Placing
    <2>3. t.at >= 1 /\ t.at < t.end
      BY <1>1, <2>1 DEF Placing
    <2> QED BY <1>1, <2>1, <2>2, <2>3, Zenon DEF Placing
  <1>2. CASE t.at = s.end /\ t.free \subseteq s.free /\ t.end = s.end + 1
    <2>1. s.end \in Nat /\ e <= s.end /\ s.end \notin placed
      BY DEF Placing
    <2>2. t.free \subseteq fr /\ t.free \cap (placed \cup {t.at}) = {}
      BY <1>2, <2>1, SMTT(30) DEF Placing
    <2>3. \A a \in placed \cup {t.at} : a \in Nat /\ a >= 1 /\ a < t.end /\ (a \in fr \/ e <= a)
      BY <1>2, <2>1 DEF Placing
    <2>4. \A a \in Nat : e <= a /\ a < t.end => a \in placed \cup {t.at}
      BY <1>2, <2>1 DEF Placing
    <2> QED BY <1>2, <2>1, <2>2, <2>3, <2>4, SMTT(30) DEF Placing
  <1> QED BY <1>1, <1>2, Zenon DEF Takes

(***************************************************************************)
(* The new tree.  g is the file f with the blocks of a commit placed in    *)
(* it, n the same file with the superblock the commit will publish.        *)
(***************************************************************************)
Places(g, f, fr, s, placed) ==
    /\ Placing(fr, End(f), s, placed) /\ s.end <= MaxAddr + 1
    /\ g.sb = f.sb
    /\ \A a \in placed : g.blk[a].kind \in {"root", "data", "managers"}
    /\ \A a \in Addrs : a \notin placed /\ a # DataOf(f) => g.blk[a] = f.blk[a]
    /\ g.blk[DataOf(f)].kind = "data"

Post(f, s, d, r) == s.free \cup (Referenced(f) \ {d, r})

Publishes(n, g, f, s, placed, d, r, m, cut) ==
    /\ n.blk = g.blk /\ n.sb = [root |-> r, mgr |-> m, eof |-> cut]
    /\ d \in placed \cup {DataOf(f)} /\ r \in placed \cup {f.sb.root} /\ m \in placed \cup {None}
    /\ g.blk[r].kind = "root" /\ g.blk[r].ref = d /\ g.blk[d].kind = "data"
    /\ m # None => g.blk[m] = Managers({a \in Post(f, s, d, r) : a < cut})
    /\ cut \in Trailing(Post(f, s, d, r), s.end)

\* What is placed was not referred to, and nothing written is lost.
LEMMA PlacesFacts ==
    ASSUME NEW f \in Files, NEW g \in Files, Sound(f), NEW fr \in SUBSET Addrs, Reusable(f, fr),
           NEW s, NEW placed, Places(g, f, fr, s, placed)
    PROVE  /\ placed \in SUBSET Addrs /\ placed \cap Referenced(f) = {}
           /\ placed \subseteq Written(g) /\ Written(f) \subseteq Written(g)
           /\ \A a \in fr : a >= 1 /\ a < End(f)
  <1>1. Placing(fr, End(f), s, placed) /\ s.end <= MaxAddr + 1 /\ s.end \in Nat
    BY Zenon DEF Places, Placing
  <1>2. fr \subseteq Written(f)
    BY Zenon DEF Reusable, WithPredecessors
  <1>3. \A a \in fr : a >= 1 /\ a < End(f)
    BY <1>2, EndFacts, Bounds, Zenon
  <1>4. placed \in SUBSET Addrs
    BY <1>1, Bounds DEF Placing
  <1>5. Referenced(f) \subseteq Written(f)
    BY SoundFacts, Zenon DEF Sound
  <1>6. ASSUME NEW a \in placed, a \in Referenced(f) PROVE FALSE
    <2>1. a < End(f) /\ a \in Nat /\ End(f) \in Nat
      BY <1>4, <1>5, <1>6, EndFacts, Bounds, Zenon
    <2>2. a \in fr
      BY <2>1, <1>1 DEF Placing
    <2> QED BY <2>2, <1>6, Zenon DEF Reusable
  <1>7. ASSUME NEW a \in placed PROVE a \in Written(g)
    <2>1. g.blk[a] # Absent
      BY KindsAreWritten DEF Places
    <2> QED BY <2>1, <1>4, Zenon DEF Written
  <1>8. ASSUME NEW a \in Written(f) PROVE a \in Written(g)
    <2>1. a \in Addrs /\ f.blk[a] # Absent
      BY Zenon DEF Written
    <2>2. CASE a \in placed
      BY <2>2, <1>7, Zenon
    <2>3. CASE a = DataOf(f)
      <3>1. g.blk[a] # Absent
        BY <2>3, KindsAreWritten, SMTT(30) DEF Places
      <3> QED BY <3>1, <2>1, Zenon DEF Written
    <2>4. CASE a \notin placed /\ a # DataOf(f)
      BY <2>1, <2>4, Zenon DEF Places, Written
    <2> QED BY <2>2, <2>3, <2>4, Zenon
  <1> QED BY <1>3, <1>4, <1>6, <1>7, <1>8, Zenon

\* The old tree survives the placement.
LEMMA OldTreeStays ==
    ASSUME NEW f \in Files, NEW g \in Files, Sound(f), NEW fr \in SUBSET Addrs, Reusable(f, fr),
           NEW s, NEW placed, Places(g, f, fr, s, placed)
    PROVE  /\ SameTree(g, f) /\ Sound(g)
           /\ \A set : Reusable(f, set) => Reusable(g, set)
  <1>1. placed \cap Referenced(f) = {} /\ Written(f) \subseteq Written(g)
    BY PlacesFacts, Zenon
  <1>2. \A a \in Referenced(f) : a # DataOf(f) => g.blk[a] = f.blk[a]
    BY <1>1, SoundFacts, Zenon DEF Places
  <1>3. f.sb.root # DataOf(f) /\ (f.sb.mgr # None => f.sb.mgr # DataOf(f))
    BY Zenon DEF Sound
  <1>4. SameTree(g, f)
    BY <1>2, <1>3, SoundFacts, Zenon DEF SameTree, Places
  <1>5. g.blk[DataOf(f)].kind = "data"
    BY Zenon DEF Places
  <1> QED BY <1>1, <1>4, <1>5, Grown, Zenon

\* The new tree is whole, and what it leaves reusable is written and not referred to.
LEMMA NewTreeIsSound ==
    ASSUME NEW f \in Files, NEW g \in Files, NEW n \in Files, Sound(f),
           NEW fr \in SUBSET Addrs, Reusable(f, fr), NEW s, NEW placed, Places(g, f, fr, s, placed),
           NEW d \in Addrs, NEW r \in Addrs, NEW m \in Refs, NEW cut \in Nat,
           Publishes(n, g, f, s, placed, d, r, m, cut)
    PROVE  /\ DataOf(n) = d /\ Sound(n)
           /\ Reusable(n, {a \in Post(f, s, d, r) : a < cut})
  <1> DEFINE post == Post(f, s, d, r)
             kept == {a \in post : a < cut}
             old  == {f.sb.root, DataOf(f)}
  <1>1. /\ placed \in SUBSET Addrs /\ placed \cap Referenced(f) = {}
        /\ placed \subseteq Written(g) /\ Written(f) \subseteq Written(g)
        /\ \A a \in fr : a >= 1 /\ a < End(f)
    BY PlacesFacts, Zenon
  <1>2. /\ n.blk = g.blk /\ n.sb.root = r /\ n.sb.mgr = m /\ n.sb.eof = cut
        /\ d \in placed \cup {DataOf(f)} /\ r \in placed \cup {f.sb.root} /\ m \in placed \cup {None}
        /\ g.blk[r].kind = "root" /\ g.blk[r].ref = d /\ g.blk[d].kind = "data"
        /\ m # None => g.blk[m] = Managers(kept)
        /\ cut \in Trailing(post, s.end)
    BY SMTT(30) DEF Publishes
  <1>3. /\ s.end \in Nat /\ End(f) <= s.end /\ s.end <= MaxAddr + 1
        /\ s.free \subseteq fr /\ s.free \cap placed = {}
        /\ \A a \in placed : a < s.end /\ (a \in fr \/ End(f) <= a)
        /\ \A a \in Nat : End(f) <= a /\ a < s.end => a \in placed
    BY Zenon DEF Places, Placing
  <1>4. DataOf(n) = d /\ Referenced(n) = {r, d, m} \ {None}
    BY <1>2, Zenon DEF DataOf, Referenced
  <1>5. /\ Referenced(f) \in SUBSET Addrs /\ f.sb.root \in Referenced(f) /\ DataOf(f) \in Referenced(f)
        /\ fr \cap Referenced(f) = {}
    BY SoundFacts, Zenon DEF Reusable
  <1>6. post \cap Referenced(n) = {}
    <2>1. {r, d, m} \ {None} \subseteq placed \cup old
      BY <1>2, Zenon
    <2>2. s.free \cap (placed \cup old) = {}
      BY <1>3, <1>5, Zenon
    <2>3. m # None => m \notin Referenced(f)
      BY <1>1, <1>2, Zenon
    <2> HIDE DEF old
    <2> QED BY <1>4, <2>1, <2>2, <2>3, Zenon DEF Post
  <1>7. post \in SUBSET Addrs /\ \A a \in post : a < End(f)
    <2>1. \A a \in Referenced(f) : a < End(f)
      BY SoundFacts, EndFacts, Zenon DEF Sound
    <2> QED BY <1>1, <1>3, <1>5, <2>1, Zenon DEF Post
  <1> HIDE DEF post, old
  <1>8. cut >= 1 /\ cut <= s.end /\ \A a \in Nat : cut <= a /\ a < s.end => a \in post
    BY <1>2, <1>3, SMTT(30) DEF Trailing
  <1>9. ASSUME NEW a \in Referenced(n) PROVE a \in Addrs /\ a < cut
    <2>1. a \in placed \/ a \in Referenced(f)
      BY <1>2, <1>4, <1>5, Zenon
    <2>2. a \in Addrs
      BY <2>1, <1>1, <1>5, Zenon
    <2>3. a < s.end
      <3>1. CASE a \in placed
        BY <3>1, <1>3, Zenon
      <3>2. CASE a \in Referenced(f)
        <4>1. a < End(f)
          BY <3>2, SoundFacts, EndFacts, Zenon DEF Sound
        <4> QED BY <4>1, <2>2, <1>3, EndFacts, Bounds, SMTT(30)
      <3> QED BY <3>1, <3>2, <2>1, Zenon
    <2>4. a \notin post
      BY <1>6, Zenon
    <2> QED BY <2>2, <2>3, <2>4, <1>8, Bounds, SMTT(30)
  <1>10. WithPredecessors(Referenced(f) \cup fr) \subseteq Written(g)
    <2>1. WithPredecessors(Referenced(f)) \subseteq Written(f)
      BY Zenon DEF Sound, Needed, WithPredecessors
    <2>2. WithPredecessors(fr) \subseteq Written(f)
      BY Zenon DEF Reusable
    <2> QED BY <2>1, <2>2, <1>1, Zenon DEF WithPredecessors
  <1>11. post \subseteq Referenced(f) \cup fr
    BY <1>3, Zenon DEF post, Post
  <1>12. ASSUME NEW a \in Addrs, a + 1 \in placed PROVE a \in Written(g)
    <2>1. CASE a + 1 \in fr
      BY <2>1, <1>10, Zenon DEF WithPredecessors
    <2>2. CASE End(f) <= a
      <3>1. a \in placed
        BY <2>2, <1>3, <1>12, Bounds, SMTT(30)
      <3> QED BY <3>1, <1>1, Zenon
    <2>3. CASE a + 1 = End(f)
      <3>1. End(f) > 1 /\ a = End(f) - 1
        BY <2>3, EndFacts, Bounds, SMTT(30)
      <3> QED BY <3>1, <1>1, EndFacts, Zenon
    <2>4. a + 1 \in fr \/ End(f) <= a + 1
      BY <1>3, <1>12, Zenon
    <2>5. End(f) <= a + 1 => End(f) <= a \/ a + 1 = End(f)
      BY EndFacts, Bounds, SMTT(30)
    <2> QED BY <2>1, <2>2, <2>3, <2>4, <2>5, Zenon
  <1>13. WithPredecessors(Referenced(n)) \subseteq Written(g)
    <2> SUFFICES ASSUME NEW a \in WithPredecessors(Referenced(n)) PROVE a \in Written(g)
      BY Zenon
    <2>1. \A b \in Referenced(n) : b \in placed \/ b \in Referenced(f)
      BY <1>2, <1>4, <1>5, Zenon
    <2>2. CASE a \in Referenced(n)
      BY <2>1, <2>2, <1>1, <1>10, Zenon DEF WithPredecessors
    <2>3. CASE a \in Addrs /\ a + 1 \in Referenced(n)
      BY <2>1, <2>3, <1>10, <1>12, Zenon DEF WithPredecessors
    <2> QED BY <2>2, <2>3, Zenon DEF WithPredecessors
  <1>14. WithPredecessors(kept) \subseteq Written(g)
    BY <1>10, <1>11, Zenon DEF WithPredecessors
  <1>15. cut - 1 \in Written(g)
    <2>1. CASE cut = s.end
      <3>1. CASE s.end = End(f)
        <4>1. End(f) > 1
          <5>1. f.sb.root < End(f)
            BY SoundFacts, EndFacts, Zenon DEF Sound
          <5> QED BY <5>1, FileFacts, EndFacts, Bounds, SMTT(30)
        <4>2. End(f) - 1 \in Written(g)
          BY <4>1, <1>1, EndFacts, Zenon
        <4> QED BY <4>2, <2>1, <3>1, Zenon
      <3>2. CASE s.end # End(f)
        <4>1. s.end - 1 \in Nat /\ End(f) <= s.end - 1 /\ s.end - 1 < s.end
          BY <3>2, <1>3, EndFacts, SMTT(30)
        <4>2. s.end - 1 \in placed
          BY <4>1, <1>3, Zenon
        <4> QED BY <4>2, <2>1, <1>1, Zenon
      <3> QED BY <3>1, <3>2, Zenon
    <2>2. CASE cut # s.end
      <3>1. cut \in post
        BY <2>2, <1>8, <1>3, SMTT(30)
      <3>2. r < cut /\ r \in Nat /\ r >= 1
        BY <1>4, <1>9, Bounds, Zenon
      <3>3. cut - 1 \in Addrs /\ (cut - 1) + 1 = cut
        BY <3>1, <3>2, <1>7, Bounds, SMTT(30)
      <3>4. cut - 1 \in WithPredecessors(Referenced(f) \cup fr)
        BY <3>1, <3>3, <1>11, Zenon DEF WithPredecessors
      <3> QED BY <3>4, <1>10, Zenon
    <2> QED BY <2>1, <2>2, Zenon
  <1>16. Recorded(n) \subseteq kept
    <2>1. kept \in SUBSET Addrs
      BY <1>7, Zenon
    <2> HIDE DEF kept
    <2>2. Managers(kept).free = kept
      BY Zenon DEF Managers
    <2> QED BY <2>2, <1>2, Zenon DEF Recorded
  <1>17. Written(n) = Written(g)
    BY <1>2, Zenon DEF Written
  <1>18. Needed(n) \subseteq Written(n)
    <2>1. WithPredecessors(Recorded(n)) \subseteq Written(g)
      BY <1>14, <1>16, Zenon DEF WithPredecessors
    <2>2. WithPredecessors(Referenced(n) \cup Recorded(n)) \subseteq Written(g)
      BY <2>1, <1>13, Zenon DEF WithPredecessors
    <2> QED BY <2>2, <1>2, <1>15, <1>17, Zenon DEF Needed
  <1>19. kept \cap Referenced(n) = {}
    BY <1>6, Zenon
  <1>20. m # None => g.blk[m].kind = "managers"
    BY <1>2, SMTT(30) DEF Managers
  <1>21. \A a \in Referenced(n) \cup Recorded(n) : a < n.sb.eof
    BY <1>2, <1>9, <1>16, Zenon
  <1>22. Sound(n)
    BY <1>2, <1>4, <1>16, <1>18, <1>19, <1>20, <1>21, Zenon DEF Sound
  <1>23. Reusable(n, kept)
    BY <1>14, <1>17, <1>19, Zenon DEF Reusable
  <1> QED BY <1>4, <1>22, <1>23, Zenon DEF post

(***************************************************************************)
(* ApplyTree, step by step: the space before each reservation, and what    *)
(* the reservations are for.                                               *)
(***************************************************************************)
Space0       == [at |-> None, free |-> free, end |-> End(image)]
Space1(kind) == IF kind = "tree" THEN Reserve(Space0) ELSE Space0
Space2(kind) == IF kind = "managers" THEN Space1(kind) ELSE Reserve(Space1(kind))
Spaces(kind) == IF persist THEN {Reserve(Space2(kind)), Append(Space2(kind))} ELSE {Space2(kind)}

NewData(kind)  == IF kind = "tree" THEN Space1(kind).at ELSE DataOf(image)
NewRoot(kind)  == IF kind = "managers" THEN image.sb.root ELSE Space2(kind).at
NewManagers(s) == IF persist THEN s.at ELSE None

NewPost(kind, s)      == Post(image, s, NewData(kind), NewRoot(kind))
NewKept(kind, s, cut) == {a \in NewPost(kind, s) : a < cut}
NewBlk(kind, s, cut)  ==
    [a \in Addrs |->
        CASE a = NewManagers(s) -> Managers(NewKept(kind, s, cut))
          [] a = NewRoot(kind) /\ kind # "managers" -> RootBlock(count + 1, NewData(kind))
          [] a = NewData(kind) /\ kind \in {"tree", "over"} -> DataBlock(count + 1)
          [] OTHER -> image.blk[a]]

Applies(kind, s, cut) ==
    /\ s.end <= MaxAddr + 1
    /\ cut \in Trailing(NewPost(kind, s), s.end)
    /\ image' = [image EXCEPT !.blk = NewBlk(kind, s, cut)]
    /\ job' = [kind |-> kind, target |-> Target(kind), post |-> NewKept(kind, s, cut),
               sb |-> [root |-> NewRoot(kind), mgr |-> NewManagers(s), eof |-> cut]]
    /\ free' = s.free
    /\ undo' = IF kind = "over" THEN {<<NewData(kind), image.blk[NewData(kind)]>>} ELSE {}

LEMMA ApplyTreeChoice ==
    ASSUME NEW kind \in TreeKinds, ApplyTree(kind)
    PROVE  /\ Starts(kind) /\ pc' = "content"
           /\ \E s \in Spaces(kind) : \E cut : Applies(kind, s, cut)
  <1>1. Starts(kind) /\ pc' = "content"
    BY Zenon DEF ApplyTree
  <1>2. PICK s \in Spaces(kind) :
          /\ s.end <= MaxAddr + 1
          /\ \E cut \in IF persist THEN Trailing(NewPost(kind, s), s.end)
                         ELSE {c \in Trailing(NewPost(kind, s), s.end) :
                                 \A x \in Trailing(NewPost(kind, s), s.end) : c <= x} :
               /\ image' = [image EXCEPT !.blk = NewBlk(kind, s, cut)]
               /\ job' = [kind |-> kind, target |-> Target(kind), post |-> NewKept(kind, s, cut),
                          sb |-> [root |-> NewRoot(kind), mgr |-> NewManagers(s), eof |-> cut]]
               /\ free' = s.free
          /\ undo' = IF kind = "over" THEN {<<NewData(kind), image.blk[NewData(kind)]>>} ELSE {}
    BY Zenon DEF ApplyTree, Space0, Space1, Space2, Spaces, NewData, NewRoot, NewManagers, NewPost,
                 NewKept, NewBlk, Post, PostFree
  <1>3. PICK cut \in IF persist THEN Trailing(NewPost(kind, s), s.end)
                     ELSE {c \in Trailing(NewPost(kind, s), s.end) :
                             \A x \in Trailing(NewPost(kind, s), s.end) : c <= x} :
               /\ image' = [image EXCEPT !.blk = NewBlk(kind, s, cut)]
               /\ job' = [kind |-> kind, target |-> Target(kind), post |-> NewKept(kind, s, cut),
                          sb |-> [root |-> NewRoot(kind), mgr |-> NewManagers(s), eof |-> cut]]
               /\ free' = s.free
    BY <1>2, Zenon
  <1>4. cut \in Trailing(NewPost(kind, s), s.end)
    BY <1>3, Zenon
  <1> QED BY <1>1, <1>2, <1>3, <1>4, Zenon DEF Applies

\* The blocks a commit places: data, root and managers, as far as it replaces them.
Taken1(kind)    == IF kind = "tree" THEN {NewData(kind)} ELSE {}
Taken2(kind)    == Taken1(kind) \cup IF kind = "managers" THEN {} ELSE {NewRoot(kind)}
Taken3(kind, s) == Taken2(kind) \cup IF persist THEN {s.at} ELSE {}

LEMMA ApplyPlacing ==
    ASSUME image \in Files, Sound(image), free \in SUBSET Addrs, Reusable(image, free),
           NEW kind \in TreeKinds, NEW s \in Spaces(kind)
    PROVE  /\ Placing(free, End(image), s, Taken3(kind, s))
           /\ kind # "managers" => NewRoot(kind) \notin Taken1(kind)
           /\ persist => s.at \notin Taken2(kind)
  <1>1. /\ End(image) \in Nat /\ End(image) >= 1
        /\ free \in SUBSET Nat /\ \A a \in free : a >= 1 /\ a < End(image)
    <2>1. free \subseteq Written(image)
      BY Zenon DEF Reusable, WithPredecessors
    <2> QED BY <2>1, EndFacts, Bounds, Zenon
  <1>2. Placing(free, End(image), Space0, {})
    BY <1>1 DEF Placing, Space0
  <1>3. ASSUME NEW t, NEW placed, Placing(free, End(image), t, placed) PROVE t.free \in SUBSET Nat
    BY <1>1, <1>3, Zenon DEF Placing
  <1>4. Placing(free, End(image), Space1(kind), Taken1(kind))
    <2>1. CASE kind = "tree"
      <3>1. Space1(kind) = Reserve(Space0) /\ Taken1(kind) = {} \cup {Reserve(Space0).at}
        BY <2>1, Zenon DEF Space1, Taken1, NewData
      <3>2. Takes(Space0, Reserve(Space0))
        BY <1>2, <1>3, ReserveTakes, Zenon
      <3>3. Placing(free, End(image), Reserve(Space0), {} \cup {Reserve(Space0).at})
        BY <3>2, <1>1, <1>2, TakesKeepsPlacing, Zenon
      <3> QED BY <3>1, <3>3, Zenon
    <2>2. CASE kind # "tree"
      BY <2>2, <1>2, Zenon DEF Space1, Taken1
    <2> QED BY <2>1, <2>2, Zenon
  <1>5. /\ Placing(free, End(image), Space2(kind), Taken2(kind))
        /\ kind # "managers" => NewRoot(kind) \notin Taken1(kind)
    <2>1. CASE kind # "managers"
      <3>1. /\ Space2(kind) = Reserve(Space1(kind)) /\ NewRoot(kind) = Reserve(Space1(kind)).at
            /\ Taken2(kind) = Taken1(kind) \cup {Reserve(Space1(kind)).at}
        BY <2>1, Zenon DEF Space2, Taken2, NewRoot
      <3>2. Takes(Space1(kind), Reserve(Space1(kind)))
        BY <1>4, <1>3, ReserveTakes, Zenon
      <3>3. /\ Placing(free, End(image), Reserve(Space1(kind)), Taken1(kind) \cup {Reserve(Space1(kind)).at})
            /\ Reserve(Space1(kind)).at \notin Taken1(kind)
        BY <3>2, <1>1, <1>4, TakesKeepsPlacing, Zenon
      <3> QED BY <3>1, <3>3, Zenon
    <2>2. CASE kind = "managers"
      <3>1. Space2(kind) = Space1(kind) /\ Taken2(kind) = Taken1(kind) \cup {}
        BY <2>2, Zenon DEF Space2, Taken2
      <3> QED BY <3>1, <2>2, <1>4, Zenon
    <2> QED BY <2>1, <2>2, Zenon
  <1>6. CASE persist
    <2>1. Takes(Space2(kind), s)
      <3>1. s = Reserve(Space2(kind)) \/ s = Append(Space2(kind))
        BY <1>6, Zenon DEF Spaces
      <3> QED BY <3>1, <1>3, <1>5, ReserveTakes, AppendTakes, Zenon
    <2>2. s.at \notin Taken2(kind) /\ Placing(free, End(image), s, Taken2(kind) \cup {s.at})
      BY <2>1, <1>1, <1>5, TakesKeepsPlacing, Zenon
    <2> QED BY <1>5, <1>6, <2>2, Zenon DEF Taken3
  <1>7. CASE ~persist
    <2>1. s = Space2(kind) /\ Taken3(kind, s) = Taken2(kind)
      BY <1>7, Zenon DEF Spaces, Taken3
    <2> QED BY <1>5, <1>7, <2>1, Zenon
  <1> QED BY <1>6, <1>7, Zenon

\* The addresses of the new tree, and what the commit writes to each block.
LEMMA ApplyBlocks ==
    ASSUME image \in Files, Sound(image), free \in SUBSET Addrs, Reusable(image, free),
           count + 1 \in Values, NEW kind \in TreeKinds, NEW s \in Spaces(kind), NEW cut,
           Applies(kind, s, cut)
    PROVE  /\ Taken3(kind, s) \in SUBSET Addrs /\ Taken3(kind, s) \cap Referenced(image) = {}
           /\ NewData(kind) \in Addrs /\ NewRoot(kind) \in Addrs /\ NewManagers(s) \in Refs
           /\ cut \in Nat /\ NewKept(kind, s, cut) \in SUBSET Addrs
           /\ image' \in Files /\ image'.sb = image.sb
           /\ persist => image'.blk[s.at] = Managers(NewKept(kind, s, cut))
           /\ kind # "managers" => image'.blk[NewRoot(kind)] = RootBlock(count + 1, NewData(kind))
           /\ kind \in {"tree", "over"} => image'.blk[NewData(kind)] = DataBlock(count + 1)
           /\ \A a \in Addrs : a \notin Taken3(kind, s) /\ (kind = "over" => a # DataOf(image)) =>
                 image'.blk[a] = image.blk[a]
  <1>1. /\ Placing(free, End(image), s, Taken3(kind, s)) /\ s.end <= MaxAddr + 1
        /\ kind # "managers" => NewRoot(kind) \notin Taken1(kind)
        /\ persist => s.at \notin Taken2(kind)
    BY ApplyPlacing, Zenon DEF Applies
  <1>2. Taken3(kind, s) \in SUBSET Addrs
    BY <1>1, Bounds, SMTT(30) DEF Placing
  <1>3. Taken3(kind, s) \cap Referenced(image) = {}
    <2> SUFFICES ASSUME NEW a \in Taken3(kind, s), a \in Referenced(image) PROVE FALSE
      BY Zenon
    <2>1. a < End(image) /\ a \in Nat /\ End(image) \in Nat
      <3>1. a \in Written(image)
        BY SoundFacts, Zenon DEF Sound
      <3> QED BY <3>1, <1>2, EndFacts, Bounds, Zenon
    <2>2. a \in free
      BY <2>1, <1>1, SMTT(30) DEF Placing
    <2> QED BY <2>2, Zenon DEF Reusable
  <1>4. NewData(kind) \in Addrs /\ NewRoot(kind) \in Addrs
    <2>1. image.sb.root \in Addrs /\ DataOf(image) \in Addrs
      BY FileFacts, SoundFacts, Zenon
    <2>2. kind = "tree" => NewData(kind) \in Addrs
      BY <1>2, Zenon DEF Taken1, Taken2, Taken3
    <2>3. kind # "tree" => NewData(kind) \in Addrs
      BY <2>1, Zenon DEF NewData
    <2>4. kind # "managers" => NewRoot(kind) \in Addrs
      BY <1>2, Zenon DEF Taken2, Taken3
    <2>5. kind = "managers" => NewRoot(kind) \in Addrs
      BY <2>1, Zenon DEF NewRoot
    <2> QED BY <2>2, <2>3, <2>4, <2>5, Zenon
  <1>5. NewManagers(s) \in Refs
    BY <1>2, Zenon DEF NewManagers, Refs, Taken3
  <1>6. cut \in Nat
    <2>1. s.end \in Nat
      BY <1>1, Zenon DEF Placing
    <2> QED BY <2>1, SMTT(30) DEF Applies, Trailing
  <1>7. NewKept(kind, s, cut) \in SUBSET Addrs
    <2>1. s.free \in SUBSET Addrs
      BY <1>1, Zenon DEF Placing
    <2> QED BY <2>1, SoundFacts, Zenon DEF NewKept, NewPost, Post
  <1>8. NewBlk(kind, s, cut) \in [Addrs -> Blocks]
    <2>1. /\ Managers(NewKept(kind, s, cut)) \in Blocks /\ RootBlock(count + 1, NewData(kind)) \in Blocks
          /\ DataBlock(count + 1) \in Blocks
      BY <1>4, <1>7, NewBlocks, Zenon
    <2>2. \A a \in Addrs : image.blk[a] \in Blocks
      BY FileFacts, Zenon
    <2> QED BY <2>1, <2>2, Zenon DEF NewBlk
  <1>9. image' \in Files /\ image'.sb = image.sb /\ image'.blk = NewBlk(kind, s, cut)
    BY <1>8, Zenon DEF Applies, Files
  <1>10. \A a \in Addrs : a = NewManagers(s) => persist /\ a = s.at
    BY Bounds, Zenon DEF NewManagers
  <1>11. /\ kind # "managers" => NewRoot(kind) # NewManagers(s)
         /\ kind \in {"tree", "over"} => NewData(kind) # NewRoot(kind) /\ NewData(kind) # NewManagers(s)
    <2>1. kind = "tree" => NewData(kind) \in Taken1(kind)
      BY Zenon DEF Taken1
    <2>2. kind = "over" => NewData(kind) \in Referenced(image)
      <3>1. "over" # "tree"
        BY Zenon
      <3> QED BY <3>1, SoundFacts, Zenon DEF NewData
    <2>3. kind # "managers" => NewRoot(kind) \in Taken3(kind, s) /\ NewRoot(kind) \in Taken2(kind)
      BY Zenon DEF Taken2, Taken3
    <2>4. kind \in {"tree", "over"} => kind # "managers"
      BY Zenon
    <2>5. kind \in {"tree", "over"} => NewData(kind) # NewRoot(kind)
      BY <2>1, <2>2, <2>3, <2>4, <1>1, <1>3, Zenon
    <2>6. persist => s.at \in Taken3(kind, s) /\ s.at \notin Taken1(kind)
      BY <1>1, Zenon DEF Taken2, Taken3
    <2>7. kind \in {"tree", "over"} => NewData(kind) # NewManagers(s)
      BY <2>1, <2>2, <2>6, <1>3, <1>4, <1>10, Zenon
    <2>8. kind # "managers" => NewRoot(kind) # NewManagers(s)
      BY <2>3, <1>1, <1>4, <1>10, Zenon
    <2> QED BY <2>5, <2>7, <2>8, Zenon
  <1>12. persist => image'.blk[s.at] = Managers(NewKept(kind, s, cut))
    <2> SUFFICES ASSUME persist PROVE image'.blk[s.at] = Managers(NewKept(kind, s, cut))
      BY Zenon
    <2>1. s.at \in Addrs /\ s.at = NewManagers(s)
      BY <1>2, Zenon DEF Taken3, NewManagers
    <2> QED BY <2>1, <1>9, <1>11, Zenon DEF NewBlk
  <1>13. /\ kind # "managers" => image'.blk[NewRoot(kind)] = RootBlock(count + 1, NewData(kind))
         /\ kind \in {"tree", "over"} => image'.blk[NewData(kind)] = DataBlock(count + 1)
    <2>1. ASSUME kind # "managers" PROVE image'.blk[NewRoot(kind)] = RootBlock(count + 1, NewData(kind))
      BY <2>1, <1>4, <1>9, <1>11, Zenon DEF NewBlk
    <2>2. ASSUME kind \in {"tree", "over"} PROVE image'.blk[NewData(kind)] = DataBlock(count + 1)
      BY <2>2, <1>4, <1>9, <1>11, Zenon DEF NewBlk
    <2> QED BY <2>1, <2>2, Zenon
  <1>14. ASSUME NEW a \in Addrs, a \notin Taken3(kind, s), kind = "over" => a # DataOf(image)
         PROVE  image'.blk[a] = image.blk[a]
    <2>1. a # NewManagers(s)
      BY <1>10, <1>14, Zenon DEF Taken3
    <2>2. ~(a = NewRoot(kind) /\ kind # "managers")
      BY <1>14, Zenon DEF Taken2, Taken3
    <2>3. ~(a = NewData(kind) /\ kind = "tree")
      BY <1>14, Zenon DEF Taken1, Taken2, Taken3
    <2>4. ~(a = NewData(kind) /\ kind = "over")
      <3>1. "over" # "tree"
        BY Zenon
      <3> QED BY <1>14, <3>1, Zenon DEF NewData
    <2> QED BY <2>1, <2>2, <2>3, <2>4, <1>9, SMTT(30) DEF NewBlk
  <1> QED BY <1>2, <1>3, <1>4, <1>5, <1>6, <1>7, <1>9, <1>12, <1>13, <1>14, Zenon

\* What the commit places and will publish, in the terms of the lemmas on new trees.
LEMMA ApplyPublishes ==
    ASSUME image \in Files, Sound(image), free \in SUBSET Addrs, Reusable(image, free),
           count + 1 \in Values, NEW kind \in TreeKinds, NEW s \in Spaces(kind), NEW cut,
           Applies(kind, s, cut)
    PROVE  /\ Places(image', image, free, s, Taken3(kind, s))
           /\ Staged' \in Files
           /\ Publishes(Staged', image', image, s, Taken3(kind, s), NewData(kind), NewRoot(kind),
                        NewManagers(s), cut)
  <1> DEFINE kept == NewKept(kind, s, cut)
  <1>1. /\ Taken3(kind, s) \in SUBSET Addrs /\ Taken3(kind, s) \cap Referenced(image) = {}
        /\ NewData(kind) \in Addrs /\ NewRoot(kind) \in Addrs /\ NewManagers(s) \in Refs
        /\ cut \in Nat /\ kept \in SUBSET Addrs
        /\ image' \in Files /\ image'.sb = image.sb
        /\ persist => image'.blk[s.at] = Managers(kept)
        /\ kind # "managers" => image'.blk[NewRoot(kind)] = RootBlock(count + 1, NewData(kind))
        /\ kind \in {"tree", "over"} => image'.blk[NewData(kind)] = DataBlock(count + 1)
        /\ \A a \in Addrs : a \notin Taken3(kind, s) /\ (kind = "over" => a # DataOf(image)) =>
              image'.blk[a] = image.blk[a]
    BY ApplyBlocks, Zenon
  <1>2. /\ Managers(kept).kind = "managers"
        /\ RootBlock(count + 1, NewData(kind)).kind = "root"
        /\ RootBlock(count + 1, NewData(kind)).ref = NewData(kind)
        /\ DataBlock(count + 1).kind = "data"
    BY Zenon DEF Managers, RootBlock, DataBlock
  <1>3. "over" # "tree" /\ "managers" # "tree" /\ "over" # "managers" /\ "tree" # "managers"
    BY Zenon
  <1>4. /\ DataOf(image) \in Addrs /\ DataOf(image) \in Referenced(image)
        /\ image.sb.root \in Addrs /\ image.sb.root \in Referenced(image) /\ DataOf(image) # image.sb.root
        /\ image.blk[DataOf(image)].kind = "data" /\ image.blk[image.sb.root].kind = "root"
    BY SoundFacts, FileFacts, Zenon DEF Sound
  <1>5. ASSUME NEW a \in Taken3(kind, s) PROVE image'.blk[a].kind \in {"root", "data", "managers"}
    <2>1. CASE persist /\ a = s.at
      BY <2>1, <1>1, <1>2, Zenon
    <2>2. CASE kind # "managers" /\ a = NewRoot(kind)
      BY <2>2, <1>1, <1>2, Zenon
    <2>3. CASE kind = "tree" /\ a = NewData(kind)
      BY <2>3, <1>1, <1>2, Zenon
    <2> QED BY <2>1, <2>2, <2>3, Zenon DEF Taken1, Taken2, Taken3
  <1>6. image'.blk[DataOf(image)].kind = "data"
    <2>1. CASE kind = "over"
      BY <2>1, <1>1, <1>2, <1>3, Zenon DEF NewData
    <2>2. CASE kind # "over"
      BY <2>2, <1>1, <1>4, Zenon
    <2> QED BY <2>1, <2>2, Zenon
  <1>7. Places(image', image, free, s, Taken3(kind, s))
    BY <1>1, <1>5, <1>6, ApplyPlacing, Zenon DEF Places, Applies
  <1>8. /\ Staged' \in Files /\ Staged'.blk = image'.blk
        /\ Staged'.sb = [root |-> NewRoot(kind), mgr |-> NewManagers(s), eof |-> cut]
    <2>1. job'.sb = [root |-> NewRoot(kind), mgr |-> NewManagers(s), eof |-> cut]
      BY Zenon DEF Applies
    <2>2. job'.sb \in Supers
      BY <2>1, <1>1, SMTT(30) DEF Supers
    <2>3. Staged' = [image' EXCEPT !.sb = job'.sb]
      BY Zenon DEF Staged
    <2>4. Staged' \in Files /\ Staged'.blk = image'.blk /\ Staged'.sb = job'.sb
      BY <2>2, <2>3, <1>1, Zenon DEF Files
    <2> QED BY <2>1, <2>4, Zenon
  <1>9. /\ NewData(kind) \in Taken3(kind, s) \cup {DataOf(image)}
        /\ NewRoot(kind) \in Taken3(kind, s) \cup {image.sb.root}
        /\ NewManagers(s) \in Taken3(kind, s) \cup {None}
    BY Zenon DEF NewData, NewRoot, NewManagers, Taken1, Taken2, Taken3
  <1>10. /\ image'.blk[NewRoot(kind)].kind = "root" /\ image'.blk[NewRoot(kind)].ref = NewData(kind)
    <2>1. CASE kind # "managers"
      BY <2>1, <1>1, <1>2, Zenon
    <2>2. CASE kind = "managers"
      <3>1. NewRoot(kind) = image.sb.root /\ NewData(kind) = DataOf(image)
        BY <2>2, <1>3, Zenon DEF NewRoot, NewData
      <3>2. image'.blk[image.sb.root] = image.blk[image.sb.root]
        BY <2>2, <1>1, <1>3, <1>4, Zenon
      <3> QED BY <3>1, <3>2, <1>4, Zenon DEF DataOf
    <2> QED BY <2>1, <2>2, Zenon
  <1>11. image'.blk[NewData(kind)].kind = "data"
    <2>1. CASE kind = "tree"
      BY <2>1, <1>1, <1>2, Zenon
    <2>2. CASE kind # "tree"
      BY <2>2, <1>6, Zenon DEF NewData
    <2> QED BY <2>1, <2>2, Zenon
  <1>12. NewManagers(s) # None =>
             image'.blk[NewManagers(s)] = Managers({a \in Post(image, s, NewData(kind), NewRoot(kind)) : a < cut})
    BY <1>1, Zenon DEF NewManagers, NewKept, NewPost
  <1>13. cut \in Trailing(Post(image, s, NewData(kind), NewRoot(kind)), s.end)
    BY Zenon DEF Applies, NewPost
  <1> QED BY <1>7, <1>8, <1>9, <1>10, <1>11, <1>12, <1>13, Zenon DEF Publishes

\* The new tree holds what the commit is to leave; the old one only loses overwritten data.
LEMMA ApplyContents ==
    ASSUME image \in Files, Sound(image), free \in SUBSET Addrs, Reusable(image, free),
           count + 1 \in Values, NEW kind \in TreeKinds, NEW s \in Spaces(kind), NEW cut,
           Applies(kind, s, cut)
    PROVE  /\ Found(Staged') = Target(kind)
           /\ kind # "over" => Found(image') = Found(image)
           /\ kind = "over" => Found(image') = [Found(image) EXCEPT !.data = count + 1]
  <1>1. /\ Taken3(kind, s) \cap Referenced(image) = {}
        /\ NewData(kind) \in Addrs /\ NewRoot(kind) \in Addrs
        /\ image' \in Files /\ image'.sb = image.sb
        /\ kind # "managers" => image'.blk[NewRoot(kind)] = RootBlock(count + 1, NewData(kind))
        /\ kind \in {"tree", "over"} => image'.blk[NewData(kind)] = DataBlock(count + 1)
        /\ \A a \in Addrs : a \notin Taken3(kind, s) /\ (kind = "over" => a # DataOf(image)) =>
              image'.blk[a] = image.blk[a]
    BY ApplyBlocks, Zenon
  <1>2. /\ RootBlock(count + 1, NewData(kind)).value = count + 1
        /\ RootBlock(count + 1, NewData(kind)).ref = NewData(kind)
        /\ DataBlock(count + 1).value = count + 1
    BY Zenon DEF RootBlock, DataBlock
  <1>3. /\ "over" # "tree" /\ "managers" # "tree" /\ "over" # "managers" /\ "tree" # "managers"
        /\ "keep" # "tree" /\ "keep" # "managers" /\ "keep" # "over"
    BY Zenon
  <1>4. /\ DataOf(image) \in Addrs /\ DataOf(image) \in Referenced(image)
        /\ image.sb.root \in Addrs /\ image.sb.root \in Referenced(image) /\ DataOf(image) # image.sb.root
    BY SoundFacts, FileFacts, Zenon
  <1>5. image'.blk[image.sb.root] = image.blk[image.sb.root]
    BY <1>1, <1>4, Zenon
  <1>6. kind # "over" => image'.blk[DataOf(image)] = image.blk[DataOf(image)]
    BY <1>1, <1>4, ZenonT(30)
  <1>7. DataOf(image') = DataOf(image)
    BY <1>1, <1>5, Zenon DEF DataOf
  <1>8. Found(image) = [root |-> image.blk[image.sb.root].value, data |-> image.blk[DataOf(image)].value]
    BY Zenon DEF Found
  <1>9. Found(image') = [root |-> image.blk[image.sb.root].value, data |-> image'.blk[DataOf(image)].value]
    BY <1>1, <1>5, <1>7, Zenon DEF Found
  <1>10. kind # "over" => Found(image') = Found(image)
    BY <1>6, <1>8, <1>9, Zenon
  <1>11. kind = "over" => Found(image') = [Found(image) EXCEPT !.data = count + 1]
    <2> SUFFICES ASSUME kind = "over" PROVE Found(image') = [Found(image) EXCEPT !.data = count + 1]
      BY Zenon
    <2>1. image'.blk[DataOf(image)].value = count + 1
      BY <1>1, <1>2, <1>3, Zenon DEF NewData
    <2> QED BY <2>1, <1>8, <1>9, SMTT(30)
  <1>12. Found(Staged') = [root |-> image'.blk[NewRoot(kind)].value, data |-> image'.blk[NewData(kind)].value]
    <2>1. /\ Staged'.blk = image'.blk /\ Staged'.sb.root = NewRoot(kind)
          /\ image'.blk[NewRoot(kind)].ref = NewData(kind)
      <3>1. Publishes(Staged', image', image, s, Taken3(kind, s), NewData(kind), NewRoot(kind),
                      NewManagers(s), cut)
        BY ApplyPublishes, Zenon
      <3> QED BY <3>1, SMTT(30) DEF Publishes
    <2> QED BY <2>1, Zenon DEF Found, DataOf
  <1>13. CASE kind = "tree"
    <2>1. Found(Staged') = [root |-> count + 1, data |-> count + 1]
      BY <1>13, <1>12, <1>1, <1>2, <1>3, Zenon
    <2> QED BY <2>1, <1>13, <1>10, <1>3, Zenon DEF Target, Fresh
  <1>14. CASE kind = "over"
    <2>1. Found(Staged') = [root |-> count + 1, data |-> count + 1]
      BY <1>14, <1>12, <1>1, <1>2, <1>3, Zenon
    <2> QED BY <2>1, <1>14, <1>11, Zenon DEF Target, Fresh
  <1>15. CASE kind = "keep"
    <2>1. Found(Staged') = [root |-> count + 1, data |-> image.blk[DataOf(image)].value]
      BY <1>15, <1>12, <1>1, <1>2, <1>3, <1>6, Zenon DEF NewData
    <2>2. Found(Staged') = [Found(image) EXCEPT !.root = count + 1]
      BY <2>1, <1>8, SMTT(30)
    <2> QED BY <2>2, <1>15, <1>10, <1>3, Zenon DEF Target
  <1>16. CASE kind = "managers"
    <2>1. NewRoot(kind) = image.sb.root /\ NewData(kind) = DataOf(image)
      BY <1>16, <1>3, Zenon DEF NewRoot, NewData
    <2>2. Found(Staged') = Found(image)
      BY <2>1, <1>16, <1>12, <1>5, <1>6, <1>3, <1>8, Zenon
    <2> QED BY <2>2, <1>16, <1>10, <1>3, Zenon DEF Target
  <1> QED BY <1>13, <1>14, <1>15, <1>16, Zenon DEF TreeKinds

(***************************************************************************)
(* The journal: restoring the overwritten data.                            *)
(***************************************************************************)
Undone(f, journal) ==
    [f EXCEPT !.blk = [a \in Addrs |->
        IF \E e \in journal : e[1] = a THEN (CHOOSE e \in journal : e[1] = a)[2] ELSE f.blk[a]]]

LEMMA NothingUndone ==
    ASSUME NEW f \in Files
    PROVE  Undone(f, {}) = f
  <1>1. f.blk = [a \in Addrs |-> f.blk[a]]
    BY FileFacts, Zenon
  <1>2. [a \in Addrs |-> IF \E e \in {} : e[1] = a THEN (CHOOSE e \in {} : e[1] = a)[2] ELSE f.blk[a]]
          = [a \in Addrs |-> f.blk[a]]
    BY Zenon
  <1>3. Undone(f, {}) = [f EXCEPT !.blk = f.blk]
    BY <1>1, <1>2, Zenon DEF Undone
  <1> QED BY <1>3, Zenon DEF Files

LEMMA DataUndone ==
    ASSUME NEW f \in Files, DataOf(f) \in Addrs, NEW b \in Blocks
    PROVE  Undone(f, {<<DataOf(f), b>>}) \in Files /\ WritesData(Undone(f, {<<DataOf(f), b>>}), f, b)
  <1> DEFINE d == DataOf(f)
             j == {<<d, b>>}
             put == [a \in Addrs |-> IF \E e \in j : e[1] = a THEN (CHOOSE e \in j : e[1] = a)[2]
                                     ELSE f.blk[a]]
  <1>1. ASSUME NEW a \in Addrs PROVE put[a] = IF a = d THEN b ELSE f.blk[a]
    <2>1. CASE a = d
      <3>1. \E e \in j : e[1] = a
        BY <2>1, Zenon
      <3>2. (CHOOSE e \in j : e[1] = a) = <<d, b>>
        BY <3>1, Zenon
      <3> QED BY <2>1, <3>1, <3>2, SMTT(30)
    <2>2. CASE a # d
      <3>1. ~\E e \in j : e[1] = a
        BY <2>2, SMTT(30)
      <3> QED BY <2>2, <3>1, Zenon
    <2> QED BY <2>1, <2>2, Zenon
  <1>2. put = [a \in Addrs |-> put[a]]
    BY Zenon
  <1>3. Undone(f, j) = [f EXCEPT !.blk = put]
    BY Zenon DEF Undone
  <1> HIDE DEF put
  <1>4. put = [f.blk EXCEPT ![d] = b] /\ put \in [Addrs -> Blocks]
    <2>1. f.blk \in [Addrs -> Blocks]
      BY FileFacts, Zenon
    <2>2. \A a \in Addrs : put[a] = [f.blk EXCEPT ![d] = b][a]
      BY <1>1, <2>1, Zenon
    <2>3. [f.blk EXCEPT ![d] = b] \in [Addrs -> Blocks]
      BY <2>1, Zenon
    <2>4. put = [f.blk EXCEPT ![d] = b]
      BY <1>2, <2>2, <2>3, Zenon
    <2> QED BY <2>3, <2>4, Zenon
  <1>5. Undone(f, j) \in Files /\ Undone(f, j).sb = f.sb /\ Undone(f, j).blk = put
    BY <1>3, <1>4, Zenon DEF Files
  <1> QED BY <1>4, <1>5, Zenon DEF WritesData

LEMMA RestoredIsUndone == Restored = Undone(image, undo) /\ Restored' = Undone(image', undo')
  BY Zenon DEF Restored, Undone

(***************************************************************************)
(* What the invariant says, and the steps that leave most of it alone.     *)
(***************************************************************************)
LEMMA InvFacts ==
    ASSUME IInv
    PROVE  /\ image \in Files /\ os \in Files /\ disk \in Files
           /\ Sound(image) /\ Sound(os) /\ (DiskExposed => Sound(disk))
           /\ pc \in Steps /\ job \in Jobs /\ free \in SUBSET Addrs /\ saved \in SUBSET Addrs
           /\ undo \in SUBSET (Addrs \X Blocks) /\ count \in Values
           /\ allowed \in SUBSET Found0 /\ before \in SUBSET Found0 /\ before \subseteq allowed
           /\ Found(image) \in allowed /\ Found(os) \in allowed /\ (DiskExposed => Found(disk) \in allowed)
  BY Zenon DEF IInv, TypeOK, FilesInv, ContentInv

LEMMA FoundType ==
    ASSUME NEW f \in Files, Sound(f)
    PROVE  Found(f) \in Found0
  <1>1. f.blk[f.sb.root].value \in Values /\ f.blk[DataOf(f)].value \in Values
    BY FileFacts, SoundFacts, BlockFacts, Zenon
  <1> QED BY <1>1, Zenon DEF Found, Found0

LEMMA JobFacts ==
    ASSUME NEW j \in Jobs
    PROVE  /\ j.kind # "none" => j.target \in Found0
           /\ j.kind \in TreeKinds => j.post \in SUBSET Addrs /\ j.sb \in Supers
  BY Zenon DEF Jobs, TreeKinds

\* Every version of the file is the same one.
LEMMA OneVersion ==
    ASSUME Sound(image'), os' = image', DiskExposed' => disk' = image'
    PROVE  FilesInv'
  BY SameTreeReflexive, Zenon DEF FilesInv

\* A session between commits, or one that was stopped.
LEMMA IdleJob ==
    ASSUME pc' = "idle", Reusable(image', free')
    PROVE  JobInv'
  BY Zenon DEF JobInv

LEMMA StoppedJob ==
    ASSUME pc' = "stopped"
    PROVE  JobInv'
  BY Zenon DEF JobInv

LEMMA RestingContent ==
    ASSUME pc' \in {"idle", "stopped"}, before' = allowed', Found(image') \in allowed',
           Found(os') \in allowed', DiskExposed' => Found(disk') \in allowed'
    PROVE  ContentInv'
  BY Zenon DEF ContentInv

\* A barrier: the versions agree.
LEMMA BarrierFacts ==
    ASSUME IInv, Barrier, UNCHANGED <<policy, image>>
    PROVE  /\ os' = image /\ os' \in Files /\ disk' \in Files /\ stale' \in BOOLEAN
           /\ DiskExposed' => disk' = image
           /\ FilesInv'
  <1>1. os' = image /\ (disk' = image \/ disk' = disk) /\ stale' \in BOOLEAN
    BY Zenon DEF Barrier
  <1>2. DiskExposed' => disk' = image
    BY Zenon DEF Barrier, DiskExposed
  <1>3. FilesInv'
    BY <1>1, <1>2, InvFacts, OneVersion, Zenon
  <1> QED BY <1>1, <1>2, <1>3, InvFacts, Zenon

(***************************************************************************)
(* Init and the actions.                                                   *)
(***************************************************************************)
LEMMA InitEstablishes == Init => IInv
  <1> SUFFICES ASSUME Init PROVE IInv
    BY Zenon
  <1>1. /\ image.sb = [root |-> 2, mgr |-> IF persist THEN 3 ELSE None, eof |-> IF persist THEN 4 ELSE 3]
        /\ image.blk = [a \in Addrs |-> CASE a = 1 -> DataBlock(0)
                                          [] a = 2 -> RootBlock(0, 1)
                                          [] a = 3 /\ persist -> Managers({})
                                          [] OTHER -> Absent]
        /\ image = [sb |-> image.sb, blk |-> image.blk]
    BY Zenon DEF Init
  <1>2. 1 \in Addrs /\ 2 \in Addrs /\ 3 \in Addrs /\ 0 \in Values
    BY Bounds, SMTT(30) DEF Addrs, Values
  <1>3. /\ RootBlock(0, 1) \in Blocks /\ RootBlock(0, 1).kind = "root" /\ RootBlock(0, 1).ref = 1
        /\ DataBlock(0) \in Blocks /\ DataBlock(0).kind = "data"
        /\ Managers({}) \in Blocks /\ Managers({}).kind = "managers" /\ Managers({}).free = {}
        /\ Absent \in Blocks
    <2>1. {} \in SUBSET Addrs
      BY Zenon
    <2> QED BY <2>1, <1>2, NewBlocks, SMTT(30)
  <1>4. image.blk[1] = DataBlock(0) /\ image.blk[2] = RootBlock(0, 1)
    BY <1>1, <1>2
  <1>5. persist => image.blk[3] = Managers({})
    BY <1>1, <1>2, SMTT(30)
  <1>6. image.blk \in [Addrs -> Blocks]
    BY <1>1, <1>3, SMTT(30)
  <1>7. /\ image.sb \in Supers /\ image.sb.root = 2
        /\ image.sb.mgr = (IF persist THEN 3 ELSE None) /\ image.sb.eof = (IF persist THEN 4 ELSE 3)
    BY <1>1, <1>2, SMTT(30) DEF Supers, Refs
  <1>8. image \in Files
    BY <1>1, <1>6, <1>7, Zenon DEF Files
  <1>9. DataOf(image) = 1
    BY <1>3, <1>4, <1>7, Zenon DEF DataOf
  <1>10. Recorded(image) = {}
    BY <1>3, <1>5, <1>7, Zenon DEF Recorded
  <1>11. Sound(image)
    <2>1. image.blk[1] # Absent /\ image.blk[2] # Absent /\ (persist => image.blk[3] # Absent)
      BY <1>3, <1>4, <1>5, KindsAreWritten, SMTT(30)
    <2>2. 1 \in Written(image) /\ 2 \in Written(image) /\ (persist => 3 \in Written(image))
      BY <2>1, <1>2, Zenon DEF Written
    <2>3. CASE persist
      <3>1. Referenced(image) = {1, 2, 3} /\ image.sb.eof = 4 /\ image.sb.mgr = 3 /\ 3 # None
        BY <2>3, <1>7, <1>9, SMTT(30) DEF Referenced, None
      <3>2. Needed(image) \subseteq {1, 2, 3}
        BY <3>1, <1>10, Bounds, SMTT(30) DEF Needed, WithPredecessors
      <3>3. Needed(image) \subseteq Written(image)
        BY <3>2, <2>2, <2>3, Zenon
      <3>4. \A a \in Referenced(image) \cup Recorded(image) : a < image.sb.eof
        BY <3>1, <1>10, SMTT(30)
      <3> QED BY <3>1, <3>3, <3>4, <2>3, <1>2, <1>3, <1>4, <1>5, <1>7, <1>9, <1>10, Zenon DEF Sound
    <2>4. CASE ~persist
      <3>1. Referenced(image) = {1, 2} /\ image.sb.eof = 3 /\ image.sb.mgr = None
        BY <2>4, <1>7, <1>9, SMTT(30) DEF Referenced, None
      <3>2. Needed(image) \subseteq {1, 2}
        BY <3>1, <1>10, Bounds, SMTT(30) DEF Needed, WithPredecessors
      <3>3. Needed(image) \subseteq Written(image)
        BY <3>2, <2>2, Zenon
      <3>4. \A a \in Referenced(image) \cup Recorded(image) : a < image.sb.eof
        BY <3>1, <1>10, SMTT(30)
      <3> QED BY <3>1, <3>3, <3>4, <1>2, <1>3, <1>4, <1>7, <1>9, <1>10, Zenon DEF Sound
    <2> QED BY <2>3, <2>4, Zenon
  <1>12. /\ policy \in {"Always", "OnClose"} /\ os = image /\ disk = image /\ pc = "idle"
         /\ job = [kind |-> "none"] /\ free = {} /\ saved = {} /\ undo = {} /\ count = 0 /\ stale = FALSE
         /\ allowed = {Found(image)} /\ before = {Found(image)}
    BY Zenon DEF Init
  <1>13. TypeOK
    <2>1. Found(image) \in Found0
      BY <1>8, <1>11, FoundType, Zenon
    <2>2. job \in Jobs /\ pc \in Steps
      BY <1>12, Zenon DEF Jobs, Steps
    <2> QED BY <2>1, <2>2, <1>2, <1>8, <1>12, Zenon DEF TypeOK
  <1>14. FilesInv
    <2>1. pc \notin {"stopped", "publish", "uncertain", "published", "truncated"}
      BY <1>12, Zenon
    <2> QED BY <2>1, <1>11, <1>12, SameTreeReflexive, Zenon DEF FilesInv
  <1>15. JobInv
    <2>1. Reusable(image, free)
      BY <1>12, Zenon DEF Reusable, WithPredecessors
    <2> QED BY <2>1, <1>12, Zenon DEF JobInv
  <1>16. ContentInv
    BY <1>12, Zenon DEF ContentInv
  <1> QED BY <1>13, <1>14, <1>15, <1>16, Zenon DEF IInv

LEMMA IdleFacts ==
    ASSUME IInv, pc = "idle"
    PROVE  /\ SameTree(os, image) /\ (DiskExposed => SameTree(disk, os))
           /\ Reusable(image, free) /\ before = allowed
  <1>1. ~InFlight
    BY Zenon DEF InFlight
  <1>2. SameTree(os, image) /\ (DiskExposed => SameTree(disk, os))
    BY <1>1, Zenon DEF IInv, FilesInv
  <1>3. Reusable(image, free)
    BY Zenon DEF IInv, JobInv
  <1>4. before = allowed
    BY Zenon DEF IInv, ContentInv
  <1> QED BY <1>2, <1>3, <1>4, Zenon

\* A new image with the tree of the old one: the commit has only placed blocks or written data.
LEMMA PlacedFiles ==
    ASSUME IInv, pc = "idle", pc' = "content", UNCHANGED <<policy, os, disk, stale>>,
           Sound(image'), SameTree(image', image)
    PROVE  FilesInv'
  <1>1. ~InFlight' /\ pc' \notin {"stopped", "publish", "uncertain", "published", "truncated"}
    BY Zenon DEF InFlight
  <1>2. DiskExposed' <=> DiskExposed
    BY Zenon DEF DiskExposed
  <1>3. SameTree(os, image')
    BY IdleFacts, SameTreeTransitive, SameTreeFacts, Zenon
  <1> QED BY <1>1, <1>2, <1>3, IdleFacts, InvFacts, Zenon DEF FilesInv

LEMMA ApplyTreeKeeps ==
    ASSUME IInv, NEW kind \in TreeKinds, ApplyTree(kind)
    PROVE  IInv'
  <1>1. /\ pc = "idle" /\ pc' = "content" /\ count < MaxCommits /\ count' = count + 1 /\ saved' = free
        /\ allowed' = before \cup {Target(kind)} \cup Partial(kind)
        /\ UNCHANGED <<policy, persist, os, disk, stale, before>>
    BY ApplyTreeChoice, Zenon DEF Starts
  <1>2. PICK s \in Spaces(kind) : \E cut : Applies(kind, s, cut)
    BY ApplyTreeChoice, Zenon
  <1>3. PICK cut : Applies(kind, s, cut)
    BY <1>2, Zenon
  <1>4. count + 1 \in Values
    BY <1>1, InvFacts, Bounds, SMTT(30) DEF Values
  <1>5. /\ image \in Files /\ Sound(image) /\ free \in SUBSET Addrs /\ Reusable(image, free)
        /\ before = allowed
    BY <1>1, InvFacts, IdleFacts, Zenon
  <1>6. /\ image' \in Files /\ NewData(kind) \in Addrs /\ NewRoot(kind) \in Addrs /\ NewManagers(s) \in Refs
        /\ cut \in Nat /\ NewKept(kind, s, cut) \in SUBSET Addrs
    BY <1>3, <1>4, <1>5, ApplyBlocks, Zenon
  <1>7. /\ Places(image', image, free, s, Taken3(kind, s)) /\ Staged' \in Files
        /\ Publishes(Staged', image', image, s, Taken3(kind, s), NewData(kind), NewRoot(kind),
                     NewManagers(s), cut)
    BY <1>3, <1>4, <1>5, ApplyPublishes, Zenon
  <1>8. /\ SameTree(image', image) /\ Sound(image') /\ Reusable(image', free)
    BY <1>5, <1>6, <1>7, OldTreeStays, Zenon
  <1>9. Sound(Staged') /\ Reusable(Staged', NewKept(kind, s, cut))
    <2> DEFINE dd == NewData(kind)
               rr == NewRoot(kind)
               mm == NewManagers(s)
               placed == Taken3(kind, s)
    <2>1. dd \in Addrs /\ rr \in Addrs /\ mm \in Refs /\ cut \in Nat
      BY <1>6, Zenon
    <2>2. Places(image', image, free, s, placed) /\ Publishes(Staged', image', image, s, placed, dd, rr, mm, cut)
      BY <1>7, Zenon
    <2>3. image' \in Files /\ Staged' \in Files
      BY <1>6, <1>7, Zenon
    <2> HIDE DEF dd, rr, mm, placed
    <2>4. Sound(Staged') /\ Reusable(Staged', {a \in Post(image, s, dd, rr) : a < cut})
      BY <2>1, <2>2, <2>3, <1>5, NewTreeIsSound, SMTT(20)
    <2> QED BY <2>4, Zenon DEF NewKept, NewPost, dd, rr
  <1>10. /\ job'.kind = kind /\ job'.target = Target(kind) /\ job'.post = NewKept(kind, s, cut)
         /\ job'.sb = [root |-> NewRoot(kind), mgr |-> NewManagers(s), eof |-> cut] /\ job'.sb.eof = cut
         /\ free' = s.free
         /\ undo' = IF kind = "over" THEN {<<NewData(kind), image.blk[NewData(kind)]>>} ELSE {}
    BY <1>3, Zenon DEF Applies
  <1>11. /\ Found(Staged') = Target(kind)
         /\ kind # "over" => Found(image') = Found(image)
         /\ kind = "over" => Found(image') = [Found(image) EXCEPT !.data = count + 1]
    BY <1>3, <1>4, <1>5, ApplyContents, Zenon
  <1>12. DataOf(image) \in Addrs /\ DataOf(image') = DataOf(image) /\ image.blk[DataOf(image)] \in Blocks
    BY <1>5, <1>8, SoundFacts, FileFacts, SameTreeFacts, Zenon
  <1>13. image.blk[DataOf(image)].kind = "data"
    BY <1>5, Zenon DEF Sound
  <1>14. /\ kind # "over" => undo' = {}
         /\ kind = "over" => undo' = {<<DataOf(image'), image.blk[DataOf(image)]>>}
    <2>1. "over" # "tree"
      BY Zenon
    <2> QED BY <2>1, <1>10, <1>12, Zenon DEF NewData
  <1>15. Found(Restored') = Found(image)
    <2>1. CASE kind # "over"
      BY <2>1, <1>6, <1>11, <1>14, NothingUndone, RestoredIsUndone, ZenonT(30)
    <2>2. CASE kind = "over"
      <3>1. PICK b \in Blocks : b = image.blk[DataOf(image)]
        BY <1>12, Zenon
      <3>2. Restored' \in Files /\ WritesData(Restored', image', b)
        BY <3>1, <2>2, <1>6, <1>12, <1>14, DataUndone, RestoredIsUndone, Zenon
      <3>3. b.kind = "data"
        BY <3>1, <1>13, Zenon
      <3>4. Found(Restored') = [Found(image') EXCEPT !.data = b.value]
        BY <3>2, <3>3, <1>6, <1>8, DataWritten, Zenon
      <3>5. Found(image') = [Found(image) EXCEPT !.data = count + 1]
        BY <2>2, <1>11, Zenon
      <3> QED BY <3>1, <3>4, <3>5, SMTT(30) DEF Found
    <2> QED BY <2>1, <2>2, Zenon
  <1>16. Target(kind) \in Found0
    BY <1>7, <1>9, <1>11, FoundType, Zenon
  <1>17. Partial(kind) \in SUBSET Found0
    <2>1. before \in SUBSET Found0
      BY InvFacts, Zenon
    <2> QED BY <2>1, <1>4, SMTT(30) DEF Partial, Found0
  <1>18. TypeOK'
    <2>1. job' = [kind |-> kind, target |-> Target(kind), post |-> NewKept(kind, s, cut),
                  sb |-> [root |-> NewRoot(kind), mgr |-> NewManagers(s), eof |-> cut]]
      BY <1>3, Zenon DEF Applies
    <2>2. [root |-> NewRoot(kind), mgr |-> NewManagers(s), eof |-> cut] \in Supers
      BY <1>6, Zenon DEF Supers
    <2>3. job' \in [kind : TreeKinds, target : Found0, post : SUBSET Addrs, sb : Supers]
      BY <2>1, <2>2, <1>6, <1>16, Zenon
    <2>4. job' \in Jobs
      BY <2>3, Zenon DEF Jobs
    <2>5. free' \in SUBSET Addrs
      BY <1>5, <1>7, <1>10, Zenon DEF Places, Placing
    <2>6. undo' \in SUBSET (Addrs \X Blocks)
      BY <1>12, <1>14, SMTT(30)
    <2>7. pc' \in Steps
      BY <1>1, Zenon DEF Steps
    <2>8. allowed' \in SUBSET Found0
      BY <1>1, <1>16, <1>17, InvFacts, Zenon
    <2> QED BY <2>4, <2>5, <2>6, <2>7, <2>8, <1>1, <1>4, <1>5, <1>6, Zenon DEF IInv, TypeOK
  <1>19. FilesInv'
    BY <1>1, <1>8, PlacedFiles, Zenon
  <1>20. JobInv'
    <2>1. Reusable(image', saved')
      BY <1>1, <1>8, Zenon
    <2>2. undo' = {} \/ \E b \in Blocks : b.kind = "data" /\ undo' = {<<DataOf(image'), b>>}
      BY <1>12, <1>13, <1>14, Zenon
    <2>3. job'.kind \in TreeKinds /\ job'.kind # "none" /\ job'.kind # "inplace"
      BY <1>10, Zenon DEF TreeKinds
    <2>4. Sound(Staged') /\ Reusable(Staged', job'.post) /\ \A a \in job'.post : a < job'.sb.eof
      BY <1>9, <1>10, Zenon DEF NewKept
    <2> QED BY <1>1, <2>1, <2>2, <2>3, <2>4, SMTT(20) DEF JobInv
  <1>21. ContentInv'
    <2>1. Found(image') \in allowed'
      <3>1. CASE kind # "over"
        BY <3>1, <1>1, <1>5, <1>11, InvFacts, Zenon
      <3>2. CASE kind = "over"
        <4>1. Found(image) \in before
          BY <1>5, InvFacts, Zenon
        <4>2. [Found(image) EXCEPT !.data = count + 1] \in Partial(kind)
          BY <4>1, <3>2, Zenon DEF Partial
        <4> QED BY <4>2, <3>2, <1>1, <1>11, Zenon
      <3> QED BY <3>1, <3>2, Zenon
    <2>2. DiskExposed' <=> DiskExposed
      BY <1>1, Zenon DEF DiskExposed
    <2>3. Found(os') \in before' /\ (DiskExposed' => Found(disk') \in before')
      BY <2>2, <1>1, <1>5, InvFacts, Zenon
    <2>4. before' \subseteq allowed' /\ job'.target \in allowed'
      BY <1>1, <1>10, Zenon
    <2>5. Found(Restored') \in before'
      BY <1>1, <1>5, <1>15, InvFacts, Zenon
    <2>6. Found(Staged') = job'.target
      BY <1>10, <1>11, Zenon
    <2>7. job'.kind # "inplace"
      BY <1>10, Zenon DEF TreeKinds
    <2> QED BY <1>1, <2>1, <2>3, <2>4, <2>5, <2>6, <2>7, SMTT(30) DEF ContentInv
  <1> QED BY <1>18, <1>19, <1>20, <1>21, Zenon DEF IInv

LEMMA ApplyInPlaceKeeps ==
    ASSUME IInv, ApplyInPlace
    PROVE  IInv'
  <1> DEFINE d == DataOf(image)
  <1>1. /\ pc = "idle" /\ pc' = "content" /\ count < MaxCommits /\ count' = count + 1 /\ saved' = free
        /\ allowed' = before \cup {Target("inplace")} \cup Partial("inplace")
        /\ image' = [image EXCEPT !.blk[d] = DataBlock(count + 1)]
        /\ undo' = {<<d, image.blk[d]>>}
        /\ job' = [kind |-> "inplace", target |-> Target("inplace")]
        /\ UNCHANGED <<policy, persist, os, disk, stale, before, free>>
    BY Zenon DEF ApplyInPlace, Starts
  <1>2. /\ image \in Files /\ Sound(image) /\ Reusable(image, free) /\ before = allowed /\ Found(image) \in before
    BY <1>1, InvFacts, IdleFacts, Zenon
  <1>3. count + 1 \in Values
    BY <1>1, InvFacts, Bounds, SMTT(30) DEF Values
  <1>4. d \in Addrs /\ image.blk[d] \in Blocks /\ image.blk[d].kind = "data"
    BY <1>2, SoundFacts, FileFacts, Zenon DEF Sound
  <1>5. PICK b \in Blocks : b = DataBlock(count + 1) /\ b.kind = "data" /\ b.value = count + 1
    BY <1>3, <1>4, NewBlocks, SMTT(30)
  <1>6. image' \in Files /\ WritesData(image', image, b)
    BY <1>1, <1>2, <1>4, <1>5, SMTT(30) DEF Files, WritesData
  <1>7. /\ SameTree(image', image) /\ Sound(image') /\ Reusable(image', free)
        /\ Found(image') = [Found(image) EXCEPT !.data = count + 1]
    <2>1. b.kind = "data"
      BY <1>5, Zenon
    <2>2. /\ SameTree(image', image) /\ Sound(image') /\ Reusable(image', free)
          /\ Found(image') = [Found(image) EXCEPT !.data = b.value]
      BY <2>1, <1>2, <1>6, DataWritten, Zenon
    <2> QED BY <2>2, <1>5, Zenon
  <1>8. Target("inplace") = [Found(image) EXCEPT !.data = count + 1]
    BY Zenon DEF Target
  <1>9. DataOf(image') = d
    BY <1>7, SameTreeFacts, Zenon
  <1>10. Found(Restored') = Found(image)
    <2>1. PICK c \in Blocks : c = image.blk[d]
      BY <1>4, Zenon
    <2>2. undo' = {<<DataOf(image'), c>>} /\ DataOf(image') \in Addrs
      BY <2>1, <1>1, <1>4, <1>9, Zenon
    <2>3. Restored' \in Files /\ WritesData(Restored', image', c)
      BY <2>2, <1>6, DataUndone, RestoredIsUndone, Zenon
    <2>4. c.kind = "data"
      BY <2>1, <1>4, Zenon
    <2>5. Found(Restored') = [Found(image') EXCEPT !.data = c.value]
      BY <2>3, <2>4, <1>6, <1>7, DataWritten, Zenon
    <2> QED BY <2>1, <2>5, <1>7, SMTT(30) DEF Found
  <1>11. Target("inplace") \in Found0 /\ Partial("inplace") \in SUBSET Found0
    <2>1. Found(image') \in Found0
      BY <1>6, <1>7, FoundType, Zenon
    <2>2. before \in SUBSET Found0
      BY InvFacts, Zenon
    <2>3. Partial("inplace") \in SUBSET Found0
      BY <2>2, <1>3, Zenon DEF Partial, Found0
    <2> QED BY <2>1, <2>3, <1>7, <1>8, Zenon
  <1>12. TypeOK'
    <2>1. job' \in Jobs /\ pc' \in Steps
      BY <1>1, <1>11, SMTT(30) DEF Jobs, Steps
    <2>2. undo' \in SUBSET (Addrs \X Blocks)
      BY <1>1, <1>4, SMTT(30)
    <2>3. free \in SUBSET Addrs /\ before \in SUBSET Found0
      BY InvFacts, Zenon
    <2>4. allowed' \in SUBSET Found0
      BY <2>3, <1>1, <1>11, Zenon
    <2> QED BY <2>1, <2>2, <2>3, <2>4, <1>1, <1>3, <1>6, Zenon DEF IInv, TypeOK
  <1>13. FilesInv'
    BY <1>1, <1>7, PlacedFiles, Zenon
  <1>14. JobInv'
    <2>1. Reusable(image', saved') /\ free' = saved'
      BY <1>1, <1>7, Zenon
    <2>2. \E c \in Blocks : c.kind = "data" /\ undo' = {<<DataOf(image'), c>>}
      BY <1>1, <1>4, <1>9, Zenon
    <2>3. job'.kind = "inplace" /\ job'.kind \notin TreeKinds
      BY <1>1, Zenon DEF TreeKinds
    <2> QED BY <1>1, <2>1, <2>2, <2>3, SMTT(30) DEF JobInv
  <1>15. ContentInv'
    <2>1. DiskExposed' <=> DiskExposed
      BY <1>1, Zenon DEF DiskExposed
    <2>2. Found(os') \in before' /\ (DiskExposed' => Found(disk') \in before')
      BY <2>1, <1>1, <1>2, InvFacts, Zenon
    <2>3. before' \subseteq allowed' /\ Found(Restored') \in before'
      BY <1>1, <1>2, <1>10, Zenon
    <2>4. job'.target = Target("inplace") /\ job'.kind \notin TreeKinds
      BY <1>1, Zenon DEF TreeKinds
    <2>5. job'.target \in allowed' /\ Found(image') = job'.target
      BY <2>4, <1>1, <1>7, <1>8, Zenon
    <2> QED BY <1>1, <2>2, <2>3, <2>4, <2>5, SMTT(30) DEF ContentInv
  <1> QED BY <1>12, <1>13, <1>14, <1>15, Zenon DEF IInv

\* Restoring keeps the tree, and finds what was there before the commit.
LEMMA RestoredFacts ==
    ASSUME IInv, pc \in {"content", "publish"}
    PROVE  /\ Restored \in Files /\ SameTree(Restored, image) /\ Sound(Restored)
           /\ Reusable(Restored, saved) /\ Found(Restored) \in before
           /\ SameTree(os, image) /\ (DiskExposed => SameTree(disk, os))
  <1>1. /\ Reusable(image, saved)
        /\ undo = {} \/ \E b \in Blocks : b.kind = "data" /\ undo = {<<DataOf(image), b>>}
    BY Zenon DEF IInv, JobInv
  <1>2. Found(Restored) \in before
    BY Zenon DEF IInv, ContentInv
  <1>3. ~InFlight
    BY Zenon DEF InFlight
  <1>4. SameTree(os, image) /\ (DiskExposed => SameTree(disk, os))
    BY <1>3, Zenon DEF IInv, FilesInv
  <1>5. CASE undo = {}
    <2>1. Restored = image
      BY <1>5, InvFacts, NothingUndone, RestoredIsUndone, Zenon
    <2> QED BY <2>1, <1>1, <1>2, <1>4, InvFacts, SameTreeReflexive, Zenon
  <1>6. CASE undo # {}
    <2>1. PICK b \in Blocks : b.kind = "data" /\ undo = {<<DataOf(image), b>>}
      BY <1>1, <1>6, Zenon
    <2>2. Restored \in Files /\ WritesData(Restored, image, b)
      BY <2>1, InvFacts, SoundFacts, DataUndone, RestoredIsUndone, Zenon
    <2>3. SameTree(Restored, image) /\ Sound(Restored) /\ Reusable(Restored, saved)
      BY <2>1, <2>2, <1>1, InvFacts, DataWritten, Zenon
    <2> QED BY <2>2, <2>3, <1>2, <1>4, Zenon
  <1> QED BY <1>5, <1>6, Zenon

LEMMA RollBackKeeps ==
    ASSUME IInv, RollBack
    PROVE  IInv'
  <1>1. /\ pc \in {"content", "publish"} /\ image' = Restored /\ free' = saved /\ undo' = {}
        /\ UNCHANGED <<policy, persist, os, disk, job, saved, count, stale, before>>
        /\ undo = {} => pc' = "idle" /\ allowed' = before
        /\ undo # {} => pc' = "undo" /\ allowed' = allowed
    BY Zenon DEF RollBack
  <1>2. /\ image' \in Files /\ SameTree(image', image) /\ Sound(image')
        /\ Reusable(image', free') /\ Found(image') \in before
        /\ SameTree(os, image) /\ (DiskExposed => SameTree(disk, os))
    BY <1>1, RestoredFacts, Zenon
  <1>3. DiskExposed' <=> DiskExposed
    BY <1>1, Zenon DEF DiskExposed
  <1>4. pc' \in {"idle", "undo"}
    BY <1>1, Zenon
  <1>5. TypeOK'
    <2>1. pc' \in Steps
      BY <1>4, Zenon DEF Steps
    <2>2. allowed' \in SUBSET Found0
      BY <1>1, InvFacts, Zenon
    <2>3. undo' \in SUBSET (Addrs \X Blocks)
      BY <1>1, Zenon
    <2> QED BY <2>1, <2>2, <2>3, <1>1, <1>2, InvFacts, Zenon DEF IInv, TypeOK
  <1>6. FilesInv'
    <2>1. ~InFlight' /\ pc' \notin {"stopped", "publish", "uncertain", "published", "truncated"}
      BY <1>4, Zenon DEF InFlight
    <2>2. SameTree(os, image')
      BY <1>2, SameTreeTransitive, SameTreeFacts, Zenon
    <2> QED BY <2>1, <2>2, <1>1, <1>2, <1>3, InvFacts, Zenon DEF FilesInv
  <1>7. JobInv'
    BY <1>2, <1>4, Zenon DEF JobInv
  <1>8. ContentInv'
    <2>1. CASE undo = {}
      <3>1. Found(os) \in before /\ (DiskExposed => Found(disk) \in before)
        BY <1>1, <2>1, Zenon DEF IInv, ContentInv
      <3>2. pc' = "idle" /\ allowed' = before /\ before' = before
        BY <1>1, <2>1, Zenon
      <3> QED BY <3>1, <3>2, <1>1, <1>2, <1>3, RestingContent, Zenon
    <2>2. CASE undo # {}
      <3>1. pc' = "undo" /\ allowed' = allowed /\ before' = before
        BY <1>1, <2>2, Zenon
      <3>2. Found(image') \in allowed' /\ Found(os') \in allowed' /\ (DiskExposed' => Found(disk') \in allowed')
        BY <3>1, <1>1, <1>2, <1>3, InvFacts, Zenon
      <3>3. before' \subseteq allowed' /\ Found(image') \in before'
        BY <3>1, <1>2, InvFacts, Zenon
      <3> QED BY <3>1, <3>2, <3>3, Zenon DEF ContentInv
    <2> QED BY <2>1, <2>2, Zenon
  <1> QED BY <1>5, <1>6, <1>7, <1>8, Zenon DEF IInv

LEMMA UndoFacts ==
    ASSUME IInv, pc = "undo"
    PROVE  /\ SameTree(os, image) /\ (DiskExposed => SameTree(disk, os))
           /\ Reusable(image, free) /\ Found(image) \in before
  <1>1. ~InFlight
    BY Zenon DEF InFlight
  <1>2. SameTree(os, image) /\ (DiskExposed => SameTree(disk, os))
    BY <1>1, Zenon DEF IInv, FilesInv
  <1>3. Reusable(image, free) /\ Found(image) \in before
    BY Zenon DEF IInv, JobInv, ContentInv
  <1> QED BY <1>2, <1>3, Zenon

LEMMA UndoBarrierKeeps ==
    ASSUME IInv, UndoBarrier
    PROVE  IInv'
  <1>1. /\ pc = "undo" /\ Barrier /\ pc' = "idle" /\ allowed' = before
        /\ UNCHANGED <<policy, persist, image, job, free, saved, undo, count, before>>
    BY Zenon DEF UndoBarrier
  <1>2. /\ os' = image /\ os' \in Files /\ disk' \in Files /\ stale' \in BOOLEAN
        /\ (DiskExposed' => disk' = image) /\ FilesInv'
    BY <1>1, BarrierFacts, Zenon
  <1>3. Reusable(image', free') /\ Found(image') \in before
    BY <1>1, UndoFacts, Zenon
  <1>4. TypeOK'
    <2>1. pc' \in Steps
      BY <1>1, Zenon DEF Steps
    <2> QED BY <2>1, <1>1, <1>2, InvFacts, Zenon DEF IInv, TypeOK
  <1>5. JobInv'
    BY <1>1, <1>3, IdleJob, Zenon
  <1>6. ContentInv'
    BY <1>1, <1>2, <1>3, RestingContent, Zenon
  <1> QED BY <1>2, <1>4, <1>5, <1>6, Zenon DEF IInv

LEMMA UndoFailsKeeps ==
    ASSUME IInv, UndoFails
    PROVE  IInv'
  <1>1. /\ pc = "undo" /\ pc' = "idle" /\ before' = allowed
        /\ UNCHANGED <<policy, persist, image, os, disk, job, free, saved, undo, count, stale, allowed>>
    BY Zenon DEF UndoFails
  <1>2. DiskExposed' <=> DiskExposed
    BY <1>1, Zenon DEF DiskExposed
  <1>3. TypeOK'
    <2>1. pc' \in Steps
      BY <1>1, Zenon DEF Steps
    <2> QED BY <2>1, <1>1, InvFacts, Zenon DEF IInv, TypeOK
  <1>4. FilesInv'
    <2>1. pc' \notin {"stopped", "publish", "uncertain", "published", "truncated"}
      BY <1>1, Zenon
    <2> QED BY <2>1, <1>1, <1>2, UndoFacts, InvFacts, Zenon DEF FilesInv
  <1>5. JobInv'
    BY <1>1, UndoFacts, IdleJob, Zenon
  <1>6. ContentInv'
    BY <1>1, <1>2, InvFacts, RestingContent, Zenon
  <1> QED BY <1>3, <1>4, <1>5, <1>6, Zenon DEF IInv

LEMMA SameRecord ==
    ASSUME NEW f \in Files, NEW g \in Files, f.sb = g.sb, f.blk = g.blk
    PROVE  f = g
  BY SMTT(30) DEF Files

Committing == {"content", "publish", "uncertain", "published", "truncated"}

\* What a commit with tree edits is about to publish, or has published.
LEMMA CommitFacts ==
    ASSUME IInv, pc \in Committing, job.kind \in TreeKinds
    PROVE  /\ Staged \in Files /\ Staged.sb = job.sb /\ Staged.blk = image.blk
           /\ Sound(Staged) /\ Reusable(Staged, job.post)
           /\ job.post \in SUBSET Addrs /\ \A a \in job.post : a < job.sb.eof
           /\ job.target \in allowed /\ job.target \in Found0 /\ Found(Staged) = job.target
  <1>1. Sound(Staged) /\ Reusable(Staged, job.post) /\ \A a \in job.post : a < job.sb.eof
    BY Zenon DEF IInv, JobInv, Committing
  <1>2. job.target \in allowed /\ Found(Staged) = job.target
    BY Zenon DEF IInv, ContentInv, Committing
  <1>3. job.post \in SUBSET Addrs /\ job.sb \in Supers
    BY InvFacts, JobFacts, Zenon
  <1>4. Staged \in Files /\ Staged.sb = job.sb /\ Staged.blk = image.blk
    BY <1>3, InvFacts, Zenon DEF Staged, Files
  <1> QED BY <1>1, <1>2, <1>3, <1>4, InvFacts, ZenonT(30)

\* After the superblock is written, the image is what was staged.
LEMMA PublishedFacts ==
    ASSUME IInv, pc \in {"uncertain", "published", "truncated"}
    PROVE  /\ job.kind \in TreeKinds /\ image.sb = job.sb /\ Staged = image
           /\ Reusable(image, job.post) /\ job.post \in SUBSET Addrs /\ \A a \in job.post : a < image.sb.eof
           /\ job.target \in allowed /\ job.target \in Found0 /\ Found(image) = job.target
           /\ pc # "uncertain" => os = image /\ free = job.post /\ (DiskExposed => SameTree(disk, os))
           /\ pc # "truncated" => os.blk = image.blk /\ (DiskExposed => disk.blk = os.blk)
  <1>1. job.kind \in TreeKinds /\ image.sb = job.sb /\ (pc # "uncertain" => free = job.post)
    BY Zenon DEF IInv, JobInv
  <1>2. pc \in Committing
    BY Zenon DEF Committing
  <1>3. Staged = image
    BY <1>1, <1>2, CommitFacts, InvFacts, SameRecord, Zenon
  <1>4. /\ Reusable(image, job.post) /\ job.post \in SUBSET Addrs /\ \A a \in job.post : a < image.sb.eof
        /\ job.target \in allowed /\ job.target \in Found0 /\ Found(image) = job.target
    BY <1>1, <1>2, <1>3, CommitFacts, Zenon
  <1>5. pc # "truncated" => os.blk = image.blk /\ (DiskExposed => disk.blk = os.blk)
    BY Zenon DEF IInv, FilesInv
  <1>6. ASSUME pc # "uncertain" PROVE os = image /\ (DiskExposed => SameTree(disk, os))
    <2>1. ~InFlight
      BY <1>6, Zenon DEF InFlight
    <2>2. SameTree(os, image) /\ (DiskExposed => SameTree(disk, os))
      BY <2>1, Zenon DEF IInv, FilesInv
    <2>3. CASE pc = "truncated"
      BY <2>2, <2>3, Zenon DEF IInv, FilesInv
    <2>4. CASE pc # "truncated"
      BY <2>2, <2>4, <1>5, InvFacts, SameRecord, Zenon DEF SameTree
    <2> QED BY <2>2, <2>3, <2>4, Zenon
  <1> QED BY <1>1, <1>3, <1>4, <1>5, <1>6, Zenon

\* The commit has succeeded with all the versions in agreement.
LEMMA SucceedsKeeps ==
    ASSUME IInv, Succeeds, UNCHANGED <<policy, image, job, free, saved, count>>,
           os' \in Files, disk' \in Files, stale' \in BOOLEAN, FilesInv',
           os' = image, DiskExposed' => disk' = image,
           Found(image) = job.target, job.target \in Found0, Reusable(image, free)
    PROVE  IInv'
  <1>1. pc' = "idle" /\ undo' = {} /\ allowed' = {job.target} /\ before' = {job.target}
    BY Zenon DEF Succeeds
  <1>2. TypeOK'
    <2>1. pc' \in Steps /\ undo' \in SUBSET (Addrs \X Blocks)
      BY <1>1, Zenon DEF Steps
    <2>2. allowed' \in SUBSET Found0 /\ before' \in SUBSET Found0
      BY <1>1, Zenon
    <2> QED BY <2>1, <2>2, InvFacts, Zenon DEF IInv, TypeOK
  <1>3. JobInv'
    BY <1>1, IdleJob, Zenon
  <1>4. ContentInv'
    <2>1. /\ Found(image') \in allowed' /\ Found(os') \in allowed' /\ before' = allowed'
          /\ DiskExposed' => Found(disk') \in allowed'
      BY <1>1, Zenon
    <2> QED BY <2>1, <1>1, RestingContent, Zenon
  <1> QED BY <1>2, <1>3, <1>4, Zenon DEF IInv

LEMMA ContentBarrierKeeps ==
    ASSUME IInv, ContentBarrier
    PROVE  IInv'
  <1>1. /\ pc = "content" /\ Barrier
        /\ job.kind = "inplace" => Succeeds
        /\ job.kind # "inplace" => pc' = "publish" /\ UNCHANGED <<undo, allowed, before>>
        /\ UNCHANGED <<policy, persist, image, job, free, saved, count>>
    BY Zenon DEF ContentBarrier
  <1>2. /\ os' = image /\ os' \in Files /\ disk' \in Files /\ stale' \in BOOLEAN
        /\ (DiskExposed' => disk' = image) /\ FilesInv'
    BY <1>1, BarrierFacts, Zenon
  <1>3. CASE job.kind = "inplace"
    <2>1. free = saved /\ Reusable(image, saved)
      BY <1>1, <1>3, Zenon DEF IInv, JobInv
    <2>2. Found(image) = job.target
      BY <1>1, <1>3, Zenon DEF IInv, ContentInv
    <2>3. job.target \in Found0
      BY <2>2, InvFacts, FoundType, Zenon
    <2> QED BY <2>1, <2>2, <2>3, <1>1, <1>2, <1>3, SucceedsKeeps, Zenon
  <1>4. CASE job.kind # "inplace"
    <2>1. pc' = "publish" /\ UNCHANGED <<undo, allowed, before>>
      BY <1>1, <1>4, Zenon
    <2>2. job.kind \in TreeKinds
      <3>1. job.kind # "none"
        BY <1>1, Zenon DEF IInv, JobInv
      <3>2. job \in Jobs
        BY InvFacts, Zenon
      <3> QED BY <3>1, <3>2, <1>4, Zenon DEF Jobs
    <2>3. /\ Reusable(image, saved)
          /\ undo = {} \/ \E b \in Blocks : b.kind = "data" /\ undo = {<<DataOf(image), b>>}
      BY <1>1, Zenon DEF IInv, JobInv
    <2>4. pc \in Committing
      BY <1>1, Zenon DEF Committing
    <2>5. Staged' = Staged /\ Restored' = Restored
      BY <1>1, <2>1, Zenon DEF Staged, Restored
    <2>6. TypeOK'
      <3>1. pc' \in Steps
        BY <2>1, Zenon DEF Steps
      <3> QED BY <3>1, <2>1, <1>1, <1>2, InvFacts, Zenon DEF IInv, TypeOK
    <2>7. JobInv'
      <3>1. /\ Reusable(image', saved')
            /\ undo' = {} \/ \E b \in Blocks : b.kind = "data" /\ undo' = {<<DataOf(image'), b>>}
            /\ Sound(Staged') /\ Reusable(Staged', job'.post) /\ \A a \in job'.post : a < job'.sb.eof
            /\ job'.kind \in TreeKinds
        BY <1>1, <2>1, <2>2, <2>3, <2>4, <2>5, CommitFacts, Zenon
      <3> QED BY <2>1, <3>1, Zenon DEF JobInv
    <2>8. ContentInv'
      <3>1. Found(Restored) \in before
        BY <1>1, RestoredFacts, Zenon
      <3>2. undo = {} => Found(image) \in before
        BY <3>1, InvFacts, NothingUndone, RestoredIsUndone, Zenon
      <3>3. /\ before' \subseteq allowed' /\ Found(image') \in allowed' /\ Found(os') \in allowed'
            /\ DiskExposed' => Found(disk') \in allowed'
        BY <1>1, <1>2, <2>1, InvFacts, Zenon
      <3>4. /\ Found(Restored') \in before'
            /\ undo' = {} => Found(os') \in before' /\ (DiskExposed' => Found(disk') \in before')
        BY <3>1, <3>2, <1>2, <2>1, <2>5, Zenon
      <3>5. job'.target \in allowed' /\ Found(Staged') = job'.target /\ job'.kind # "inplace"
        BY <1>1, <1>4, <2>1, <2>2, <2>4, <2>5, CommitFacts, Zenon
      <3> QED BY <2>1, <3>3, <3>4, <3>5, Zenon DEF ContentInv
    <2> QED BY <1>2, <2>6, <2>7, <2>8, Zenon DEF IInv
  <1> QED BY <1>3, <1>4, Zenon

LEMMA WriteSuperblockKeeps ==
    ASSUME IInv, WriteSuperblock
    PROVE  IInv'
  <1>1. /\ pc = "publish" /\ image' = Staged /\ pc' = "uncertain"
        /\ UNCHANGED <<policy, persist, os, disk, job, free, saved, undo, count, stale, allowed, before>>
    BY Zenon DEF WriteSuperblock, Staged
  <1>2. job.kind \in TreeKinds /\ pc \in Committing
    BY <1>1, Zenon DEF IInv, JobInv, Committing
  <1>3. /\ Staged \in Files /\ Staged.sb = job.sb /\ Staged.blk = image.blk
        /\ Sound(Staged) /\ Reusable(Staged, job.post) /\ (\A a \in job.post : a < job.sb.eof)
        /\ job.target \in allowed /\ Found(Staged) = job.target /\ job.sb \in Supers
    BY <1>2, CommitFacts, InvFacts, JobFacts, Zenon
  <1>4. Staged' = Staged
    <2>1. Staged' = [Staged EXCEPT !.sb = job.sb]
      BY <1>1, Zenon DEF Staged
    <2> QED BY <2>1, <1>3, Zenon DEF Files
  <1>5. DiskExposed' <=> DiskExposed
    BY <1>1, Zenon DEF DiskExposed
  <1>6. os.blk = image.blk /\ (DiskExposed => disk.blk = image.blk)
    BY <1>1, Zenon DEF IInv, FilesInv
  <1>7. TypeOK'
    <2>1. pc' \in Steps
      BY <1>1, Zenon DEF Steps
    <2> QED BY <2>1, <1>1, <1>3, InvFacts, Zenon DEF IInv, TypeOK
  <1>8. FilesInv'
    <2>1. InFlight' /\ pc' # "stopped" /\ pc' # "truncated"
      BY <1>1, Zenon DEF InFlight
    <2> QED BY <2>1, <1>1, <1>3, <1>5, <1>6, InvFacts, Zenon DEF FilesInv
  <1>9. JobInv'
    <2>1. /\ image'.sb = job'.sb /\ job'.kind \in TreeKinds
          /\ Sound(Staged') /\ Reusable(Staged', job'.post) /\ \A a \in job'.post : a < job'.sb.eof
      BY <1>1, <1>2, <1>3, <1>4, Zenon
    <2> QED BY <1>1, <2>1, Zenon DEF JobInv
  <1>10. ContentInv'
    <2>1. /\ before' \subseteq allowed' /\ Found(image') \in allowed' /\ Found(os') \in allowed'
          /\ DiskExposed' => Found(disk') \in allowed'
      BY <1>1, <1>3, <1>5, InvFacts, Zenon
    <2>2. job'.target \in allowed' /\ Found(Staged') = job'.target /\ Found(image') = job'.target
      BY <1>1, <1>3, <1>4, Zenon
    <2> QED BY <1>1, <2>1, <2>2, Zenon DEF ContentInv
  <1> QED BY <1>7, <1>8, <1>9, <1>10, Zenon DEF IInv

LEMMA PublishBarrierKeeps ==
    ASSUME IInv, PublishBarrier
    PROVE  IInv'
  <1>1. /\ pc = "uncertain" /\ Barrier /\ pc' = "published" /\ free' = job.post
        /\ UNCHANGED <<policy, persist, image, job, saved, undo, count, allowed, before>>
    BY Zenon DEF PublishBarrier
  <1>2. /\ os' = image /\ os' \in Files /\ disk' \in Files /\ stale' \in BOOLEAN
        /\ (DiskExposed' => disk' = image) /\ FilesInv'
    BY <1>1, BarrierFacts, Zenon
  <1>3. /\ job.kind \in TreeKinds /\ image.sb = job.sb /\ Staged = image
        /\ Reusable(image, job.post) /\ job.post \in SUBSET Addrs /\ (\A a \in job.post : a < image.sb.eof)
        /\ job.target \in allowed /\ Found(image) = job.target
    BY <1>1, PublishedFacts, Zenon
  <1>4. Staged' = Staged
    BY <1>1, Zenon DEF Staged
  <1>5. TypeOK'
    <2>1. pc' \in Steps
      BY <1>1, Zenon DEF Steps
    <2> QED BY <2>1, <1>1, <1>2, <1>3, InvFacts, Zenon DEF IInv, TypeOK
  <1>6. JobInv'
    <2>1. /\ image'.sb = job'.sb /\ job'.kind \in TreeKinds /\ free' = job'.post
          /\ Sound(Staged') /\ Reusable(Staged', job'.post) /\ \A a \in job'.post : a < job'.sb.eof
      BY <1>1, <1>3, <1>4, InvFacts, Zenon
    <2> QED BY <1>1, <2>1, Zenon DEF JobInv
  <1>7. ContentInv'
    <2>1. /\ before' \subseteq allowed' /\ Found(image') \in allowed' /\ Found(os') \in allowed'
          /\ DiskExposed' => Found(disk') \in allowed'
      BY <1>1, <1>2, InvFacts, Zenon
    <2>2. job'.target \in allowed' /\ Found(Staged') = job'.target /\ Found(image') = job'.target
      BY <1>1, <1>3, <1>4, Zenon
    <2> QED BY <1>1, <2>1, <2>2, Zenon DEF ContentInv
  <1> QED BY <1>2, <1>5, <1>6, <1>7, Zenon DEF IInv

LEMMA TruncateKeeps ==
    ASSUME IInv, Truncate
    PROVE  IInv'
  <1>1. /\ pc = "published" /\ image' = Cut(image, job.sb.eof) /\ os' = Cut(os, job.sb.eof) /\ pc' = "truncated"
        /\ UNCHANGED <<policy, persist, disk, job, free, saved, undo, count, stale, allowed, before>>
    BY Zenon DEF Truncate
  <1>2. /\ job.kind \in TreeKinds /\ image.sb = job.sb
        /\ Reusable(image, job.post) /\ job.post \in SUBSET Addrs /\ (\A a \in job.post : a < image.sb.eof)
        /\ job.target \in allowed /\ Found(image) = job.target
        /\ os = image /\ free = job.post /\ (DiskExposed => SameTree(disk, os))
    BY <1>1, PublishedFacts, Zenon
  <1>3. image' = Cut(image, image.sb.eof) /\ os' = image'
    BY <1>1, <1>2, Zenon
  <1>4. /\ image' \in Files /\ SameTree(image', image) /\ Sound(image') /\ Found(image') = Found(image)
        /\ Reusable(image', job.post)
    BY <1>2, <1>3, InvFacts, CutKeeps, Zenon
  <1>5. image'.sb = job'.sb
    BY <1>1, <1>2, <1>4, Zenon DEF SameTree
  <1>6. Staged' = image'
    <2>1. Staged' = [image' EXCEPT !.sb = image'.sb]
      BY <1>5, Zenon DEF Staged
    <2> QED BY <2>1, <1>4, Zenon DEF Files
  <1>7. DiskExposed' <=> DiskExposed
    BY <1>1, Zenon DEF DiskExposed
  <1>8. TypeOK'
    <2>1. pc' \in Steps
      BY <1>1, Zenon DEF Steps
    <2> QED BY <2>1, <1>1, <1>3, <1>4, InvFacts, Zenon DEF IInv, TypeOK
  <1>9. FilesInv'
    <2>1. pc' \notin {"stopped", "publish", "uncertain", "published"}
      BY <1>1, Zenon
    <2>2. DiskExposed => SameTree(disk, os')
      BY <1>2, <1>3, <1>4, SameTreeTransitive, SameTreeFacts, ZenonT(30)
    <2> QED BY <2>1, <2>2, <1>1, <1>3, <1>4, <1>7, InvFacts, SameTreeReflexive, Zenon DEF FilesInv
  <1>10. JobInv'
    <2>1. /\ image'.sb = job'.sb /\ job'.kind \in TreeKinds /\ free' = job'.post
          /\ Sound(Staged') /\ Reusable(Staged', job'.post) /\ \A a \in job'.post : a < job'.sb.eof
      BY <1>1, <1>2, <1>4, <1>5, <1>6, Zenon
    <2> QED BY <1>1, <2>1, Zenon DEF JobInv
  <1>11. ContentInv'
    <2>1. /\ before' \subseteq allowed' /\ Found(image') \in allowed' /\ Found(os') \in allowed'
          /\ DiskExposed' => Found(disk') \in allowed'
      BY <1>1, <1>3, <1>4, <1>7, InvFacts, Zenon
    <2>2. job'.target \in allowed' /\ Found(Staged') = job'.target /\ Found(image') = job'.target
      BY <1>1, <1>2, <1>4, <1>6, Zenon
    <2> QED BY <1>1, <2>1, <2>2, Zenon DEF ContentInv
  <1> QED BY <1>8, <1>9, <1>10, <1>11, Zenon DEF IInv

LEMMA TruncateBarrierKeeps ==
    ASSUME IInv, TruncateBarrier
    PROVE  IInv'
  <1>1. /\ pc = "truncated" /\ Barrier /\ Succeeds
        /\ UNCHANGED <<policy, persist, image, job, free, saved, count>>
    BY Zenon DEF TruncateBarrier
  <1>2. /\ os' = image /\ os' \in Files /\ disk' \in Files /\ stale' \in BOOLEAN
        /\ (DiskExposed' => disk' = image) /\ FilesInv'
    BY <1>1, BarrierFacts, Zenon
  <1>3. Reusable(image, free) /\ job.target \in Found0 /\ Found(image) = job.target
    BY <1>1, PublishedFacts, Zenon
  <1> QED BY <1>1, <1>2, <1>3, SucceedsKeeps, Zenon

LEMMA NothingToTruncateKeeps ==
    ASSUME IInv, NothingToTruncate
    PROVE  IInv'
  <1>1. /\ pc = "published" /\ Succeeds /\ pc' = "idle"
        /\ UNCHANGED <<policy, persist, image, os, disk, job, free, saved, count, stale>>
    BY Zenon DEF NothingToTruncate, Succeeds
  <1>2. /\ Reusable(image, free) /\ job.target \in Found0 /\ Found(image) = job.target
        /\ os = image /\ (DiskExposed => SameTree(disk, os) /\ disk.blk = os.blk)
    BY <1>1, PublishedFacts, Zenon
  <1>3. DiskExposed' <=> DiskExposed
    BY <1>1, Zenon DEF DiskExposed
  <1>4. DiskExposed' => disk' = image
    <2>1. DiskExposed => disk = os
      BY <1>2, InvFacts, SameRecord, Zenon DEF SameTree
    <2> QED BY <2>1, <1>1, <1>2, <1>3, Zenon
  <1>5. stale' \in BOOLEAN
    BY <1>1, Zenon DEF IInv, TypeOK
  <1>6. FilesInv'
    BY <1>1, <1>2, <1>4, InvFacts, OneVersion, Zenon
  <1> QED BY <1>1, <1>2, <1>4, <1>5, <1>6, InvFacts, SucceedsKeeps, Zenon

\* The session stops: the queued writes are dropped.
LEMMA StopKeeps ==
    ASSUME IInv, image' = os, pc' = "stopped", before' = allowed,
           undo' \in {undo, {}},
           UNCHANGED <<policy, os, disk, job, free, saved, count, stale, allowed>>,
           DiskExposed => SameTree(disk, os) \/ disk.blk = os.blk
    PROVE  IInv'
  <1>1. DiskExposed' <=> DiskExposed
    BY Zenon DEF DiskExposed
  <1>2. TypeOK'
    <2>1. pc' \in Steps
      BY Zenon DEF Steps
    <2>2. undo' \in SUBSET (Addrs \X Blocks)
      BY InvFacts, Zenon
    <2> QED BY <2>1, <2>2, InvFacts, Zenon DEF IInv, TypeOK
  <1>3. FilesInv'
    <2>1. InFlight' /\ pc' \notin {"publish", "uncertain", "published", "truncated"}
      BY Zenon DEF InFlight
    <2> QED BY <2>1, <1>1, InvFacts, Zenon DEF FilesInv
  <1>4. JobInv'
    BY StoppedJob, Zenon
  <1>5. ContentInv'
    BY <1>1, InvFacts, RestingContent, Zenon
  <1> QED BY <1>2, <1>3, <1>4, <1>5, Zenon DEF IInv

LEMMA PublicationFailsKeeps ==
    ASSUME IInv, PublicationFails
    PROVE  IInv'
  <1>1. /\ pc \in {"uncertain", "published", "truncated"} /\ image' = os /\ pc' = "stopped" /\ undo' = {}
        /\ before' = allowed
        /\ UNCHANGED <<policy, persist, os, disk, job, free, saved, count, stale, allowed>>
    BY Zenon DEF PublicationFails
  <1>2. DiskExposed => SameTree(disk, os) \/ disk.blk = os.blk
    BY <1>1, PublishedFacts, Zenon
  <1> QED BY <1>1, <1>2, StopKeeps, Zenon

LEMMA ForceSyncFailsKeeps ==
    ASSUME IInv, ForceSyncFails
    PROVE  IInv'
  <1>1. /\ pc = "idle" /\ image' = os /\ pc' = "stopped" /\ before' = allowed
        /\ UNCHANGED <<policy, persist, os, disk, job, free, saved, undo, count, stale, allowed>>
    BY Zenon DEF ForceSyncFails
  <1>2. DiskExposed => SameTree(disk, os)
    BY <1>1, IdleFacts, Zenon
  <1> QED BY <1>1, <1>2, StopKeeps, Zenon

LEMMA ForceSyncKeeps ==
    ASSUME IInv, ForceSync
    PROVE  IInv'
  <1>1. /\ pc = "idle" /\ os' = image /\ disk' = image /\ stale' = FALSE
        /\ allowed' = {Found(image)} /\ before' = {Found(image)}
        /\ UNCHANGED <<policy, persist, image, pc, job, free, saved, undo, count>>
    BY Zenon DEF ForceSync
  <1>2. TypeOK'
    <2>1. Found(image) \in Found0
      BY InvFacts, Zenon
    <2>2. allowed' \in SUBSET Found0 /\ before' \in SUBSET Found0 /\ stale' \in BOOLEAN
      BY <2>1, <1>1, Zenon
    <2> QED BY <2>2, <1>1, InvFacts, Zenon DEF IInv, TypeOK
  <1>3. FilesInv'
    BY <1>1, InvFacts, OneVersion, Zenon
  <1>4. JobInv'
    BY <1>1, IdleFacts, IdleJob, Zenon
  <1>5. ContentInv'
    <2>1. /\ pc' = "idle" /\ before' = allowed' /\ Found(image') \in allowed' /\ Found(os') \in allowed'
          /\ Found(disk') \in allowed'
      BY <1>1, Zenon
    <2> QED BY <2>1, RestingContent, Zenon
  <1> QED BY <1>2, <1>3, <1>4, <1>5, Zenon DEF IInv

(***************************************************************************)
(* The environment.  Writes that reach the os or the disk leave the        *)
(* session alone.                                                          *)
(***************************************************************************)
session == <<policy, persist, image, pc, job, free, saved, undo, count, stale, allowed, before>>

\* Without tree edits in flight, restoring is to find what the image holds already.
LEMMA NoJournal ==
    ASSUME IInv, pc \in {"content", "publish"}, undo = {}
    PROVE  Found(image) \in before /\ Found(os) \in before /\ (DiskExposed => Found(disk) \in before)
  <1>1. Found(image) \in before
    BY RestoredFacts, InvFacts, NothingUndone, RestoredIsUndone, Zenon
  <1>2. Found(os) \in before /\ (DiskExposed => Found(disk) \in before)
    BY Zenon DEF IInv, ContentInv
  <1> QED BY <1>1, <1>2, Zenon

LEMMA EnvironmentKeeps ==
    ASSUME IInv, UNCHANGED session, os' \in Files, disk' \in Files, FilesInv',
           Found(os') = Found(os) \/ Found(os') = Found(image),
           DiskExposed => Found(disk') = Found(disk) \/ Found(disk') = Found(os)
    PROVE  IInv'
  <1>1. DiskExposed' <=> DiskExposed
    BY Zenon DEF DiskExposed, session
  <1>2. Staged' = Staged /\ Restored' = Restored
    BY Zenon DEF Staged, Restored, session
  <1>3. TypeOK'
    BY Zenon DEF IInv, TypeOK, session
  <1>4. JobInv'
    BY <1>2, Zenon DEF IInv, JobInv, session
  <1>5. ContentInv'
    <2>1. Found(os') \in allowed /\ (DiskExposed' => Found(disk') \in allowed)
      BY <1>1, InvFacts, Zenon
    <2>2. pc \in {"content", "publish"} /\ undo = {} =>
             Found(os') \in before /\ (DiskExposed' => Found(disk') \in before)
      BY <1>1, NoJournal, Zenon
    <2> QED BY <1>2, <2>1, <2>2, Zenon DEF IInv, ContentInv, session
  <1> QED BY <1>3, <1>4, <1>5, Zenon DEF IInv

\* While os and image differ in a block, they have one tree, and no superblock is in flight.
LEMMA BlocksInFlight ==
    ASSUME IInv, os.blk # image.blk
    PROVE  pc \in {"idle", "content", "undo"} /\ SameTree(os, image) /\ (DiskExposed => SameTree(disk, os))
  <1>1. pc \notin {"publish", "uncertain", "published", "truncated", "stopped"}
    BY Zenon DEF IInv, FilesInv
  <1>2. pc \in {"idle", "content", "undo"}
    BY <1>1, InvFacts, Zenon DEF Steps
  <1>3. ~InFlight
    BY <1>1, Zenon DEF InFlight
  <1> QED BY <1>2, <1>3, Zenon DEF IInv, FilesInv

LEMMA IssueBlockKeeps ==
    ASSUME IInv, NEW a \in Addrs, IssueBlock(a)
    PROVE  IInv'
  <1>1. /\ os.blk # image.blk /\ os' = [os EXCEPT !.blk[a] = image.blk[a]] /\ disk' = disk
        /\ UNCHANGED session
    BY Zenon DEF IssueBlock, session
  <1>2. pc \in {"idle", "content", "undo"} /\ SameTree(os, image) /\ (DiskExposed => SameTree(disk, os))
    BY <1>1, BlocksInFlight, Zenon
  <1>3. os' \in Files /\ Receives(os', os, image, a)
    <2>1. image.blk[a] \in Blocks
      BY InvFacts, FileFacts, Zenon
    <2> QED BY <2>1, <1>1, InvFacts, Zenon DEF Files, Receives
  <1>4. /\ Sound(os') /\ SameTree(os', os) /\ SameTree(os', image)
        /\ Found(os') = Found(os) \/ Found(os') = Found(image)
    <2>1. os \in Files /\ image \in Files /\ Sound(os) /\ Sound(image)
      BY InvFacts, Zenon
    <2> QED BY <2>1, <1>2, <1>3, BlockArrives, SMTT(30)
  <1>5. DiskExposed => SameTree(disk, os')
    BY <1>2, <1>4, SameTreeTransitive, SameTreeFacts, Zenon
  <1>6. FilesInv'
    <2>1. pc' \notin {"publish", "uncertain", "published", "truncated", "stopped"}
      BY <1>1, <1>2, Zenon DEF session
    <2>2. DiskExposed' <=> DiskExposed
      BY <1>1, Zenon DEF DiskExposed, session
    <2>3. image' = image
      BY <1>1, Zenon DEF session
    <2> QED BY <2>1, <2>2, <2>3, <1>1, <1>4, <1>5, InvFacts, Zenon DEF FilesInv
  <1> QED BY <1>1, <1>3, <1>4, <1>6, InvFacts, EnvironmentKeeps, Zenon

LEMMA WriteBackBlockKeeps ==
    ASSUME IInv, NEW a \in Addrs, WriteBackBlock(a)
    PROVE  IInv'
  <1>1. /\ disk.blk # os.blk /\ disk' = [disk EXCEPT !.blk[a] = os.blk[a]] /\ os' = os
        /\ UNCHANGED session
    BY Zenon DEF WriteBackBlock, session
  <1>2. disk' \in Files /\ Receives(disk', disk, os, a)
    <2>1. os.blk[a] \in Blocks
      BY InvFacts, FileFacts, Zenon
    <2> QED BY <2>1, <1>1, InvFacts, Zenon DEF Files, Receives
  <1>3. ASSUME DiskExposed
        PROVE  pc \notin {"publish", "uncertain", "published"} /\ SameTree(disk, os)
    <2>1. pc \notin {"publish", "uncertain", "published"}
      BY <1>1, <1>3, Zenon DEF IInv, FilesInv
    <2>2. CASE pc = "stopped"
      BY <2>1, <2>2, <1>1, <1>3, Zenon DEF IInv, FilesInv
    <2>3. CASE pc # "stopped"
      <3>1. ~InFlight
        BY <2>1, <2>3, Zenon DEF InFlight
      <3> QED BY <3>1, <2>1, <1>3, Zenon DEF IInv, FilesInv
    <2> QED BY <2>2, <2>3, Zenon
  <1>4. ASSUME DiskExposed
        PROVE  /\ Sound(disk') /\ SameTree(disk', os)
               /\ Found(disk') = Found(disk) \/ Found(disk') = Found(os)
    <2>1. os \in Files /\ disk \in Files /\ Sound(os) /\ Sound(disk)
      BY <1>4, InvFacts, Zenon
    <2>2. SameTree(disk, os)
      BY <1>3, <1>4, Zenon
    <2> QED BY <2>1, <2>2, <1>2, BlockArrives, SMTT(30)
  <1>5. DiskExposed' <=> DiskExposed
    BY <1>1, Zenon DEF DiskExposed, session
  <1>6. FilesInv'
    <2>1. InFlight' <=> InFlight
      BY <1>1, Zenon DEF InFlight, session
    <2>2. image' = image /\ pc' = pc
      BY <1>1, Zenon DEF session
    <2> QED BY <2>1, <2>2, <1>1, <1>3, <1>4, <1>5, Zenon DEF IInv, FilesInv
  <1> QED BY <1>1, <1>2, <1>4, <1>6, InvFacts, EnvironmentKeeps, Zenon

LEMMA IssueSuperblockKeeps ==
    ASSUME IInv, IssueSuperblock
    PROVE  IInv'
  <1>1. /\ os.sb # image.sb /\ os' = [os EXCEPT !.sb = image.sb] /\ disk' = disk
        /\ UNCHANGED session
    BY Zenon DEF IssueSuperblock, session
  <1>2. InFlight /\ pc # "stopped"
    BY <1>1, Zenon DEF IInv, FilesInv, SameTree
  <1>3. pc = "uncertain"
    BY <1>2, Zenon DEF InFlight
  <1>4. os.blk = image.blk /\ (DiskExposed => disk.blk = image.blk)
    BY <1>3, Zenon DEF IInv, FilesInv
  <1>5. os' = image
    BY <1>1, <1>4, InvFacts, Zenon DEF Files
  <1>6. FilesInv'
    <2>1. image' = image /\ pc' = pc
      BY <1>1, Zenon DEF session
    <2>2. InFlight' /\ pc' # "stopped" /\ pc' # "truncated"
      BY <2>1, <1>3, Zenon DEF InFlight
    <2>3. DiskExposed' <=> DiskExposed
      BY <1>1, Zenon DEF DiskExposed, session
    <2> QED BY <2>1, <2>2, <2>3, <1>1, <1>4, <1>5, InvFacts, Zenon DEF FilesInv
  <1> QED BY <1>1, <1>5, <1>6, InvFacts, EnvironmentKeeps, Zenon

LEMMA WriteBackSuperblockKeeps ==
    ASSUME IInv, WriteBackSuperblock
    PROVE  IInv'
  <1>1. /\ disk.sb # os.sb /\ disk' = [disk EXCEPT !.sb = os.sb] /\ os' = os
        /\ UNCHANGED session
    BY Zenon DEF WriteBackSuperblock, session
  <1>2. ASSUME DiskExposed PROVE InFlight /\ disk' = os
    <2>1. InFlight
      BY <1>1, <1>2, Zenon DEF IInv, FilesInv, SameTree
    <2>2. pc = "uncertain" \/ pc = "stopped"
      BY <2>1, Zenon DEF InFlight
    <2>3. disk.blk = os.blk
      <3>1. CASE pc = "uncertain"
        BY <3>1, <1>2, Zenon DEF IInv, FilesInv
      <3>2. CASE pc = "stopped"
        BY <3>2, <1>1, <1>2, Zenon DEF IInv, FilesInv, SameTree
      <3> QED BY <3>1, <3>2, <2>2, Zenon
    <2> QED BY <2>1, <2>3, <1>1, InvFacts, Zenon DEF Files
  <1>3. disk' \in Files
    BY <1>1, InvFacts, Zenon DEF Files
  <1>4. DiskExposed' <=> DiskExposed
    BY <1>1, Zenon DEF DiskExposed, session
  <1>5. FilesInv'
    <2>1. image' = image /\ pc' = pc /\ (InFlight' <=> InFlight)
      BY <1>1, Zenon DEF session, InFlight
    <2>2. DiskExposed => pc \notin {"publish", "published"}
      BY <1>2, Zenon DEF InFlight
    <2>3. DiskExposed /\ pc = "uncertain" => disk'.blk = image.blk
      BY <1>2, Zenon DEF IInv, FilesInv
    <2> QED BY <2>1, <2>2, <2>3, <1>1, <1>2, <1>4, SameTreeReflexive, Zenon DEF IInv, FilesInv
  <1> QED BY <1>1, <1>2, <1>3, <1>5, InvFacts, EnvironmentKeeps, Zenon

\* A session is opened on a sound file.
LEMMA ReopenKeeps ==
    ASSUME IInv, NEW f \in Files, Sound(f), Reopen(f), disk' \in Files, stale' \in BOOLEAN,
           DiskExposed' => disk' = f, allowed' \in SUBSET Found0, before' = allowed', Found(f) \in allowed'
    PROVE  IInv'
  <1>1. /\ image' = f /\ os' = f /\ pc' = "idle" /\ job' = [kind |-> "none"] /\ free' = Loaded(f)
        /\ saved' = {} /\ undo' = {} /\ UNCHANGED <<policy, persist, count>>
    BY Zenon DEF Reopen
  <1>2. free' \in SUBSET Addrs /\ Reusable(image', free')
    BY <1>1, LoadedIsReusable, Zenon
  <1>3. TypeOK'
    <2>1. pc' \in Steps /\ job' \in Jobs /\ undo' \in SUBSET (Addrs \X Blocks) /\ saved' \in SUBSET Addrs
      BY <1>1, Zenon DEF Steps, Jobs
    <2> QED BY <2>1, <1>1, <1>2, InvFacts, ZenonT(30) DEF IInv, TypeOK
  <1>4. FilesInv'
    BY <1>1, OneVersion, Zenon
  <1>5. JobInv'
    BY <1>1, <1>2, IdleJob, Zenon
  <1>6. ContentInv'
    <2>1. Found(image') \in allowed' /\ Found(os') \in allowed' /\ (DiskExposed' => Found(disk') \in allowed')
      BY <1>1, Zenon
    <2> QED BY <2>1, <1>1, RestingContent, Zenon
  <1> QED BY <1>3, <1>4, <1>5, <1>6, Zenon DEF IInv

LEMMA ProcessDiesKeeps ==
    ASSUME IInv, ProcessDies
    PROVE  IInv'
  <1>1. Reopen(os) /\ stale' = (disk # os) /\ before' = allowed /\ disk' = disk /\ allowed' = allowed
    BY Zenon DEF ProcessDies
  <1>2. DiskExposed' => disk' = os
    BY <1>1, Zenon DEF DiskExposed
  <1>3. stale' \in BOOLEAN
    BY <1>1, Zenon
  <1> QED BY <1>1, <1>2, <1>3, InvFacts, ReopenKeeps, Zenon

LEMMA PowerLossKeeps ==
    ASSUME IInv, PowerLoss
    PROVE  IInv'
  <1>1. /\ policy = "Always" /\ ~stale /\ Reopen(disk) /\ stale' = FALSE /\ disk' = disk
        /\ allowed' = {Found(disk)} /\ before' = {Found(disk)}
    BY Zenon DEF PowerLoss
  <1>2. DiskExposed
    BY <1>1, Zenon DEF DiskExposed
  <1>3. Sound(disk) /\ Found(disk) \in Found0
    BY <1>2, InvFacts, Zenon
  <1>4. stale' \in BOOLEAN /\ allowed' \in SUBSET Found0 /\ before' = allowed' /\ Found(disk) \in allowed'
    BY <1>1, <1>3, Zenon
  <1> QED BY <1>1, <1>3, <1>4, InvFacts, ReopenKeeps, Zenon

(***************************************************************************)
(* The invariant holds.                                                    *)
(***************************************************************************)
LEMMA NextKeeps == IInv /\ [Next]_vars => IInv'
  <1> SUFFICES ASSUME IInv, [Next]_vars PROVE IInv'
    BY Zenon
  <1>1. ASSUME NEW kind \in {"tree", "keep", "over", "managers"}, ApplyTree(kind) PROVE IInv'
    BY <1>1, ApplyTreeKeeps, Zenon DEF TreeKinds
  <1>2. CASE ApplyInPlace
    BY <1>2, ApplyInPlaceKeeps, Zenon
  <1>3. CASE RollBack \/ UndoBarrier \/ UndoFails
    BY <1>3, RollBackKeeps, UndoBarrierKeeps, UndoFailsKeeps, Zenon
  <1>4. CASE ContentBarrier \/ WriteSuperblock \/ PublishBarrier
    BY <1>4, ContentBarrierKeeps, WriteSuperblockKeeps, PublishBarrierKeeps, Zenon
  <1>5. CASE Truncate \/ TruncateBarrier \/ NothingToTruncate \/ PublicationFails
    BY <1>5, TruncateKeeps, TruncateBarrierKeeps, NothingToTruncateKeeps, PublicationFailsKeeps, Zenon
  <1>6. CASE ForceSync \/ ForceSyncFails
    BY <1>6, ForceSyncKeeps, ForceSyncFailsKeeps, Zenon
  <1>7. ASSUME NEW a \in Addrs, IssueBlock(a) \/ WriteBackBlock(a) PROVE IInv'
    BY <1>7, IssueBlockKeeps, WriteBackBlockKeeps, Zenon
  <1>8. CASE IssueSuperblock \/ WriteBackSuperblock
    BY <1>8, IssueSuperblockKeeps, WriteBackSuperblockKeeps, Zenon
  <1>9. CASE ProcessDies \/ PowerLoss
    BY <1>9, ProcessDiesKeeps, PowerLossKeeps, Zenon
  <1>10. CASE UNCHANGED vars
    <2>1. UNCHANGED session /\ os' = os /\ disk' = disk
      BY <1>10, Zenon DEF vars, session
    <2>2. FilesInv'
      <3>1. UNCHANGED <<policy, image, pc, stale>>
        BY <2>1, Zenon DEF session
      <3> QED BY <3>1, <2>1, Zenon DEF IInv, FilesInv, DiskExposed, InFlight
    <2> QED BY <2>1, <2>2, InvFacts, EnvironmentKeeps, Zenon
  <1> QED BY <1>1, <1>2, <1>3, <1>4, <1>5, <1>6, <1>7, <1>8, <1>9, <1>10, Zenon DEF Next

LEMMA Invariance == Spec => []IInv
  BY InitEstablishes, NextKeeps, PTL DEF Spec

LEMMA ExposedFiles ==
    ASSUME IInv, NEW file \in Exposed
    PROVE  file \in Files /\ Sound(file) /\ (file = os \/ (DiskExposed /\ file = disk))
  <1>1. file = os \/ (DiskExposed /\ file = disk)
    BY Zenon DEF Exposed, DiskExposed
  <1> QED BY <1>1, InvFacts, Zenon

(***************************************************************************)
(* Whenever the process dies, and under Always whenever power is lost, the *)
(* superblock leads to a whole tree, whatever part of the issued writes    *)
(* has reached the file (src/edit.rs, apply_commit and truncate_published).*)
(***************************************************************************)
THEOREM CrashesLeaveIntactFiles == Spec => []CrashLeavesIntactFile
  <1>1. IInv => CrashLeavesIntactFile
    BY ExposedFiles, SoundIsIntact, Zenon DEF CrashLeavesIntactFile
  <1> QED BY <1>1, Invariance, PTL

(***************************************************************************)
(* The free space that the persisted managers record (finalize_persist)    *)
(* never overlaps what the same superblock refers to, in any version of    *)
(* the file that a crash may expose.                                       *)
(***************************************************************************)
THEOREM RecordedSpaceIsFree == Spec => []RecordedFreeIsUnreferenced
  <1>1. ASSUME IInv, NEW file \in Exposed, file.sb.mgr # None
        PROVE  file.blk[file.sb.mgr].free \cap Referenced(file) = {}
    BY <1>1, ExposedFiles, Zenon DEF Sound, Recorded
  <1>2. IInv => RecordedFreeIsUnreferenced
    BY <1>1, Zenon DEF RecordedFreeIsUnreferenced
  <1> QED BY <1>2, Invariance, PTL

(***************************************************************************)
(* A session between commits holds no block as reusable that any version a *)
(* crash may expose refers to: rollback_commit restores the allocator the  *)
(* commit started with, and a publication gives back only what its own     *)
(* tree has left.                                                          *)
(***************************************************************************)
THEOREM ReusableSpaceIsFree == Spec => []ReusableIsUnreferenced
  <1>1. ASSUME IInv, pc = "idle", NEW file \in Exposed
        PROVE  free \cap Referenced(file) = {}
    <2>1. /\ SameTree(os, image) /\ (DiskExposed => SameTree(disk, os))
          /\ free \cap Referenced(image) = {}
      BY <1>1, IdleFacts, Zenon DEF Reusable
    <2>2. Referenced(os) = Referenced(image) /\ (DiskExposed => Referenced(disk) = Referenced(os))
      BY <2>1, SameTreeFacts, Zenon
    <2> QED BY <1>1, <2>1, <2>2, ExposedFiles, Zenon
  <1>2. IInv => ReusableIsUnreferenced
    BY <1>1, Zenon DEF ReusableIsUnreferenced
  <1> QED BY <1>2, Invariance, PTL

(***************************************************************************)
(* Staged commits implement AtomicCommit.                                  *)
(***************************************************************************)

\* What is found in the file, as the abstract specification names it.
LEMMA ContentsAreFound == Abstract!Contents = Found0
  BY Zenon DEF Abstract!Contents, Found0, Values

LEMMA AbstractBegin ==
    ASSUME NEW target \in Found0, os' = os, before' = before,
           \/ allowed' = before \cup {target}
           \/ allowed' = before \cup {target} \cup {[old EXCEPT !.data = target.data] : old \in before}
    PROVE  Abstract!Next
  <1>1. Abstract!Begin(target)
    BY Zenon DEF Abstract!Begin, Abstract!Mixtures
  <1> QED BY <1>1, ContentsAreFound, Zenon DEF Abstract!Next

LEMMA AbstractAppear ==
    ASSUME Found(os') \in allowed, allowed' = allowed, before' = before
    PROVE  Abstract!Next
  BY Zenon DEF Abstract!Next, Abstract!Appear

LEMMA AbstractSucceed ==
    ASSUME NEW target \in Found0, target \in allowed, Found(os') = target,
           allowed' = {target}, before' = {target}
    PROVE  Abstract!Next
  <1>1. Abstract!Succeed(target)
    BY Zenon DEF Abstract!Succeed
  <1> QED BY <1>1, ContentsAreFound, Zenon DEF Abstract!Next

LEMMA AbstractRefuse ==
    ASSUME Found(os') \in before, allowed' = before, before' = before
    PROVE  Abstract!Next
  BY Zenon DEF Abstract!Next, Abstract!Refuse

LEMMA AbstractLeaveOpen ==
    ASSUME Found(os') \in allowed, before' = allowed, allowed' = allowed
    PROVE  Abstract!Next
  BY Zenon DEF Abstract!Next, Abstract!LeaveOpen

LEMMA AbstractLosePower ==
    ASSUME Found(os') \in allowed, allowed' = {Found(os')}, before' = {Found(os')}
    PROVE  Abstract!Next
  BY Zenon DEF Abstract!Next, Abstract!LosePower

\* A commit starts: its target, and for in-place writes the mixtures, may now be found.
LEMMA StartsIsBegin ==
    ASSUME IInv, IInv', NEW kind \in TreeKinds \cup {"inplace"}, Starts(kind)
    PROVE  Abstract!Next
  <1>1. /\ os' = os /\ before' = before
        /\ allowed' = before \cup {Target(kind)} \cup Partial(kind)
    BY Zenon DEF Starts
  <1>2. Target(kind) \in Found0
    <2>1. allowed' \in SUBSET Found0
      BY Zenon DEF IInv, TypeOK
    <2> QED BY <2>1, <1>1, Zenon
  <1>3. CASE kind \notin {"over", "inplace"}
    <2>1. Partial(kind) = {}
      BY <1>3, Zenon DEF Partial
    <2>2. allowed' = before \cup {Target(kind)}
      BY <1>1, <2>1, Zenon
    <2> QED BY <2>2, <1>1, <1>2, AbstractBegin, Zenon
  <1>4. CASE kind \in {"over", "inplace"}
    <2>1. Target(kind).data = count + 1
      <3>1. CASE kind = "over"
        BY <3>1, Zenon DEF Target, Fresh
      <3>2. CASE kind = "inplace"
        <4>1. Target(kind) = [Found(image) EXCEPT !.data = count + 1]
          BY <3>2, Zenon DEF Target
        <4>2. Found(image) \in Found0
          BY InvFacts, Zenon
        <4> QED BY <4>1, <4>2, Zenon DEF Found0
      <3> QED BY <3>1, <3>2, <1>4, Zenon
    <2>2. Partial(kind) = {[old EXCEPT !.data = count + 1] : old \in before}
      BY <1>4, Zenon DEF Partial
    <2>3. Partial(kind) = {[old EXCEPT !.data = Target(kind).data] : old \in before}
      BY <2>1, <2>2, Zenon
    <2>4. allowed' = before \cup {Target(kind)} \cup {[old EXCEPT !.data = Target(kind).data] : old \in before}
      BY <1>1, <2>3, Zenon
    <2> QED BY <2>4, <1>1, <1>2, AbstractBegin, Zenon
  <1> QED BY <1>3, <1>4, Zenon

LEMMA RollBackIsRefuse ==
    ASSUME IInv, RollBack
    PROVE  Abstract!Next
  <1>1. /\ pc \in {"content", "publish"} /\ os' = os /\ before' = before
        /\ undo = {} => allowed' = before
        /\ undo # {} => allowed' = allowed
    BY Zenon DEF RollBack
  <1>2. CASE undo = {}
    BY <1>1, <1>2, NoJournal, AbstractRefuse, Zenon
  <1>3. CASE undo # {}
    BY <1>1, <1>3, InvFacts, AbstractAppear, Zenon
  <1> QED BY <1>2, <1>3, Zenon

LEMMA UndoIsRefuse ==
    ASSUME IInv, UndoBarrier \/ UndoFails
    PROVE  Abstract!Next
  <1>1. CASE UndoBarrier
    <2>1. pc = "undo" /\ os' = image /\ allowed' = before /\ before' = before
      BY <1>1, Zenon DEF UndoBarrier, Barrier
    <2> QED BY <2>1, UndoFacts, AbstractRefuse, Zenon
  <1>2. CASE UndoFails
    <2>1. os' = os /\ before' = allowed /\ allowed' = allowed
      BY <1>2, Zenon DEF UndoFails
    <2> QED BY <2>1, InvFacts, AbstractLeaveOpen, Zenon
  <1> QED BY <1>1, <1>2, Zenon

LEMMA ContentBarrierIsAbstract ==
    ASSUME IInv, ContentBarrier
    PROVE  Abstract!Next
  <1>1. /\ pc = "content" /\ os' = image
        /\ job.kind = "inplace" => allowed' = {job.target} /\ before' = {job.target}
        /\ job.kind # "inplace" => allowed' = allowed /\ before' = before
    BY Zenon DEF ContentBarrier, Barrier, Succeeds
  <1>2. CASE job.kind = "inplace"
    <2>1. Found(image) = job.target
      BY <1>1, <1>2, Zenon DEF IInv, ContentInv
    <2>2. job.target \in Found0 /\ job.target \in allowed
      BY <2>1, InvFacts, FoundType, Zenon
    <2> QED BY <2>1, <2>2, <1>1, <1>2, AbstractSucceed, Zenon
  <1>3. CASE job.kind # "inplace"
    BY <1>1, <1>3, InvFacts, AbstractAppear, Zenon
  <1> QED BY <1>2, <1>3, Zenon

LEMMA PublicationIsAbstract ==
    ASSUME IInv, IInv', WriteSuperblock \/ PublishBarrier \/ Truncate \/ TruncateBarrier
                        \/ NothingToTruncate \/ PublicationFails
    PROVE  Abstract!Next
  <1>1. CASE WriteSuperblock \/ PublishBarrier \/ Truncate
    <2>1. allowed' = allowed /\ before' = before
      BY <1>1, Zenon DEF WriteSuperblock, PublishBarrier, Truncate
    <2>2. Found(os') \in allowed'
      BY Zenon DEF IInv, ContentInv
    <2> QED BY <2>1, <2>2, AbstractAppear, Zenon
  <1>2. CASE TruncateBarrier \/ NothingToTruncate
    <2>1. /\ pc \in {"published", "truncated"} /\ allowed' = {job.target} /\ before' = {job.target}
          /\ os' = image \/ (pc = "published" /\ os' = os)
      BY <1>2, ZenonT(30) DEF TruncateBarrier, NothingToTruncate, Succeeds, Barrier
    <2>2. job.target \in allowed /\ job.target \in Found0 /\ Found(image) = job.target /\ os = image
      BY <2>1, PublishedFacts, Zenon
    <2> QED BY <2>1, <2>2, AbstractSucceed, Zenon
  <1>3. CASE PublicationFails
    <2>1. os' = os /\ before' = allowed /\ allowed' = allowed
      BY <1>3, Zenon DEF PublicationFails
    <2> QED BY <2>1, InvFacts, AbstractLeaveOpen, Zenon
  <1> QED BY <1>1, <1>2, <1>3, Zenon

LEMMA SyncIsAbstract ==
    ASSUME IInv, ForceSync \/ ForceSyncFails
    PROVE  Abstract!Next
  <1>1. CASE ForceSync
    <2>1. os' = image /\ allowed' = {Found(image)} /\ before' = {Found(image)}
      BY <1>1, Zenon DEF ForceSync
    <2>2. Found(image) \in Found0 /\ Found(image) \in allowed
      BY InvFacts, Zenon
    <2> QED BY <2>1, <2>2, AbstractSucceed, Zenon
  <1>2. CASE ForceSyncFails
    <2>1. os' = os /\ before' = allowed /\ allowed' = allowed
      BY <1>2, Zenon DEF ForceSyncFails
    <2> QED BY <2>1, InvFacts, AbstractLeaveOpen, Zenon
  <1> QED BY <1>1, <1>2, Zenon

LEMMA EnvironmentIsAbstract ==
    ASSUME IInv, IInv', UNCHANGED session
    PROVE  Abstract!Next
  <1>1. allowed' = allowed /\ before' = before
    BY Zenon DEF session
  <1>2. Found(os') \in allowed'
    BY Zenon DEF IInv, ContentInv
  <1> QED BY <1>1, <1>2, AbstractAppear, Zenon

LEMMA CrashIsAbstract ==
    ASSUME IInv, ProcessDies \/ PowerLoss
    PROVE  Abstract!Next
  <1>1. CASE ProcessDies
    <2>1. os' = os /\ before' = allowed /\ allowed' = allowed
      BY <1>1, Zenon DEF ProcessDies, Reopen
    <2> QED BY <2>1, InvFacts, AbstractLeaveOpen, Zenon
  <1>2. CASE PowerLoss
    <2>1. os' = disk /\ allowed' = {Found(disk)} /\ before' = {Found(disk)} /\ DiskExposed
      BY <1>2, Zenon DEF PowerLoss, Reopen, DiskExposed
    <2>2. Found(os') \in allowed
      BY <2>1, InvFacts, Zenon
    <2> QED BY <2>1, <2>2, AbstractLosePower, Zenon
  <1> QED BY <1>1, <1>2, Zenon

LEMMA NextIsAbstract == IInv /\ IInv' /\ [Next]_vars => [Abstract!Next]_(Abstract!vars)
  <1> SUFFICES ASSUME IInv, IInv', [Next]_vars PROVE Abstract!Next \/ UNCHANGED Abstract!vars
    BY Zenon
  <1>1. ASSUME NEW kind \in {"tree", "keep", "over", "managers"}, ApplyTree(kind) PROVE Abstract!Next
    <2>1. Starts(kind)
      BY <1>1, Zenon DEF ApplyTree
    <2>2. kind \in TreeKinds \cup {"inplace"}
      BY Zenon DEF TreeKinds
    <2> QED BY <2>1, <2>2, StartsIsBegin, Zenon
  <1>2. CASE ApplyInPlace
    <2>1. Starts("inplace")
      BY <1>2, Zenon DEF ApplyInPlace
    <2> QED BY <2>1, StartsIsBegin, Zenon
  <1>3. CASE RollBack \/ UndoBarrier \/ UndoFails
    BY <1>3, RollBackIsRefuse, UndoIsRefuse, Zenon
  <1>4. CASE ContentBarrier
    BY <1>4, ContentBarrierIsAbstract, Zenon
  <1>5. CASE WriteSuperblock \/ PublishBarrier \/ Truncate \/ TruncateBarrier \/ NothingToTruncate
             \/ PublicationFails
    BY <1>5, PublicationIsAbstract, Zenon
  <1>6. CASE ForceSync \/ ForceSyncFails
    BY <1>6, SyncIsAbstract, Zenon
  <1>7. ASSUME NEW a \in Addrs, IssueBlock(a) \/ WriteBackBlock(a) PROVE Abstract!Next
    <2>1. UNCHANGED session
      BY <1>7, Zenon DEF IssueBlock, WriteBackBlock, session
    <2> QED BY <2>1, EnvironmentIsAbstract, Zenon
  <1>8. CASE IssueSuperblock \/ WriteBackSuperblock
    <2>1. UNCHANGED session
      BY <1>8, Zenon DEF IssueSuperblock, WriteBackSuperblock, session
    <2> QED BY <2>1, EnvironmentIsAbstract, Zenon
  <1>9. CASE ProcessDies \/ PowerLoss
    BY <1>9, CrashIsAbstract, Zenon
  <1>10. CASE UNCHANGED vars
    BY <1>10, Zenon DEF vars, Abstract!vars
  <1> QED BY <1>1, <1>2, <1>3, <1>4, <1>5, <1>6, <1>7, <1>8, <1>9, <1>10, Zenon DEF Next

LEMMA InitIsAbstract == Init => Abstract!Init
  <1> SUFFICES ASSUME Init PROVE Abstract!Init
    BY Zenon
  <1>1. os = image /\ allowed = {Found(image)} /\ before = {Found(image)}
    BY Zenon DEF Init
  <1>2. Found(os) \in Found0
    BY InitEstablishes, InvFacts, FoundType, Zenon
  <1> QED BY <1>1, <1>2, ContentsAreFound, Zenon DEF Abstract!Init

(***************************************************************************)
(* A commit is atomic for everyone who opens the file (apply_commit,       *)
(* rollback_commit, make_allocation_uncertain): the contents found in the  *)
(* issued file follow AtomicCommit through every failure of a write or a   *)
(* barrier, every crash and, under Always, every loss of power.            *)
(***************************************************************************)
THEOREM StagedCommitIsAtomic == Spec => CommitIsAtomic
  <1>1. IInv /\ IInv' /\ [Next]_vars => [Abstract!Next]_(Abstract!vars)
    BY NextIsAbstract, Zenon
  <1>2. Init => Abstract!Init
    BY InitIsAbstract, Zenon
  <1> QED BY <1>1, <1>2, Invariance, PTL DEF Spec, CommitIsAtomic, Abstract!Spec
=============================================================================
