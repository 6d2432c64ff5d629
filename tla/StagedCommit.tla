---------------------------- MODULE StagedCommit ----------------------------
(***************************************************************************)
(* One commit of a WriteEngine, from the snapshot of its allocator to the  *)
(* truncation that ends it (src/edit/commit: mod.rs, apply.rs, publish.rs, *)
(* rollback.rs), with I/O failures at every write and barrier, the death   *)
(* of the process and the loss of power.                                   *)
(*                                                                         *)
(* The file is a superblock and blocks of one unit.  A root block refers   *)
(* to one data block; with persisted free space a manager block records    *)
(* the reusable blocks.  The superblock, a write of less than a sector, is *)
(* atomic.  Three versions of the file exist: as the session sees it       *)
(* (image), as other processes see it (os: the gathered writes that were   *)
(* issued) and as a loss of power would leave it (disk: the pages that     *)
(* were written back).  Writes between two barriers reach the os, and      *)
(* pages reach the disk, in any order.                                     *)
(*                                                                         *)
(* Reference patching and link-count updates after a publication, the      *)
(* two-step recycling of managers and root headers, and pages are left     *)
(* out.                                                                    *)
(***************************************************************************)
EXTENDS Naturals, FiniteSets

CONSTANTS
    MaxAddr,      \* bound: the blocks a file may have
    MaxCommits    \* bound: the commits explored, each with values of its own

ASSUME StagedCommitAssumption ==
    MaxAddr \in Nat /\ MaxAddr >= 3 /\ MaxCommits \in Nat

Addrs == 1 .. MaxAddr

None == 0

VARIABLES
    policy,     \* SyncPolicy: "Always" or "OnClose"
    persist,    \* the file persists its free space
    image, os, disk,
    pc,         \* where the session's commit stands
    job,        \* the commit being applied
    free,       \* the session's reusable blocks
    saved,      \* the FreeSnapshot of the running commit
    undo,       \* inplace_undo: prior contents, at most one block here
    count,      \* commits started
    stale,      \* the session was opened on writes that are not durable yet
    allowed, before   \* history: what the file may be found to contain

vars == <<policy, persist, image, os, disk, pc, job, free, saved, undo, count, stale, allowed, before>>

(***************************************************************************)
(* The file.                                                               *)
(***************************************************************************)
Absent       == [kind |-> "absent", value |-> 0, ref |-> None, free |-> {}]
RootBlock(v, d) == [kind |-> "root", value |-> v, ref |-> d, free |-> {}]
DataBlock(v) == [kind |-> "data", value |-> v, ref |-> None, free |-> {}]
Managers(f)  == [kind |-> "managers", value |-> 0, ref |-> None, free |-> f]

DataOf(file)     == file.blk[file.sb.root].ref
Referenced(file) == {file.sb.root, DataOf(file), file.sb.mgr} \ {None}
End(file)        == 1 + Cardinality({a \in Addrs : \E b \in a .. MaxAddr : file.blk[b] # Absent})
Found(file)      == [root |-> file.blk[file.sb.root].value, data |-> file.blk[DataOf(file)].value]

\* The superblock leads to a whole tree within a file at least as long as it says.
Intact(file) ==
    /\ file.blk[file.sb.root].kind = "root"
    /\ file.blk[DataOf(file)].kind = "data"
    /\ file.sb.mgr # None => file.blk[file.sb.mgr].kind = "managers"
    /\ \A a \in Referenced(file) : a < file.sb.eof
    /\ file.sb.eof <= End(file)

\* A new file: data block, root block and, if it persists free space, managers.
Init ==
    /\ policy \in {"Always", "OnClose"}
    /\ persist \in BOOLEAN
    /\ image = [sb  |-> [root |-> 2, mgr |-> IF persist THEN 3 ELSE None,
                         eof |-> IF persist THEN 4 ELSE 3],
                blk |-> [a \in Addrs |-> CASE a = 1 -> DataBlock(0)
                                           [] a = 2 -> RootBlock(0, 1)
                                           [] a = 3 /\ persist -> Managers({})
                                           [] OTHER -> Absent]]
    /\ os = image
    /\ disk = image
    /\ pc = "idle"
    /\ job = [kind |-> "none"]
    /\ free = {}
    /\ saved = {}
    /\ undo = {}
    /\ count = 0
    /\ stale = FALSE
    /\ allowed = {Found(image)}
    /\ before = {Found(image)}

(***************************************************************************)
(* Barriers.  barrier() issues every gathered write and, under Always,     *)
(* makes the file durable; force_sync does so under either policy.         *)
(***************************************************************************)
Barrier ==
    /\ os' = image
    /\ disk' = IF policy = "Always" THEN image ELSE disk
    /\ stale' = (stale /\ policy # "Always")

(***************************************************************************)
(* Placement.  A block goes to a reusable address or to the end of the     *)
(* file; a chain of reservations is threaded through [free, end].          *)
(***************************************************************************)
\* Mutant of Reserve: what the commit itself will free is reusable at once.
ReserveOwnFrees(space) ==
    LET f == space.free \cup Referenced(image)
    IN [at |-> CHOOSE a \in f : \A b \in f : a <= b, free |-> space.free, end |-> space.end]

Reserve(space) ==
    IF space.free = {}
    THEN [at |-> space.end, free |-> {}, end |-> space.end + 1]
    ELSE LET a == CHOOSE x \in space.free : \A y \in space.free : x <= y
         IN [at |-> a, free |-> space.free \ {a}, end |-> space.end]

\* Managers may also be appended while there is reusable space (flat_tail_layout).
Append(space) == [at |-> space.end, free |-> space.free, end |-> space.end + 1]

\* The reusable blocks that end the file, from `cut' on.
Trailing(post, end) == {c \in 1 .. end : \A a \in c .. (end - 1) : a \in post}

Fresh(c) == [root |-> c, data |-> c]

(***************************************************************************)
(* commit, apply_commit: planning succeeded, the staged set is consumed    *)
(* and every replacement block is written.  "tree" and "keep" replace the  *)
(* root, with a new data block or the old one; "over" also overwrites the  *)
(* old data block in place; "managers" is finalize_persist with the        *)
(* current root.                                                           *)
(***************************************************************************)
Target(kind) ==
    LET now == Found(image)
    IN CASE kind \in {"tree", "over"} -> Fresh(count + 1)
         [] kind = "keep"             -> [now EXCEPT !.root = count + 1]
         [] kind = "inplace"          -> [now EXCEPT !.data = count + 1]
         [] OTHER                     -> now

\* In-place overwrites may be found with the old root.
Partial(kind) ==
    {[x EXCEPT !.data = count + 1] : x \in {y \in before : kind \in {"over", "inplace"}}}

Starts(kind) ==
    /\ pc = "idle"
    /\ count < MaxCommits
    /\ count' = count + 1
    /\ saved' = free
    /\ allowed' = before \cup {Target(kind)} \cup Partial(kind)
    /\ UNCHANGED <<policy, persist, os, disk, stale, before>>

\* Mutant of PostFree: the managers are listed among the space they record.
PostFreeWithManagers(kept, freed, managers) == kept \cup freed \cup ({managers} \ {None})

\* flat_post_free and release_freed: what is reusable once the commit is published.
PostFree(kept, freed, managers) == kept \cup freed

ApplyTree(kind) ==
    /\ kind \in {"tree", "keep", "over", "managers"}
    /\ kind = "managers" => persist
    /\ Starts(kind)
    /\ LET s0 == [at |-> None, free |-> free, end |-> End(image)]
           s1 == IF kind = "tree" THEN Reserve(s0) ELSE s0
           s2 == IF kind = "managers" THEN s1 ELSE Reserve(s1)
           d  == IF kind = "tree" THEN s1.at ELSE DataOf(image)
           r  == IF kind = "managers" THEN image.sb.root ELSE s2.at
       IN \E s3 \in IF persist THEN {Reserve(s2), Append(s2)} ELSE {s2} :
            LET m     == IF persist THEN s3.at ELSE None
                freed == Referenced(image) \ {d, r}
                post  == PostFree(s3.free, freed, m)
            IN /\ s3.end <= MaxAddr + 1
               /\ \E cut \in IF persist THEN Trailing(post, s3.end)
                             ELSE {c \in Trailing(post, s3.end) :
                                     \A x \in Trailing(post, s3.end) : c <= x} :
                    LET kept == {a \in post : a < cut}
                        put  == [a \in Addrs |->
                                   CASE a = m -> Managers(kept)
                                     [] a = r /\ kind # "managers" -> RootBlock(count + 1, d)
                                     [] a = d /\ kind \in {"tree", "over"} -> DataBlock(count + 1)
                                     [] OTHER -> image.blk[a]]
                    IN /\ image' = [image EXCEPT !.blk = put]
                       /\ job' = [kind |-> kind, target |-> Target(kind), post |-> kept,
                                  sb |-> [root |-> r, mgr |-> m, eof |-> cut]]
                       /\ free' = s3.free
               /\ undo' = IF kind = "over" THEN {<<d, image.blk[d]>>} ELSE {}
    /\ pc' = "content"

ApplyInPlace ==
    /\ Starts("inplace")
    /\ LET d == DataOf(image)
       IN /\ image' = [image EXCEPT !.blk[d] = DataBlock(count + 1)]
          /\ undo' = {<<d, image.blk[d]>>}
    /\ job' = [kind |-> "inplace", target |-> Target("inplace")]
    /\ pc' = "content"
    /\ UNCHANGED free

(***************************************************************************)
(* A failure before publication is attempted: rollback_commit rewrites the *)
(* journalled values and restores the allocator; a nonempty journal ends   *)
(* with a barrier of its own.  Blocks already placed stay unreferenced.    *)
(***************************************************************************)
Restored == [image EXCEPT !.blk = [a \in Addrs |->
                IF \E e \in undo : e[1] = a THEN (CHOOSE e \in undo : e[1] = a)[2] ELSE image.blk[a]]]

\* Mutant of RollBack: what the failed commit would have freed stays reusable.
RollBackKeepingFrees ==
    /\ pc \in {"content", "publish"}
    /\ image' = Restored
    /\ free' = IF job.kind = "inplace" THEN saved ELSE job.post
    /\ undo' = {}
    /\ IF undo = {}
       THEN pc' = "idle" /\ allowed' = before
       ELSE pc' = "undo" /\ UNCHANGED allowed
    /\ UNCHANGED <<policy, persist, os, disk, job, saved, count, stale, before>>

RollBack ==
    /\ pc \in {"content", "publish"}
    /\ image' = Restored
    /\ free' = saved
    /\ undo' = {}
    /\ IF undo = {}
       THEN pc' = "idle" /\ allowed' = before
       ELSE pc' = "undo" /\ UNCHANGED allowed
    /\ UNCHANGED <<policy, persist, os, disk, job, saved, count, stale, before>>

UndoBarrier ==
    /\ pc = "undo"
    /\ Barrier
    /\ pc' = "idle"
    /\ allowed' = before
    /\ UNCHANGED <<policy, persist, image, job, free, saved, undo, count, before>>

\* Restoring fails: CommitPartiallyApplied.
UndoFails ==
    /\ pc = "undo"
    /\ pc' = "idle"
    /\ before' = allowed
    /\ UNCHANGED <<policy, persist, image, os, disk, job, free, saved, undo, count, stale, allowed>>

\* The commit has succeeded: nothing else may be found any more.
Succeeds ==
    /\ pc' = "idle"
    /\ undo' = {}
    /\ allowed' = {job.target}
    /\ before' = {job.target}

\* Mutant of ContentBarrier: the content is not waited for.
ContentBarrierSkipped ==
    /\ pc = "content"
    /\ job.kind # "inplace"
    /\ pc' = "publish"
    /\ UNCHANGED <<policy, persist, image, os, disk, job, free, saved, undo, count, stale, allowed, before>>

\* The barrier before the superblock; it ends a commit without tree edits.
ContentBarrier ==
    /\ pc = "content"
    /\ Barrier
    /\ IF job.kind = "inplace" THEN Succeeds ELSE pc' = "publish" /\ UNCHANGED <<undo, allowed, before>>
    /\ UNCHANGED <<policy, persist, image, job, free, saved, count>>

\* PublicationState::Uncertain, then the superblock is written.
WriteSuperblock ==
    /\ pc = "publish"
    /\ image' = [image EXCEPT !.sb = job.sb]
    /\ pc' = "uncertain"
    /\ UNCHANGED <<policy, persist, os, disk, job, free, saved, undo, count, stale, allowed, before>>

\* Its barrier: the superblock is adopted and the freed space becomes reusable.
PublishBarrier ==
    /\ pc = "uncertain"
    /\ Barrier
    /\ pc' = "published"
    /\ free' = job.post
    /\ UNCHANGED <<policy, persist, image, job, saved, undo, count, allowed, before>>

Cut(file, at) == [file EXCEPT !.blk = [a \in Addrs |-> IF a < at THEN file.blk[a] ELSE Absent]]

\* truncate_published: the length changes in the file at once.
Truncate ==
    /\ pc = "published"
    /\ job.sb.eof < End(image)
    /\ image' = Cut(image, job.sb.eof)
    /\ os' = Cut(os, job.sb.eof)
    /\ pc' = "truncated"
    /\ UNCHANGED <<policy, persist, disk, job, free, saved, undo, count, stale, allowed, before>>

TruncateBarrier ==
    /\ pc = "truncated"
    /\ Barrier
    /\ Succeeds
    /\ UNCHANGED <<policy, persist, image, job, free, saved, count>>

\* The published end of file is the file's length already.
NothingToTruncate ==
    /\ pc = "published"
    /\ job.sb.eof >= End(image)
    /\ Succeeds
    /\ UNCHANGED <<policy, persist, image, os, disk, job, free, saved, count, stale>>

(***************************************************************************)
(* A failure at or after the publication: make_allocation_uncertain drops  *)
(* the queued writes and refuses every later edit and synchronization.     *)
(***************************************************************************)
PublicationFails ==
    /\ pc \in {"uncertain", "published", "truncated"}
    /\ image' = os
    /\ pc' = "stopped"
    /\ undo' = {}
    /\ before' = allowed
    /\ UNCHANGED <<policy, persist, os, disk, job, free, saved, count, stale, allowed>>

\* File::sync and the synchronization of close.
ForceSync ==
    /\ pc = "idle"
    /\ os' = image
    /\ disk' = image
    /\ stale' = FALSE
    /\ allowed' = {Found(image)}
    /\ before' = {Found(image)}
    /\ UNCHANGED <<policy, persist, image, pc, job, free, saved, undo, count>>

ForceSyncFails ==
    /\ pc = "idle"
    /\ image' = os
    /\ pc' = "stopped"
    /\ before' = allowed
    /\ UNCHANGED <<policy, persist, os, disk, job, free, saved, undo, count, stale, allowed>>

(***************************************************************************)
(* The environment.                                                        *)
(***************************************************************************)
IssueBlock(a) ==
    /\ os.blk[a] # image.blk[a]
    /\ os' = [os EXCEPT !.blk[a] = image.blk[a]]
    /\ UNCHANGED <<policy, persist, image, disk, pc, job, free, saved, undo, count, stale, allowed, before>>

IssueSuperblock ==
    /\ os.sb # image.sb
    /\ os' = [os EXCEPT !.sb = image.sb]
    /\ UNCHANGED <<policy, persist, image, disk, pc, job, free, saved, undo, count, stale, allowed, before>>

WriteBackBlock(a) ==
    /\ disk.blk[a] # os.blk[a]
    /\ disk' = [disk EXCEPT !.blk[a] = os.blk[a]]
    /\ UNCHANGED <<policy, persist, image, os, pc, job, free, saved, undo, count, stale, allowed, before>>

WriteBackSuperblock ==
    /\ disk.sb # os.sb
    /\ disk' = [disk EXCEPT !.sb = os.sb]
    /\ UNCHANGED <<policy, persist, image, os, pc, job, free, saved, undo, count, stale, allowed, before>>

\* load_persisted_free_space: the recorded blocks that lie within the file.
Loaded(file) ==
    IF file.sb.mgr = None THEN {} ELSE {a \in file.blk[file.sb.mgr].free : a < End(file)}

\* A session is opened on what the file holds now.
Reopen(file) ==
    /\ image' = file
    /\ os' = file
    /\ pc' = "idle"
    /\ job' = [kind |-> "none"]
    /\ free' = Loaded(file)
    /\ saved' = {}
    /\ undo' = {}
    /\ UNCHANGED <<policy, persist, count>>

\* The process dies, or drops a stopped session, and the file is opened again.
ProcessDies ==
    /\ Reopen(os)
    /\ stale' = (disk # os)
    /\ before' = allowed
    /\ UNCHANGED <<disk, allowed>>

(***************************************************************************)
(* Under OnClose power-loss ordering is given up (docs/guide/editing.md).  *)
(* Power is not lost while a session works on what a dead process wrote    *)
(* and no barrier has made durable: faults come one at a time.             *)
(***************************************************************************)
PowerLoss ==
    /\ policy = "Always"
    /\ ~stale
    /\ Reopen(disk)
    /\ stale' = FALSE
    /\ allowed' = {Found(disk)}
    /\ before' = {Found(disk)}
    /\ UNCHANGED disk

Next ==
    \/ \E kind \in {"tree", "keep", "over", "managers"} : ApplyTree(kind)
    \/ ApplyInPlace
    \/ RollBack \/ UndoBarrier \/ UndoFails
    \/ ContentBarrier \/ WriteSuperblock \/ PublishBarrier
    \/ Truncate \/ TruncateBarrier \/ NothingToTruncate \/ PublicationFails
    \/ ForceSync \/ ForceSyncFails
    \/ \E a \in Addrs : IssueBlock(a) \/ WriteBackBlock(a)
    \/ IssueSuperblock
    \/ WriteBackSuperblock
    \/ ProcessDies
    \/ PowerLoss

Spec == Init /\ [][Next]_vars

(***************************************************************************)
(* Properties.                                                             *)
(***************************************************************************)

\* What a single fault may expose: the issued writes, and under Always the durable ones.
Exposed == {os} \cup {d \in {disk} : policy = "Always" /\ ~stale}

(***************************************************************************)
(* Whenever the process dies, and under Always whenever power is lost, the *)
(* superblock leads to a whole tree: content is written before it is       *)
(* referred to, reused space belongs to earlier commits, and the file is   *)
(* cut only after the smaller end of file is published (src/edit.rs,       *)
(* crash safety).                                                          *)
(***************************************************************************)
CrashLeavesIntactFile == \A file \in Exposed : Intact(file)

(***************************************************************************)
(* The free space a file records never overlaps what the same superblock   *)
(* refers to, the managers themselves included: a session opened after any *)
(* crash hands out none of it.                                             *)
(***************************************************************************)
RecordedFreeIsUnreferenced ==
    \A file \in Exposed :
        file.sb.mgr # None => file.blk[file.sb.mgr].free \cap Referenced(file) = {}

(***************************************************************************)
(* A session that may still edit hands out no block that the file refers   *)
(* to, in any version a crash may expose: what a failed or published       *)
(* commit gave back is really unreferenced.                                *)
(***************************************************************************)
ReusableIsUnreferenced ==
    pc = "idle" => \A file \in Exposed : free \cap Referenced(file) = {}

\* The whole staged-commit machinery implements AtomicCommit.
Abstract == INSTANCE AtomicCommit
              WITH Values <- 0 .. MaxCommits, contents <- Found(os)

(***************************************************************************)
(* A commit is atomic for everyone who opens the file, through every       *)
(* failure and crash, and under Always through a loss of power: what       *)
(* power leaves is among the contents allowed then.                        *)
(***************************************************************************)
CommitIsAtomic == Abstract!Spec
=============================================================================
