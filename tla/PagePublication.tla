--------------------------- MODULE PagePublication ---------------------------
(***************************************************************************)
(* Commits of a session on a PAGE file that does not persist its free      *)
(* space (WriteEngine::fresh_page_boundary is set).  Such a session gives  *)
(* every replacement fresh pages past the end of the file, publishes it    *)
(* through the superblock alone and, unlike every other session, survives  *)
(* a failed publication: the superblock write stays queued, and the next   *)
(* commit or File::sync completes the barrier, compares the file with the  *)
(* session's image and adopts the root the file leads to                   *)
(* (src/edit/commit/mod.rs, src/edit/commit/publish.rs).                   *)
(*                                                                         *)
(* A root is numbered by the commit that built it, root 0 is the file as   *)
(* it was opened.  The image gathers writes (WriteBuffering::Operation,    *)
(* the only mode of a locked session on such a file) and holds the whole   *)
(* file in memory, so only barriers meet the file.  Every step may be the  *)
(* last one of the process; with SyncPolicy::Always power may fail too.    *)
(* Counted hard links, which are also patched in place, are left out.      *)
(***************************************************************************)
EXTENDS Naturals

CONSTANTS
    None,        \* no superblock write is queued
    Torn,        \* a superblock of which a part was written
    MaxRoots,    \* bound: the trees built
    MaxEdits,    \* bound: the edits staged
    MaxFaults,   \* bound: the failures of the file
    MaxCrashes   \* bound: the sessions that end without notice

ASSUME RootsAssumption == MaxRoots \in Nat /\ None \notin Nat /\ Torn \notin Nat /\ None # Torn

VARIABLES
    policy,       \* SyncPolicy
    pc,           \* the step of commit or force_sync that is next
    publication,  \* WriteEngine::publication
    root,         \* the root of context.superblock()
    image,        \* the root of the superblock in the image
    queued,       \* the superblock write among the gathered writes
    disk,         \* the root of the file's superblock
    stored,       \* the superblocks power loss may leave
    pages,        \* by root, how far its fresh pages have come
    tree,         \* by root, the edits it contains
    built,        \* how many roots there are
    staged,       \* the staged edits
    edits,        \* how many were staged
    taken,        \* the staged edits the running commit consumed
    returned,     \* history: edits of commits that returned Ok
    landed,       \* history: edits of the roots the file has led to
    faults, crashes   \* how many there were

session  == <<policy, pc, publication, root, image, queued>>
onDisk   == <<disk, stored, pages>>
work     == <<tree, built, staged, edits, taken, returned>>
pageVars == <<session, onDisk, work, landed, faults, crashes>>

Attempted == publication # "Ready"
Faulty    == faults < MaxFaults /\ faults' = faults + 1

\* What the file leads to is remembered by every barrier.
Remember == landed' = IF disk' = Torn THEN landed ELSE landed \cup tree[disk']

PagesInit ==
    /\ policy \in {"Always", "OnClose"}
    /\ pc = "idle" /\ publication = "Ready"
    /\ root = 0 /\ image = 0 /\ queued = None
    /\ disk = 0 /\ stored = {0}
    /\ pages = [r \in 0 .. MaxRoots |-> IF r = 0 THEN "durable" ELSE "none"]
    /\ tree = [r \in 0 .. MaxRoots |-> {}]
    /\ built = 0
    /\ staged = {} /\ edits = 0 /\ taken = {} /\ returned = {} /\ landed = {}
    /\ faults = 0 /\ crashes = 0

Stage ==
    /\ pc = "idle"
    /\ edits < MaxEdits
    /\ edits' = edits + 1
    /\ staged' = staged \cup {edits'}
    /\ UNCHANGED <<session, onDisk, tree, built, taken, returned, landed, faults, crashes>>

(***************************************************************************)
(* The barriers.  barrier() issues the gathered writes and, under Always,  *)
(* synchronizes; force_sync always synchronizes.  A failed one may have    *)
(* written nothing, a part or all; what it could not issue stays queued.   *)
(***************************************************************************)
Synchronizes == policy = "Always" \/ pc = "sync"

Drained == [r \in DOMAIN pages |-> IF pages[r] = "queued" THEN "issued" ELSE pages[r]]

PagesSynced == [r \in DOMAIN pages |-> IF Drained[r] = "issued" THEN "durable" ELSE Drained[r]]

Issued == IF queued = None THEN disk ELSE queued

BarrierSucceeds ==
    /\ queued' = None
    /\ disk' = Issued
    /\ stored' = IF Synchronizes THEN {Issued} ELSE stored \cup {Issued}
    /\ pages' = IF Synchronizes THEN PagesSynced ELSE Drained
    /\ Remember

\* Mutant of KeptQueued: a write that could not be issued is forgotten.
KeptQueuedNever == None

\* flush puts back the run it could not issue.
KeptQueued == queued

BarrierFails ==
    /\ Faulty
    /\ \/ /\ queued' = KeptQueued
          /\ disk' \in IF queued = None THEN {disk} ELSE {disk, Torn, queued}
          /\ UNCHANGED pages
       \/ Synchronizes /\ queued' = None /\ disk' = Issued /\ pages' = Drained
    /\ stored' = stored \cup {disk'}
    /\ Remember

(***************************************************************************)
(* recover_page_publication reads the superblock of the image and of the   *)
(* file and adopts their common root.                                      *)
(***************************************************************************)
Recovers == disk = image /\ root' = image

RecoveryFails == (Faulty \/ (disk # image /\ UNCHANGED faults)) /\ UNCHANGED root

\* force_sync.
ForceSync ==
    /\ pc = "idle"
    /\ pc' = "sync"
    /\ UNCHANGED <<policy, publication, root, image, queued, onDisk, work, landed, faults, crashes>>

\* Mutant of Begins: a commit starts on the root it last adopted.
BeginsAtOnce == "apply"

\* commit completes an attempted publication before it looks at the staged edits.
Begins == IF Attempted THEN "settle" ELSE "apply"

Commit ==
    /\ pc = "idle"
    /\ pc' = Begins
    /\ UNCHANGED <<policy, publication, root, image, queued, onDisk, work, landed, faults, crashes>>

SettleBarrier ==
    /\ pc \in {"settle", "sync"}
    /\ \/ /\ BarrierSucceeds
          /\ pc' = IF Attempted THEN (IF pc = "sync" THEN "verifySync" ELSE "verify") ELSE "idle"
          /\ UNCHANGED faults
       \/ BarrierFails /\ pc' = "idle"
    /\ UNCHANGED <<policy, publication, root, image, work, crashes>>

\* complete_page_publication.
CompletePagePublication ==
    /\ pc \in {"verify", "verifySync"}
    /\ \/ /\ Recovers
          /\ publication' = "Ready"
          /\ pc' = IF pc = "verify" THEN "apply" ELSE "idle"
          /\ UNCHANGED faults
       \/ RecoveryFails /\ pc' = "idle" /\ UNCHANGED publication
    /\ UNCHANGED <<policy, image, queued, onDisk, work, landed, crashes>>

(***************************************************************************)
(* commit_inner.  Planning may reject the staged edits, which then stay;   *)
(* once they are applied, a failure drops them.  The new tree is the       *)
(* adopted one with the edits.                                             *)
(***************************************************************************)
ApplyNothing ==
    /\ pc = "apply"
    /\ pc' = "idle"
    /\ publication' = "Ready"
    /\ UNCHANGED <<policy, root, image, queued, onDisk, work, landed, faults, crashes>>

Apply ==
    /\ pc = "apply"
    /\ staged # {} /\ built < MaxRoots
    /\ publication' = "Ready"
    /\ built' = built + 1
    /\ tree' = [tree EXCEPT ![built'] = tree[root] \cup staged]
    /\ pages' = [pages EXCEPT ![built'] = "queued"]
    /\ taken' = staged /\ staged' = {}
    /\ \/ pc' = "content" /\ UNCHANGED faults
       \/ Faulty /\ pc' = "idle"
    /\ UNCHANGED <<policy, root, image, queued, disk, stored, edits, returned, landed, crashes>>

\* Mutant of ContentBarrier: the superblock is written without a barrier before it.
ContentBarrierSkipped ==
    /\ pc = "content"
    /\ publication' = "Uncertain"
    /\ queued' = built /\ image' = built
    /\ pc' = "publish"
    /\ UNCHANGED <<policy, root, onDisk, work, landed, faults, crashes>>

\* publish_nonpersisting up to the superblock write, which the image accepts and queues.
ContentBarrier ==
    /\ pc = "content"
    /\ \/ /\ pages' = IF Synchronizes THEN PagesSynced ELSE Drained
          /\ publication' = "Uncertain"
          /\ queued' = built /\ image' = built
          /\ pc' = "publish"
          /\ UNCHANGED <<disk, stored, landed, faults>>
       \/ BarrierFails /\ pc' = "idle" /\ UNCHANGED <<publication, image>>
    /\ UNCHANGED <<policy, root, work, crashes>>

\* The barrier after the superblock, the adoption, and the completion of the commit.
PublishBarrier ==
    /\ pc = "publish"
    /\ \/ /\ BarrierSucceeds
          /\ root' = image
          /\ \/ /\ publication' = "Ready" /\ pc' = "idle"
                /\ returned' = returned \cup taken
                /\ UNCHANGED faults
             \/ Faulty /\ publication' = "Published" /\ pc' = "recover" /\ UNCHANGED returned
       \/ BarrierFails /\ pc' = "recover" /\ UNCHANGED <<publication, root, returned>>
    /\ UNCHANGED <<policy, image, tree, built, staged, edits, taken, crashes>>

\* The failed commit tries to recover at once and ignores the outcome.
RecoverQuietly ==
    /\ pc = "recover"
    /\ pc' = "idle"
    /\ \/ Recovers /\ UNCHANGED faults
       \/ RecoveryFails
    /\ UNCHANGED <<policy, publication, image, queued, onDisk, work, landed, crashes>>

(***************************************************************************)
(* The end of a session.  The last handle's drop issues what is queued;    *)
(* a process that dies does not.                                           *)
(***************************************************************************)
SessionEnds ==
    /\ pc' = "closed"
    /\ UNCHANGED <<policy, publication, root, image, tree, built, edits, taken, returned>>

Lost(kept) == [r \in DOMAIN pages |-> IF pages[r] \in kept \cup {"none"} THEN pages[r] ELSE "lost"]

Drop ==
    /\ pc = "idle"
    /\ \/ BarrierSucceeds /\ UNCHANGED faults
       \/ BarrierFails
    /\ staged' = {}
    /\ SessionEnds
    /\ UNCHANGED crashes

Crash ==
    /\ pc # "closed"
    /\ crashes < MaxCrashes /\ crashes' = crashes + 1
    /\ pages' = Lost({"issued", "durable"})
    /\ queued' = None /\ staged' = {}
    /\ SessionEnds
    /\ UNCHANGED <<disk, stored, landed, faults>>

PowerFails ==
    /\ pc # "closed"
    /\ policy = "Always"
    /\ crashes < MaxCrashes /\ crashes' = crashes + 1
    /\ disk' \in stored
    /\ stored' = {disk'}
    /\ pages' = Lost({"durable"})
    /\ landed' = IF disk' = Torn THEN {} ELSE tree[disk']
    /\ queued' = None /\ staged' = {}
    /\ SessionEnds
    /\ UNCHANGED faults

\* A file whose superblock is torn is not opened.
Reopen ==
    /\ pc = "closed" /\ disk # Torn
    /\ pc' = "idle" /\ publication' = "Ready"
    /\ root' = disk /\ image' = disk /\ queued' = None
    /\ UNCHANGED <<policy, onDisk, work, landed, faults, crashes>>

PagesNext ==
    \/ Stage \/ ForceSync \/ Commit
    \/ SettleBarrier \/ CompletePagePublication
    \/ ApplyNothing \/ Apply
    \/ ContentBarrier \/ PublishBarrier \/ RecoverQuietly
    \/ Drop \/ Crash \/ PowerFails \/ Reopen

PagesSpec == PagesInit /\ [][PagesNext]_pageVars

(***************************************************************************)
(* Properties.                                                             *)
(***************************************************************************)

(***************************************************************************)
(* The file never leads to a tree whose pages are missing: not when the    *)
(* process dies at any step of a commit or of a recovery (publish_non-     *)
(* persisting puts the content barrier before the superblock write), and   *)
(* under SyncPolicy::Always not when power fails either.                   *)
(***************************************************************************)
PublishedRootIsComplete ==
    /\ disk # Torn => pages[disk] \in {"issued", "durable"}
    /\ policy = "Always" => \A r \in stored \ {Torn} : pages[r] = "durable"

(***************************************************************************)
(* No commit undoes another: once the file led to a root, a commit that    *)
(* was reported as failed included, every root it leads to later contains  *)
(* the same edits, because commit completes an attempted publication       *)
(* before it builds on the adopted root.  Under Always the edits of a      *)
(* commit that returned Ok are in every root power loss can leave.         *)
(***************************************************************************)
PublishedEditsStay ==
    /\ disk # Torn => landed \cup returned \subseteq tree[disk]
    /\ policy = "Always" => \A r \in stored \ {Torn} : returned \subseteq tree[r]

(***************************************************************************)
(* A failed publication can be completed: while the file differs from the  *)
(* image, a torn superblock included, the missing write is queued and the  *)
(* publication counts as attempted, so that a barrier that succeeds makes  *)
(* recover_page_publication succeed; and outside such an attempt the       *)
(* session works on the root that the file leads to.                       *)
(***************************************************************************)
UnsettledIsRepairable ==
    pc # "closed" =>
        /\ disk # image => queued = image /\ Attempted
        /\ ~Attempted => root = disk /\ queued = None
=============================================================================
