---------------------------- MODULE OpenProtocol ----------------------------
(***************************************************************************)
(* Who may open a file, and what the file says of its writer: the OS lock  *)
(* and the superblock status flags (src/file_lock.rs), the opening paths   *)
(* of editing and SWMR sessions and the crash mark of a page-buffered      *)
(* session (src/edit.rs), and close and drop (src/reader/mod.rs).          *)
(*                                                                         *)
(* The file is a version 3 file.  Its bytes exist twice: as the operating  *)
(* system shows them to every process (osFlags, osTorn), and as a loss of  *)
(* power leaves them (diskFlags, diskTorn).  Of the content only one thing *)
(* is kept: whether it is torn, that is, whether a page buffer has issued  *)
(* some of the writes it held and not others.  A page-buffered session     *)
(* runs under SyncPolicy::OnClose, the only policy set_page_buffer_size    *)
(* accepts.                                                                *)
(***************************************************************************)
CONSTANTS
    Procs,      \* processes that open the file
    Kinds,      \* the sessions they open: subset of {"rw", "paged", "swmr"}
    Lockings,   \* the FileLocking policies they ask for
    NoProc

ASSUME ProcsAssumption == NoProc \notin Procs

VARIABLES
    lockable,   \* the filesystem supports advisory locks
    lock,       \* the process that holds the exclusive lock
    step,       \* the step of opening or closing each process is at
    kind, locking,
    held,       \* WriteEngine.held_status_flags of each session
    dirty,      \* a page-buffered session holds writes in memory
    uncertain,  \* AllocationPublication is Uncertain: edits and syncs are refused
    osFlags, diskFlags,
    osTorn, diskTorn,
    waived,     \* clear_status_flags was called on a torn file
    seen        \* what the last reader without a snapshot opt-in was given

openVars == <<lockable, lock, step, kind, locking, held, dirty, uncertain,
              osFlags, diskFlags, osTorn, diskTorn, waived, seen>>

file == <<osFlags, diskFlags, osTorn, diskTorn>>

Flags(k) == CASE k = "swmr"  -> {"write", "swmr"}
              [] k = "paged" -> {"write"}
              [] OTHER       -> {}

OpenInit ==
    /\ lockable \in BOOLEAN
    /\ lock = NoProc
    /\ step = [p \in Procs |-> "idle"]
    /\ kind = [p \in Procs |-> "rw"]
    /\ locking = [p \in Procs |-> "Enabled"]
    /\ held = [p \in Procs |-> {}]
    /\ dirty = [p \in Procs |-> FALSE]
    /\ uncertain = [p \in Procs |-> FALSE]
    /\ osFlags = {} /\ diskFlags = {}
    /\ osTorn = FALSE /\ diskTorn = FALSE
    /\ waived = FALSE
    /\ seen = "nothing"

Step(p, from, to) == step[p] = from /\ step' = [step EXCEPT ![p] = to]

\* The handle is dropped: its lock goes with it.
Unlock(p) == lock' = IF lock = p THEN NoProc ELSE lock

\* A session ends and forgets what it held in memory.
Ends(p) ==
    /\ step' = [step EXCEPT ![p] = "idle"]
    /\ Unlock(p)
    /\ held' = [held EXCEPT ![p] = {}]
    /\ dirty' = [dirty EXCEPT ![p] = FALSE]
    /\ uncertain' = [uncertain EXCEPT ![p] = FALSE]
    /\ UNCHANGED <<lockable, kind, locking>>

(***************************************************************************)
(* Opening.  open_prepared opens the handle, takes the lock unless the     *)
(* session is a SWMR writer's, then reads the superblock and checks it.    *)
(***************************************************************************)
Open(p, k, l) ==
    /\ Step(p, "idle", IF k = "swmr" THEN "check" ELSE "lock")
    /\ kind' = [kind EXCEPT ![p] = k]
    /\ locking' = [locking EXCEPT ![p] = l]
    /\ UNCHANGED <<lockable, lock, held, dirty, uncertain, file, waived, seen>>

\* Mutant of SkipsLock: contention is tolerated like a missing lock service.
SkipsLockWhenContended(p) == locking[p] # "Enabled"

\* acquire_exclusive goes on without a lock.
SkipsLock(p) == locking[p] = "Disabled" \/ (locking[p] = "BestEffort" /\ ~lockable)

AcquireExclusive(p) ==
    /\ \/ SkipsLock(p) /\ UNCHANGED lock
       \/ ~SkipsLock(p) /\ lockable /\ lock = NoProc /\ lock' = p
    /\ Step(p, "lock", "check")
    /\ UNCHANGED <<lockable, kind, locking, held, dirty, uncertain, file, waived, seen>>

LockRefused(p) ==
    /\ step[p] = "lock"
    /\ ~SkipsLock(p)
    /\ ~lockable \/ lock # NoProc
    /\ Ends(p)
    /\ UNCHANGED <<file, waived, seen>>

\* check_status_flags with OpenIntent::Write.
CheckFlags(p) ==
    /\ step[p] = "check"
    /\ \/ /\ osFlags # {}
          /\ Ends(p)
       \/ /\ osFlags = {}
          /\ Step(p, "check", IF Flags(kind[p]) = {} THEN "edit" ELSE "raise")
          /\ UNCHANGED <<lockable, lock, kind, locking, held, dirty, uncertain>>
    /\ UNCHANGED <<file, waived, seen>>

(***************************************************************************)
(* open_rw_prepared under MemoryStrategy::Auto: a file the bounded engine  *)
(* cannot edit is dropped, lock included, and opened again as a mirror.    *)
(***************************************************************************)
ReopenMirrored(p) ==
    /\ kind[p] = "rw"
    /\ osFlags = {}
    /\ Step(p, "check", "lock")
    /\ Unlock(p)
    /\ kind' = [kind EXCEPT ![p] = "mirrored"]
    /\ UNCHANGED <<lockable, locking, held, dirty, uncertain, file, waived, seen>>

(***************************************************************************)
(* set_consistency_flags: the write reaches the operating system.  The     *)
(* SWMR writer then edits; raise_crash_mark still has to synchronize.      *)
(***************************************************************************)
RaiseFlags(p) ==
    /\ Step(p, "raise", IF kind[p] = "paged" THEN "mark" ELSE "edit")
    /\ osFlags' = Flags(kind[p])
    /\ \/ diskFlags' = osFlags'
       \/ UNCHANGED diskFlags
    /\ held' = [held EXCEPT ![p] = Flags(kind[p])]
    /\ UNCHANGED <<lockable, lock, kind, locking, dirty, uncertain, osTorn, diskTorn, waived, seen>>

\* Mutant of SyncMark: the page buffer is armed before its mark is durable.
SyncMarkSkipped(p) ==
    /\ Step(p, "mark", "edit")
    /\ UNCHANGED <<lockable, lock, kind, locking, held, dirty, uncertain, file, waived, seen>>

\* raise_crash_mark synchronizes before the buffering mode changes.
SyncMark(p) ==
    /\ Step(p, "mark", "edit")
    /\ diskFlags' = osFlags
    /\ UNCHANGED <<lockable, lock, kind, locking, held, dirty, uncertain, osFlags, osTorn, diskTorn,
                   waived, seen>>

\* Either step of raising fails: the open fails, and clearing again may fail too.
RaiseFails(p) ==
    /\ step[p] \in {"raise", "mark"}
    /\ \/ osFlags' \in {osFlags, Flags(kind[p])}
       \/ kind[p] = "paged" /\ osFlags' = {}
    /\ Ends(p)
    /\ UNCHANGED <<diskFlags, osTorn, diskTorn, waived, seen>>

(***************************************************************************)
(* Editing.                                                                *)
(***************************************************************************)

\* The status flags of the superblocks a session publishes: those it holds.
SuperblockFlags(p) == held[p]

\* A page-buffered session writes; its commits are no durability points.
BufferWrite(p) ==
    /\ step[p] = "edit"
    /\ kind[p] = "paged"
    /\ ~uncertain[p]
    /\ dirty' = [dirty EXCEPT ![p] = TRUE]
    /\ UNCHANGED <<lockable, lock, step, kind, locking, held, uncertain, file, waived, seen>>

\* The buffer exceeds its budget and issues some of its pages, in no useful order.
Drain(p) ==
    /\ step[p] = "edit"
    /\ dirty[p]
    /\ osTorn' = TRUE
    /\ osFlags' \in {osFlags, SuperblockFlags(p)}
    /\ UNCHANGED <<lockable, lock, step, kind, locking, held, dirty, uncertain, diskFlags, diskTorn,
                   waived, seen>>

\* A commit of an unbuffered session, or an append of the SWMR writer.
Publish(p) ==
    /\ step[p] = "edit"
    /\ kind[p] # "paged"
    /\ ~uncertain[p]
    /\ osFlags' = SuperblockFlags(p)
    /\ \/ diskFlags' = osFlags' \/ UNCHANGED diskFlags
    /\ UNCHANGED <<lockable, lock, step, kind, locking, held, dirty, uncertain, osTorn, diskTorn,
                   waived, seen>>

(***************************************************************************)
(* force_sync.  Every held write is issued and made durable, which repairs *)
(* what the session itself tore.  A failure may come after some of them;   *)
(* the session is then uncertain and its queued writes are discarded.      *)
(***************************************************************************)
Synced(p) ==
    /\ ~uncertain[p]
    /\ dirty' = [dirty EXCEPT ![p] = FALSE]
    /\ osFlags' = IF dirty[p] THEN SuperblockFlags(p) ELSE osFlags
    /\ diskFlags' = osFlags'
    /\ osTorn' = (osTorn /\ ~dirty[p])
    /\ diskTorn' = osTorn'
    /\ UNCHANGED <<lockable, lock, kind, locking, held, uncertain, waived, seen>>

Sync(p) ==
    /\ Step(p, "edit", "edit")
    /\ Synced(p)

SyncFails(p) ==
    /\ step[p] = "edit"
    /\ ~uncertain[p]
    /\ uncertain' = [uncertain EXCEPT ![p] = TRUE]
    /\ dirty' = [dirty EXCEPT ![p] = FALSE]
    /\ osTorn' \in {osTorn, osTorn \/ dirty[p]}
    /\ UNCHANGED <<lockable, lock, step, kind, locking, held, osFlags, diskFlags, diskTorn, waived, seen>>

(***************************************************************************)
(* close and FileInner::drop: the flags are taken down after the last      *)
(* synchronization, and not at all when it fails.                          *)
(***************************************************************************)
Close(p) ==
    /\ Step(p, "edit", "release")
    /\ Synced(p)

DropUnsynced(p) ==
    /\ step[p] = "edit"
    /\ uncertain[p]
    /\ Ends(p)
    /\ UNCHANGED <<file, waived, seen>>

\* release_status_flags: a no-op for a session that raised none.
ReleaseFlags(p) ==
    /\ step[p] = "release"
    /\ \/ held[p] = {} /\ UNCHANGED <<osFlags, diskFlags>>
       \/ held[p] # {} /\ osFlags' = {} /\ diskFlags' = {}
    /\ Ends(p)
    /\ UNCHANGED <<osTorn, diskTorn, waived, seen>>

\* It fails before, between or after the write and its synchronization.
ReleaseFails(p) ==
    /\ step[p] = "release"
    /\ held[p] # {}
    /\ osFlags' \in {osFlags, {}}
    /\ Ends(p)
    /\ UNCHANGED <<diskFlags, osTorn, diskTorn, waived, seen>>

(***************************************************************************)
(* Readers.  A file at rest is read in one step; Read refuses either bit,  *)
(* SwmrRead a mismatched pair.                                             *)
(***************************************************************************)
\* Mutant of ReadRefused: only the SWMR pair is refused.
ReadRefusedSwmrOnly == "swmr" \in osFlags

ReadRefused == osFlags # {}

SwmrReadRefused == ("write" \in osFlags) # ("swmr" \in osFlags)

ReaderOpens ==
    /\ ~ReadRefused \/ ~SwmrReadRefused
    /\ seen' = IF osTorn THEN "torn" ELSE "whole"
    /\ UNCHANGED <<lockable, lock, step, kind, locking, held, dirty, uncertain, file, waived>>

(***************************************************************************)
(* clear_status_flags_at takes the lock for its duration.  Its caller      *)
(* vouches that a SWMR writer, which holds no lock, has stopped; and the   *)
(* call does not repair a torn file.                                       *)
(***************************************************************************)
ClearStatusFlags ==
    /\ lockable /\ lock = NoProc
    /\ \A p \in Procs : kind[p] = "swmr" => step[p] = "idle"
    /\ osFlags # {}
    /\ osFlags' = {}
    /\ diskFlags' = {}
    /\ waived' = (waived \/ osTorn \/ diskTorn)
    /\ UNCHANGED <<lockable, lock, step, kind, locking, held, dirty, uncertain, osTorn, diskTorn, seen>>

(***************************************************************************)
(* The operating system writes its pages back when it likes, in any order. *)
(* A process may die at any point, and the machine may lose power.         *)
(***************************************************************************)
WriteBackFlags ==
    /\ diskFlags' = osFlags
    /\ UNCHANGED <<lockable, lock, step, kind, locking, held, dirty, uncertain, osFlags, osTorn, diskTorn,
                   waived, seen>>

WriteBackContent ==
    /\ diskTorn' = osTorn
    /\ UNCHANGED <<lockable, lock, step, kind, locking, held, dirty, uncertain, osFlags, diskFlags, osTorn,
                   waived, seen>>

ProcessDies(p) ==
    /\ step[p] # "idle"
    /\ Ends(p)
    /\ UNCHANGED <<file, waived, seen>>

PowerLoss ==
    /\ step' = [p \in Procs |-> "idle"]
    /\ lock' = NoProc
    /\ held' = [p \in Procs |-> {}]
    /\ dirty' = [p \in Procs |-> FALSE]
    /\ uncertain' = [p \in Procs |-> FALSE]
    /\ osFlags' = diskFlags
    /\ osTorn' = diskTorn
    /\ UNCHANGED <<lockable, kind, locking, diskFlags, diskTorn, waived, seen>>

OpenNext ==
    \/ \E p \in Procs :
         \/ \E k \in Kinds, l \in Lockings : Open(p, k, l)
         \/ AcquireExclusive(p) \/ LockRefused(p) \/ CheckFlags(p) \/ ReopenMirrored(p)
         \/ RaiseFlags(p) \/ SyncMark(p) \/ RaiseFails(p)
         \/ BufferWrite(p) \/ Drain(p) \/ Publish(p) \/ Sync(p) \/ SyncFails(p)
         \/ Close(p) \/ DropUnsynced(p) \/ ReleaseFlags(p) \/ ReleaseFails(p)
         \/ ProcessDies(p)
    \/ ReaderOpens
    \/ ClearStatusFlags
    \/ WriteBackFlags
    \/ WriteBackContent
    \/ PowerLoss

OpenSpec == OpenInit /\ [][OpenNext]_openVars

(***************************************************************************)
(* Properties.                                                             *)
(***************************************************************************)

Writing(p) == step[p] \in {"edit", "release"}

(***************************************************************************)
(* Two editing sessions that ask for a lock are never open at once where   *)
(* the filesystem has locks: not through the reopening of                  *)
(* open_rw_prepared, a refused open, a crash, or clear_status_flags.       *)
(***************************************************************************)
LockedSessionsExclude ==
    \A p, q \in Procs :
        /\ lockable
        /\ Writing(p) /\ kind[p] # "swmr" /\ locking[p] # "Disabled"
        /\ Writing(q) /\ kind[q] # "swmr" /\ locking[q] # "Disabled"
        => p = q

(***************************************************************************)
(* Torn content is marked: as the operating system shows the file and as a *)
(* loss of power would leave it, whatever order pages were written back    *)
(* in, until somebody waives the mark with clear_status_flags              *)
(* (raise_crash_mark and release_status_flags, whose synchronizations "no  *)
(* test here can see").  Without locks a second session may overlap.       *)
(***************************************************************************)
TornContentIsMarked ==
    lockable => /\ osTorn => osFlags # {} \/ waived
                /\ diskTorn => diskFlags # {} \/ waived

\* No reader without the snapshot opt-in is given torn content (check_status_flags).
ReadersRefuseTornContent == lockable /\ seen = "torn" => waived

(***************************************************************************)
(* A SWMR writer is the only writer of its file (File::open_swmr_writer:   *)
(* the refusal of a marked file "is what keeps a second writer off a file  *)
(* SWMR gives only one").                                                  *)
(***************************************************************************)
SwmrWriterIsAlone ==
    \A p, q \in Procs : Writing(p) /\ kind[p] = "swmr" /\ Writing(q) => p = q
=============================================================================
