--------------------------- MODULE SessionProofs ----------------------------
(***************************************************************************)
(* What a session holds while it edits a file, the lock and the marks      *)
(* under which it opened it and the storage of its immediate appends, and  *)
(* what the publications of a PAGE file lead to.                           *)
(***************************************************************************)
EXTENDS OpenProtocol, AllocationPublication, PagePublication, TLAPS

(***************************************************************************)
(* Locked sessions exclude each other, and torn content is marked until    *)
(* clear_status_flags waives the mark, for every set of processes.         *)
(*                                                                         *)
(* Why the checked invariants are not inductive: that torn content is      *)
(* marked rests on the marked session being alone, on its mark being       *)
(* durable before it may tear anything, and on what it tore being repaired *)
(* before the mark is taken down.  Alone, Marks and Clean say so.          *)
(***************************************************************************)

Steps == {"idle", "lock", "check", "raise", "mark", "edit", "release"}

Active(p) == step[p] \in {"check", "raise", "mark", "edit", "release"}

\* Every session past acquire_exclusive that asked for a lock holds it.
Alone ==
    \A p \in Procs :
        lockable /\ Active(p) /\ kind[p] # "swmr" /\ locking[p] # "Disabled" => lock = p

OpeningTypeOK ==
    /\ step \in [Procs -> Steps]
    /\ kind \in [Procs -> Kinds \cup {"rw", "mirrored"}]
    /\ locking \in [Procs -> Lockings \cup {"Enabled"}]
    /\ held \in [Procs -> {{}, {"write"}, {"write", "swmr"}}]
    /\ dirty \in [Procs -> BOOLEAN]
    /\ uncertain \in [Procs -> BOOLEAN]
    /\ lock \in Procs \cup {NoProc}

LockInv == OpeningTypeOK /\ Alone

\* The file is whole, or its mark was waived.
Clean == osTorn => waived

\* The mark of a page-buffered session: raised, then durable, until it is released.
Marks(p) ==
    /\ step[p] \in {"idle", "lock", "check", "raise"} => held[p] = {}
    /\ step[p] \in {"mark", "edit", "release"} => held[p] = Flags(kind[p])
    /\ step[p] \in {"raise", "mark"} => kind[p] = "paged"
    /\ step[p] \in {"mark", "edit", "release"} /\ kind[p] = "paged" => osFlags = {"write"}
    /\ step[p] \in {"edit", "release"} /\ kind[p] = "paged" => diskFlags = {"write"}

\* Content is torn only while a page-buffered session edits, which holds the repair or has failed.
Tears(p) ==
    /\ step[p] \in {"raise", "mark", "release"} => Clean
    /\ step[p] = "edit" => Clean \/ dirty[p] \/ uncertain[p]
    /\ step[p] = "edit" /\ kind[p] # "paged" => Clean
    /\ dirty[p] => step[p] = "edit" /\ kind[p] = "paged"

\* What the file says of its content, as it is seen and as power loss leaves it.
FileSays ==
    /\ osFlags \in {{}, {"write"}} /\ diskFlags \in {{}, {"write"}}
    /\ diskTorn => osTorn
    /\ Clean \/ (osFlags = {"write"} /\ diskFlags = {"write"})
    /\ seen = "torn" => waived

\* The sessions of this file take its lock.
Locked == lockable /\ Kinds \subseteq {"rw", "paged"} /\ "Disabled" \notin Lockings

MarkInv == (\A p \in Procs : Marks(p) /\ Tears(p)) /\ FileSays

OpeningInv == LockInv /\ (Locked => MarkInv)

LEMMA InitLocks == OpenInit => LockInv
  BY DEF OpenInit, LockInv, OpeningTypeOK, Alone, Active, Steps

LEMMA EndLocks == ASSUME LockInv, NEW p \in Procs, Ends(p) PROVE LockInv'
  <1>1. OpeningTypeOK'
    BY Zenon DEF Ends, Unlock, LockInv, OpeningTypeOK, Steps
  <1>2. Alone'
    BY Zenon DEF Ends, Unlock, LockInv, OpeningTypeOK, Alone, Active
  <1> QED BY <1>1, <1>2, Zenon DEF LockInv

\* A session that goes on and keeps its lock.
LEMMA StepLocks ==
    ASSUME LockInv, NEW p \in Procs,
           NEW from \in {"check", "raise", "mark", "edit"},
           NEW to \in {"raise", "mark", "edit", "release"},
           Step(p, from, to),
           UNCHANGED <<lockable, lock, kind, locking>>,
           held' \in [Procs -> {{}, {"write"}, {"write", "swmr"}}],
           dirty' \in [Procs -> BOOLEAN], uncertain' \in [Procs -> BOOLEAN]
    PROVE  LockInv'
  <1>1. OpeningTypeOK'
    BY Zenon DEF Step, LockInv, OpeningTypeOK, Steps
  <1>2. Alone'
    BY Zenon DEF Step, LockInv, OpeningTypeOK, Alone, Active
  <1> QED BY <1>1, <1>2, Zenon DEF LockInv

LEMMA OpenLocks ==
    ASSUME LockInv, NEW p \in Procs, NEW k \in Kinds, NEW l \in Lockings, Open(p, k, l)
    PROVE  LockInv'
  <1>1. OpeningTypeOK'
    BY Zenon DEF Open, Step, LockInv, OpeningTypeOK, Steps
  <1>2. Alone'
    BY Zenon DEF Open, Step, LockInv, OpeningTypeOK, Alone, Active
  <1> QED BY <1>1, <1>2, Zenon DEF LockInv

LEMMA AcquireLocks == ASSUME LockInv, NEW p \in Procs, AcquireExclusive(p) PROVE LockInv'
  <1>1. OpeningTypeOK'
    BY Zenon DEF AcquireExclusive, Step, LockInv, OpeningTypeOK, Steps
  <1>2. Alone'
    BY ProcsAssumption DEF AcquireExclusive, SkipsLock, Step, LockInv, OpeningTypeOK, Alone, Active
  <1> QED BY <1>1, <1>2, Zenon DEF LockInv

LEMMA ReopenLocks == ASSUME LockInv, NEW p \in Procs, ReopenMirrored(p) PROVE LockInv'
  <1>1. OpeningTypeOK'
    BY Zenon DEF ReopenMirrored, Unlock, Step, LockInv, OpeningTypeOK, Steps
  <1>2. Alone'
    BY Zenon DEF ReopenMirrored, Unlock, Step, LockInv, OpeningTypeOK, Alone, Active
  <1> QED BY <1>1, <1>2, Zenon DEF LockInv

\* Steps of a session that keep its step and its lock.
LEMMA WorkLocks ==
    ASSUME LockInv, UNCHANGED <<lockable, lock, step, kind, locking, held>>,
           dirty' \in [Procs -> BOOLEAN], uncertain' \in [Procs -> BOOLEAN]
    PROVE  LockInv'
  BY Zenon DEF LockInv, OpeningTypeOK, Alone, Active

LEMMA LossLocks == LockInv /\ PowerLoss => LockInv'
  BY DEF LockInv, OpeningTypeOK, Alone, Active, Steps, PowerLoss

LEMMA NextLocks == LockInv /\ [OpenNext]_openVars => LockInv'
  <1> SUFFICES ASSUME LockInv, [OpenNext]_openVars PROVE LockInv'
    BY Zenon
  <1>1. dirty \in [Procs -> BOOLEAN] /\ uncertain \in [Procs -> BOOLEAN]
        /\ held \in [Procs -> {{}, {"write"}, {"write", "swmr"}}]
    BY Zenon DEF LockInv, OpeningTypeOK
  <1>2. ASSUME NEW p \in Procs, NEW k \in Kinds, NEW l \in Lockings, Open(p, k, l) PROVE LockInv'
    BY <1>2, OpenLocks, Zenon
  <1>3. ASSUME NEW p \in Procs, AcquireExclusive(p) \/ ReopenMirrored(p) PROVE LockInv'
    BY <1>3, AcquireLocks, ReopenLocks, Zenon
  <1>4. ASSUME NEW p \in Procs,
               LockRefused(p) \/ RaiseFails(p) \/ DropUnsynced(p) \/ ReleaseFlags(p)
                 \/ ReleaseFails(p) \/ ProcessDies(p)
        PROVE  LockInv'
    BY <1>4, EndLocks, Zenon DEF LockRefused, RaiseFails, DropUnsynced, ReleaseFlags, ReleaseFails, ProcessDies
  <1>5. ASSUME NEW p \in Procs, CheckFlags(p) PROVE LockInv'
    <2>1. CASE Ends(p)
      BY <2>1, EndLocks, Zenon
    <2>2. CASE /\ Step(p, "check", IF Flags(kind[p]) = {} THEN "edit" ELSE "raise")
               /\ UNCHANGED <<lockable, lock, kind, locking, held, dirty, uncertain>>
      BY <1>1, <2>2, StepLocks, Zenon
    <2> QED BY <1>5, <2>1, <2>2, Zenon DEF CheckFlags
  <1>6. ASSUME NEW p \in Procs, RaiseFlags(p) PROVE LockInv'
    <2>1. held' \in [Procs -> {{}, {"write"}, {"write", "swmr"}}]
      BY <1>1, <1>6, Zenon DEF RaiseFlags, Flags
    <2> QED BY <1>1, <1>6, <2>1, StepLocks, Zenon DEF RaiseFlags
  <1>7. ASSUME NEW p \in Procs, SyncMark(p) PROVE LockInv'
    BY <1>1, <1>7, StepLocks, Zenon DEF SyncMark
  <1>8. ASSUME NEW p \in Procs, BufferWrite(p) \/ Drain(p) \/ Publish(p) \/ SyncFails(p) PROVE LockInv'
    <2>1. dirty' \in [Procs -> BOOLEAN] /\ uncertain' \in [Procs -> BOOLEAN]
      BY Zenon, <1>1, <1>8 DEF BufferWrite, Drain, Publish, SyncFails
    <2> QED BY <1>8, <2>1, WorkLocks, Zenon DEF BufferWrite, Drain, Publish, SyncFails
  <1>9. ASSUME NEW p \in Procs, Sync(p) \/ Close(p) PROVE LockInv'
    <2>1. dirty' \in [Procs -> BOOLEAN] /\ uncertain' \in [Procs -> BOOLEAN]
      BY Zenon, <1>1, <1>9 DEF Sync, Close, Synced
    <2> QED BY <1>1, <1>9, <2>1, StepLocks, Zenon DEF Sync, Close, Synced
  <1>10. CASE ReaderOpens \/ ClearStatusFlags \/ WriteBackFlags \/ WriteBackContent
    BY <1>1, <1>10, WorkLocks, Zenon DEF ReaderOpens, ClearStatusFlags, WriteBackFlags, WriteBackContent
  <1>11. CASE UNCHANGED openVars
    BY <1>1, <1>11, WorkLocks, Zenon DEF openVars
  <1> QED BY <1>2, <1>3, <1>4, <1>5, <1>6, <1>7, <1>8, <1>9, <1>10, <1>11, LossLocks, Zenon DEF OpenNext

LEMMA LocksHold == OpenSpec => []LockInv
  BY InitLocks, NextLocks, PTL DEF OpenSpec

(***************************************************************************)
(* Two editing sessions that ask for a lock are never open at once where   *)
(* the filesystem has locks: open_prepared takes the lock before it reads  *)
(* the file and gives it up only when the handle is dropped, a reopening   *)
(* by open_rw_prepared included.                                           *)
(***************************************************************************)
THEOREM LockExcludes == OpenSpec => []LockedSessionsExclude
  <1>1. LockInv => LockedSessionsExclude
    BY Zenon DEF LockInv, Alone, Active, LockedSessionsExclude, Writing
  <1> QED BY <1>1, LocksHold, PTL

LEMMA FlagsOf == Flags("paged") = {"write"} /\ Flags("rw") = {} /\ Flags("mirrored") = {}
  BY Zenon DEF Flags

LEMMA KindsOf ==
    ASSUME LockInv, Locked, NEW p \in Procs
    PROVE  kind[p] \in {"rw", "paged", "mirrored"} /\ locking[p] # "Disabled"
  BY Zenon DEF LockInv, OpeningTypeOK, Locked

\* At most one session is past acquire_exclusive.
LEMMA OneIsActive ==
    ASSUME LockInv, Locked, NEW p \in Procs, NEW q \in Procs, Active(p), Active(q)
    PROVE  p = q
  BY KindsOf, Zenon DEF LockInv, Alone, Locked

\* Sessions before their check hold nothing.
LEMMA NobodyActive ==
    ASSUME \A p \in Procs : step'[p] \in {"idle", "lock", "check"} /\ ~dirty'[p] /\ held'[p] = {}
    PROVE  \A p \in Procs : Marks(p)' /\ Tears(p)'
  BY Zenon DEF Marks, Tears

\* The steps of the one active session leave the others where they are.
LEMMA OthersWait ==
    ASSUME LockInv, Locked, MarkInv, NEW p \in Procs, Active(p), Marks(p)', Tears(p)',
           \A q \in Procs \ {p} : step'[q] = step[q] /\ dirty'[q] = dirty[q] /\ held'[q] = held[q]
    PROVE  \A q \in Procs : Marks(q)' /\ Tears(q)'
  <1> SUFFICES ASSUME NEW q \in Procs, q # p PROVE Marks(q)' /\ Tears(q)'
    BY Zenon
  <1>1. step[q] \in {"idle", "lock"}
    BY OneIsActive DEF Active, LockInv, OpeningTypeOK, Steps
  <1>2. ~dirty[q] /\ held[q] = {}
    BY <1>1, Zenon DEF MarkInv, Tears, Marks
  <1> QED BY <1>1, <1>2, Zenon DEF Marks, Tears

\* A session that ends was the active one, or never came so far.
LEMMA EndsQuietly ==
    ASSUME LockInv, Locked, MarkInv, NEW p \in Procs, Active(p), Ends(p)
    PROVE  \A q \in Procs : Marks(q)' /\ Tears(q)'
  <1>1. step'[p] = "idle" /\ ~dirty'[p] /\ held'[p] = {}
    BY Zenon DEF Ends, LockInv, OpeningTypeOK
  <1>2. \A q \in Procs \ {p} : step'[q] = step[q] /\ dirty'[q] = dirty[q] /\ held'[q] = held[q]
    BY Zenon DEF Ends, LockInv, OpeningTypeOK
  <1>3. Marks(p)' /\ Tears(p)'
    BY <1>1, Zenon DEF Marks, Tears
  <1> QED BY <1>2, <1>3, OthersWait, Zenon

\* A session that waits for the lock, or gives up, changes nothing for the others.
LEMMA WaitsQuietly ==
    ASSUME LockInv, MarkInv, NEW p \in Procs, UNCHANGED <<file, waived, seen>>,
           step'[p] \in {"idle", "lock", "check"}, ~dirty'[p], held'[p] = {},
           \A q \in Procs \ {p} :
              /\ step'[q] = step[q] /\ dirty'[q] = dirty[q] /\ uncertain'[q] = uncertain[q]
              /\ held'[q] = held[q] /\ kind'[q] = kind[q]
    PROVE  MarkInv'
  <1>1. ASSUME NEW q \in Procs PROVE Marks(q)' /\ Tears(q)'
    <2>1. CASE q = p
      BY <2>1, Zenon DEF Marks, Tears
    <2>2. CASE q # p
      BY <2>2, Zenon DEF MarkInv, Marks, Tears, Clean, file
    <2> QED BY <2>1, <2>2, Zenon
  <1>2. FileSays'
    BY Zenon DEF MarkInv, FileSays, Clean, file
  <1> QED BY <1>1, <1>2, Zenon DEF MarkInv

LEMMA OpeningMarks ==
    ASSUME LockInv, Locked, MarkInv, NEW p \in Procs,
           \/ \E k \in Kinds, l \in Lockings : Open(p, k, l)
           \/ AcquireExclusive(p) \/ LockRefused(p) \/ ReopenMirrored(p)
    PROVE  MarkInv'
  <1>1. step[p] \in {"idle", "lock", "check"} /\ ~dirty[p] /\ held[p] = {}
    <2>1. step[p] \in {"idle", "lock", "check"}
      BY Zenon DEF Open, AcquireExclusive, LockRefused, ReopenMirrored, Step
    <2> QED BY <2>1, Zenon DEF MarkInv, Tears, Marks
  <1>2. step'[p] \in {"idle", "lock", "check"} /\ ~dirty'[p] /\ held'[p] = {}
    BY <1>1, Zenon DEF Open, AcquireExclusive, LockRefused, ReopenMirrored, Step, Ends, LockInv, OpeningTypeOK
  <1>3. UNCHANGED <<file, waived, seen>>
    BY Zenon DEF Open, AcquireExclusive, LockRefused, ReopenMirrored
  <1>4. \A q \in Procs \ {p} :
          /\ step'[q] = step[q] /\ dirty'[q] = dirty[q] /\ uncertain'[q] = uncertain[q]
          /\ held'[q] = held[q] /\ kind'[q] = kind[q]
    BY DEF Open, AcquireExclusive, LockRefused, ReopenMirrored, Step, Ends, LockInv, OpeningTypeOK
  <1> QED BY <1>2, <1>3, <1>4, WaitsQuietly, Zenon

LEMMA CheckMarks == ASSUME LockInv, Locked, MarkInv, NEW p \in Procs, CheckFlags(p) PROVE MarkInv'
  <1>1. Active(p) /\ UNCHANGED <<file, waived, seen>>
    BY Zenon DEF CheckFlags, Active
  <1>2. FileSays'
    BY <1>1, Zenon DEF MarkInv, FileSays, Clean, file
  <1>3. CASE Ends(p)
    BY <1>1, <1>2, <1>3, EndsQuietly, Zenon DEF MarkInv
  <1>4. CASE /\ osFlags = {}
             /\ Step(p, "check", IF Flags(kind[p]) = {} THEN "edit" ELSE "raise")
             /\ UNCHANGED <<lockable, lock, kind, locking, held, dirty, uncertain>>
    <2>1. Clean' /\ ~dirty[p]
      BY <1>1, <1>4, Zenon DEF MarkInv, FileSays, Tears, Clean, Step, file
    <2>2. \/ kind[p] = "paged" /\ step'[p] = "raise"
          \/ kind[p] # "paged" /\ Flags(kind[p]) = {} /\ step'[p] = "edit"
      <3>1. step'[p] = IF Flags(kind[p]) = {} THEN "edit" ELSE "raise"
        BY <1>4, Zenon DEF Step, LockInv, OpeningTypeOK
      <3>2. CASE kind[p] = "paged"
        BY <3>1, <3>2, FlagsOf, Zenon
      <3>3. CASE kind[p] # "paged"
        BY <3>1, <3>3, FlagsOf, KindsOf, Zenon
      <3> QED BY <3>2, <3>3, Zenon
    <2>3. held[p] = {}
      BY <1>4, Zenon DEF MarkInv, Marks, Step
    <2>4. Marks(p)' /\ Tears(p)'
      BY <1>4, <2>1, <2>2, <2>3, Zenon DEF Marks, Tears, Step
    <2>5. \A q \in Procs \ {p} : step'[q] = step[q] /\ dirty'[q] = dirty[q] /\ held'[q] = held[q]
      BY <1>4, Zenon DEF Step, LockInv, OpeningTypeOK
    <2> QED BY <1>1, <1>2, <2>4, <2>5, OthersWait, Zenon DEF MarkInv
  <1> QED BY <1>3, <1>4, Zenon DEF CheckFlags

LEMMA RaiseMarks == ASSUME LockInv, Locked, MarkInv, NEW p \in Procs, RaiseFlags(p) PROVE MarkInv'
  <1>1. step[p] = "raise" /\ Active(p) /\ kind[p] = "paged" /\ Clean /\ ~dirty[p]
    BY Zenon DEF RaiseFlags, Step, Active, MarkInv, Marks, Tears
  <1>2. /\ step'[p] = "mark" /\ kind'[p] = "paged" /\ held'[p] = {"write"} /\ osFlags' = {"write"}
        /\ diskFlags' \in {{"write"}, diskFlags} /\ Clean' /\ ~dirty'[p]
        /\ UNCHANGED <<osTorn, diskTorn, waived, seen>>
    BY <1>1, FlagsOf, Zenon DEF RaiseFlags, Step, LockInv, OpeningTypeOK, Clean
  <1>3. Marks(p)' /\ Tears(p)'
    BY <1>2, FlagsOf, Zenon DEF Marks, Tears
  <1>4. FileSays'
    BY <1>2, Zenon DEF MarkInv, FileSays
  <1>5. \A q \in Procs \ {p} : step'[q] = step[q] /\ dirty'[q] = dirty[q] /\ held'[q] = held[q]
    BY Zenon DEF RaiseFlags, Step, LockInv, OpeningTypeOK
  <1> QED BY <1>1, <1>3, <1>4, <1>5, OthersWait, Zenon DEF MarkInv

LEMMA SyncMarkMarks == ASSUME LockInv, Locked, MarkInv, NEW p \in Procs, SyncMark(p) PROVE MarkInv'
  <1>1. step[p] = "mark" /\ Active(p) /\ kind[p] = "paged" /\ Clean /\ ~dirty[p]
        /\ osFlags = {"write"} /\ held[p] = {"write"}
    BY FlagsOf, Zenon DEF SyncMark, Step, Active, MarkInv, Marks, Tears
  <1>2. /\ step'[p] = "edit" /\ diskFlags' = {"write"} /\ Clean' /\ ~dirty'[p]
        /\ UNCHANGED <<kind, held, osFlags, osTorn, diskTorn, waived, seen>>
    BY <1>1, Zenon DEF SyncMark, Step, LockInv, OpeningTypeOK, Clean
  <1>3. Marks(p)' /\ Tears(p)'
    BY <1>1, <1>2, FlagsOf, Zenon DEF Marks, Tears
  <1>4. FileSays'
    BY <1>1, <1>2, Zenon DEF MarkInv, FileSays
  <1>5. \A q \in Procs \ {p} : step'[q] = step[q] /\ dirty'[q] = dirty[q] /\ held'[q] = held[q]
    BY Zenon DEF SyncMark, Step, LockInv, OpeningTypeOK
  <1> QED BY <1>1, <1>3, <1>4, <1>5, OthersWait, Zenon DEF MarkInv

LEMMA EndingMarks ==
    ASSUME LockInv, Locked, MarkInv, NEW p \in Procs,
           RaiseFails(p) \/ DropUnsynced(p) \/ ReleaseFlags(p) \/ ReleaseFails(p)
    PROVE  MarkInv'
  <1>1. Active(p) /\ Ends(p)
    BY Zenon DEF RaiseFails, DropUnsynced, ReleaseFlags, ReleaseFails, Active
  <1>2. CASE DropUnsynced(p)
    BY <1>1, <1>2, EndsQuietly, Zenon DEF DropUnsynced, MarkInv, FileSays, Clean, file
  <1>3. CASE RaiseFails(p) \/ ReleaseFlags(p) \/ ReleaseFails(p)
    <2>1. /\ Clean /\ UNCHANGED <<osTorn, diskTorn, waived, seen>>
          /\ step[p] \in {"raise", "mark"} => kind[p] = "paged"
      BY <1>3, Zenon DEF RaiseFails, ReleaseFlags, ReleaseFails, MarkInv, Tears, Marks
    <2>2. Clean'
      BY <2>1, Zenon DEF Clean
    <2>3. osFlags' \in {{}, {"write"}} /\ diskFlags' \in {{}, {"write"}}
      BY <1>3, <2>1, FlagsOf, Zenon DEF RaiseFails, ReleaseFlags, ReleaseFails, MarkInv, FileSays
    <2>4. FileSays'
      BY <2>1, <2>2, <2>3, Zenon DEF MarkInv, FileSays
    <2> QED BY <1>1, <2>4, EndsQuietly, Zenon DEF MarkInv
  <1> QED BY <1>2, <1>3, Zenon

LEMMA DiesMarks == ASSUME LockInv, Locked, MarkInv, NEW p \in Procs, ProcessDies(p) PROVE MarkInv'
  <1>1. CASE Active(p)
    BY <1>1, EndsQuietly, Zenon DEF ProcessDies, MarkInv, FileSays, Clean, file
  <1>2. CASE ~Active(p)
    <2>1. step'[p] = "idle" /\ ~dirty'[p] /\ held'[p] = {}
      BY Zenon DEF ProcessDies, Ends, LockInv, OpeningTypeOK
    <2>2. \A q \in Procs \ {p} :
          /\ step'[q] = step[q] /\ dirty'[q] = dirty[q] /\ uncertain'[q] = uncertain[q]
          /\ held'[q] = held[q] /\ kind'[q] = kind[q]
      BY Zenon DEF ProcessDies, Ends, LockInv, OpeningTypeOK
    <2> QED BY <2>1, <2>2, WaitsQuietly, Zenon DEF ProcessDies
  <1> QED BY <1>1, <1>2, Zenon

\* What holds of a page-buffered session that edits.
LEMMA Editing ==
    ASSUME LockInv, Locked, MarkInv, NEW p \in Procs, step[p] = "edit"
    PROVE  /\ Active(p)
           /\ kind[p] = "paged" => held[p] = {"write"} /\ osFlags = {"write"} /\ diskFlags = {"write"}
           /\ kind[p] # "paged" => held[p] = {} /\ Clean /\ ~dirty[p]
           /\ Clean \/ dirty[p] \/ uncertain[p]
  <1>1. /\ Active(p) /\ held[p] = Flags(kind[p]) /\ (Clean \/ dirty[p] \/ uncertain[p])
        /\ kind[p] = "paged" => osFlags = {"write"} /\ diskFlags = {"write"}
        /\ kind[p] # "paged" => Clean /\ ~dirty[p]
    BY Zenon DEF Active, MarkInv, Marks, Tears
  <1> QED BY <1>1, FlagsOf, KindsOf, Zenon

LEMMA BufferWriteMarks == ASSUME LockInv, Locked, MarkInv, NEW p \in Procs, BufferWrite(p) PROVE MarkInv'
  <1>1. /\ step[p] = "edit" /\ kind[p] = "paged" /\ dirty'[p]
        /\ UNCHANGED <<step, kind, held, uncertain, file, waived, seen>>
        /\ \A q \in Procs \ {p} : dirty'[q] = dirty[q]
    BY Zenon DEF BufferWrite, LockInv, OpeningTypeOK
  <1>2. Marks(p)' /\ Tears(p)'
    BY <1>1, Zenon DEF MarkInv, Marks, Tears, file
  <1>3. FileSays'
    BY <1>1, Zenon DEF MarkInv, FileSays, Clean, file
  <1> QED BY <1>1, <1>2, <1>3, Editing, OthersWait, Zenon DEF MarkInv

LEMMA DrainMarks == ASSUME LockInv, Locked, MarkInv, NEW p \in Procs, Drain(p) PROVE MarkInv'
  <1>1. /\ step[p] = "edit" /\ dirty[p]
        /\ UNCHANGED <<step, kind, held, dirty, uncertain, diskFlags, diskTorn, waived, seen>>
        /\ osFlags' \in {osFlags, held[p]}
    BY Zenon DEF Drain, SuperblockFlags
  <1>2. osTorn'
    BY Zenon DEF Drain
  <1>3. kind[p] = "paged" /\ held[p] = {"write"} /\ osFlags' = {"write"} /\ diskFlags = {"write"}
    <2>1. kind[p] = "paged"
      BY <1>1, Zenon DEF MarkInv, Tears
    <2> QED BY <1>1, <2>1, Editing, Zenon
  <1>4. Marks(p)' /\ Tears(p)'
    BY <1>1, <1>3, FlagsOf, Zenon DEF Marks, Tears
  <1>5. FileSays'
    BY <1>1, <1>2, <1>3, Zenon DEF MarkInv, FileSays
  <1> QED BY <1>1, <1>4, <1>5, Editing, OthersWait, Zenon DEF MarkInv

LEMMA PublishMarks == ASSUME LockInv, Locked, MarkInv, NEW p \in Procs, Publish(p) PROVE MarkInv'
  <1>1. /\ step[p] = "edit" /\ kind[p] # "paged" /\ osFlags' = held[p]
        /\ diskFlags' \in {osFlags', diskFlags}
        /\ UNCHANGED <<step, kind, held, dirty, uncertain, osTorn, diskTorn, waived, seen>>
    BY Zenon DEF Publish, SuperblockFlags
  <1>2. held[p] = {} /\ Clean' /\ ~dirty[p]
    BY <1>1, Editing, Zenon DEF Clean
  <1>3. Marks(p)' /\ Tears(p)'
    BY <1>1, <1>2, Zenon DEF MarkInv, Marks, Tears
  <1>4. FileSays'
    BY <1>1, <1>2, Zenon DEF MarkInv, FileSays
  <1> QED BY <1>1, <1>3, <1>4, Editing, OthersWait, Zenon DEF MarkInv

LEMMA SyncedMarks ==
    ASSUME LockInv, Locked, MarkInv, NEW p \in Procs, Sync(p) \/ Close(p)
    PROVE  MarkInv'
  <1>1. /\ step[p] = "edit" /\ step'[p] \in {"edit", "release"} /\ ~uncertain[p] /\ ~dirty'[p]
        /\ UNCHANGED <<kind, held, uncertain, waived, seen>>
        /\ osFlags' = (IF dirty[p] THEN held[p] ELSE osFlags) /\ diskFlags' = osFlags'
        /\ \A q \in Procs \ {p} : step'[q] = step[q] /\ dirty'[q] = dirty[q]
    BY Zenon DEF Sync, Close, Synced, SuperblockFlags, Step, LockInv, OpeningTypeOK
  <1>2. (osTorn' => osTorn /\ ~dirty[p]) /\ (diskTorn' => osTorn')
    <2>1. osTorn' = (osTorn /\ ~dirty[p]) /\ diskTorn' = osTorn'
      BY Zenon DEF Sync, Close, Synced
    <2>2. osTorn' => osTorn /\ ~dirty[p]
      BY <2>1, Zenon
    <2>3. diskTorn' => osTorn'
      BY <2>1, Zenon
    <2> QED BY <2>2, <2>3, Zenon
  <1>3. Clean'
    <2>1. Clean \/ dirty[p]
      BY <1>1, Editing, Zenon
    <2> QED BY <1>1, <1>2, <2>1, Zenon DEF Clean
  <1>4. /\ kind[p] = "paged" => osFlags' = {"write"} /\ held[p] = {"write"}
        /\ kind[p] # "paged" => osFlags' = osFlags /\ held[p] = {}
    BY <1>1, Editing, Zenon
  <1>5. Marks(p)' /\ Tears(p)'
    <2>1. held[p] = Flags(kind[p])
      BY <1>1, Zenon DEF MarkInv, Marks
    <2> QED BY <1>1, <1>3, <1>4, <2>1, Zenon DEF Marks, Tears
  <1>6. FileSays'
    BY <1>1, <1>2, <1>3, <1>4, Zenon DEF MarkInv, FileSays
  <1> QED BY <1>1, <1>5, <1>6, Editing, OthersWait, Zenon DEF MarkInv

LEMMA SyncFailsMarks == ASSUME LockInv, Locked, MarkInv, NEW p \in Procs, SyncFails(p) PROVE MarkInv'
  <1>1. /\ step[p] = "edit" /\ uncertain'[p] /\ ~dirty'[p]
        /\ UNCHANGED <<step, kind, held, osFlags, diskFlags, diskTorn, waived, seen>>
        /\ \A q \in Procs \ {p} : dirty'[q] = dirty[q]
    BY Zenon DEF SyncFails, LockInv, OpeningTypeOK
  <1>2. (osTorn' => osTorn \/ dirty[p]) /\ (osTorn => osTorn')
    BY Zenon DEF SyncFails
  <1>3. kind[p] # "paged" => Clean'
    BY <1>1, <1>2, Editing, Zenon DEF Clean
  <1>4. Marks(p)' /\ Tears(p)'
    BY <1>1, <1>3, Zenon DEF MarkInv, Marks, Tears
  <1>5. FileSays'
    BY <1>1, <1>2, <1>3, Editing, Zenon DEF MarkInv, FileSays
  <1> QED BY <1>1, <1>4, <1>5, Editing, OthersWait, Zenon DEF MarkInv

LEMMA ReaderMarks == ASSUME LockInv, Locked, MarkInv, ReaderOpens PROVE MarkInv'
  <1>1. UNCHANGED <<step, kind, held, dirty, uncertain, osFlags, diskFlags, osTorn, diskTorn, waived>>
    BY Zenon DEF ReaderOpens, file
  <1>2. seen' = "torn" => waived
    <2>1. osFlags # {"write"}
      BY Zenon DEF ReaderOpens, ReadRefused, SwmrReadRefused
    <2>2. Clean
      BY <2>1, Zenon DEF MarkInv, FileSays
    <2>3. seen' = "torn" => osTorn
      BY Zenon DEF ReaderOpens
    <2> QED BY <2>2, <2>3, Zenon DEF Clean
  <1>3. FileSays'
    BY <1>1, <1>2, Zenon DEF MarkInv, FileSays, Clean
  <1>4. \A p \in Procs : Marks(p)' /\ Tears(p)'
    BY <1>1, Zenon DEF MarkInv, Marks, Tears, Clean
  <1> QED BY <1>3, <1>4, Zenon DEF MarkInv

LEMMA ClearMarks == ASSUME LockInv, Locked, MarkInv, ClearStatusFlags PROVE MarkInv'
  <1>1. UNCHANGED <<step, kind, held, dirty, uncertain, osTorn, diskTorn, seen>>
        /\ osFlags' = {} /\ diskFlags' = {} /\ lock = NoProc
    BY Zenon DEF ClearStatusFlags
  <1>2. Clean' /\ (waived => waived')
    <2>1. waived' = (waived \/ osTorn \/ diskTorn)
      BY Zenon DEF ClearStatusFlags
    <2>2. (osTorn => waived') /\ (waived => waived')
      BY <2>1, Zenon
    <2> QED BY <1>1, <2>2, Zenon DEF Clean
  <1>3. ASSUME NEW p \in Procs PROVE step'[p] \in {"idle", "lock"} /\ ~dirty'[p] /\ held'[p] = {}
    <2>1. ~Active(p)
      BY <1>1, ProcsAssumption, KindsOf, Zenon DEF LockInv, Alone, Locked
    <2>2. step[p] \in {"idle", "lock"}
      BY <2>1, Zenon DEF Active, LockInv, OpeningTypeOK, Steps
    <2> QED BY <1>1, <2>2, Zenon DEF MarkInv, Marks, Tears
  <1>4. FileSays'
    BY <1>1, <1>2, Zenon DEF MarkInv, FileSays
  <1> QED BY <1>3, <1>4, NobodyActive, Zenon DEF MarkInv

LEMMA WriteBackMarks ==
    ASSUME LockInv, Locked, MarkInv, WriteBackFlags \/ WriteBackContent
    PROVE  MarkInv'
  <1>1. /\ UNCHANGED <<step, kind, held, dirty, uncertain, osFlags, osTorn, waived, seen>>
        /\ diskFlags' \in {osFlags, diskFlags}
    BY Zenon DEF WriteBackFlags, WriteBackContent
  <1>2. diskTorn' => osTorn'
    BY Zenon, <1>1 DEF WriteBackFlags, WriteBackContent, MarkInv, FileSays
  <1>3. FileSays'
    BY <1>1, <1>2, Zenon DEF MarkInv, FileSays, Clean
  <1>4. ASSUME NEW p \in Procs PROVE Marks(p)' /\ Tears(p)'
    BY <1>1, Zenon DEF MarkInv, Marks, Tears, Clean
  <1> QED BY <1>3, <1>4, Zenon DEF MarkInv

LEMMA LossMarks == ASSUME LockInv, Locked, MarkInv, PowerLoss PROVE MarkInv'
  <1>1. \A p \in Procs : step'[p] \in {"idle", "lock", "check"} /\ ~dirty'[p] /\ held'[p] = {}
    BY Zenon DEF PowerLoss
  <1>2. UNCHANGED <<diskFlags, diskTorn, waived, seen>> /\ osFlags' = diskFlags /\ osTorn' = diskTorn
    BY Zenon DEF PowerLoss
  <1>3. FileSays'
    BY <1>2, Zenon DEF MarkInv, FileSays, Clean
  <1> QED BY <1>1, <1>3, NobodyActive, Zenon DEF MarkInv

LEMMA OpeningInitEstablishes == OpenInit => OpeningInv
  <1> SUFFICES ASSUME OpenInit PROVE OpeningInv
    BY Zenon
  <1>1. \A p \in Procs : Marks(p) /\ Tears(p)
    BY Zenon DEF OpenInit, Marks, Tears
  <1>2. FileSays
    BY Zenon DEF OpenInit, FileSays, Clean
  <1> QED BY <1>1, <1>2, InitLocks, Zenon DEF OpeningInv, MarkInv

LEMMA OpeningNextPreserves == OpeningInv /\ [OpenNext]_openVars => OpeningInv'
  <1> SUFFICES ASSUME OpeningInv, [OpenNext]_openVars, Locked' PROVE MarkInv'
    BY NextLocks, Zenon DEF OpeningInv
  <1>1. lockable' = lockable
    BY Zenon DEF OpenNext, openVars, Open, AcquireExclusive, LockRefused, CheckFlags, ReopenMirrored, RaiseFlags,
           SyncMark, RaiseFails, BufferWrite, Drain, Publish, Sync, SyncFails, Close, Synced,
           DropUnsynced, ReleaseFlags, ReleaseFails, ProcessDies, Ends, ReaderOpens,
           ClearStatusFlags, WriteBackFlags, WriteBackContent, PowerLoss
  <1>2. LockInv /\ Locked /\ MarkInv
    BY <1>1, Zenon DEF OpeningInv, Locked
  <1>3. CASE UNCHANGED openVars
    BY Zenon, <1>2, <1>3 DEF openVars, MarkInv, Marks, Tears, FileSays, Clean
  <1>4. CASE OpenNext
    BY <1>2, <1>4, OpeningMarks, CheckMarks, RaiseMarks, SyncMarkMarks, EndingMarks, DiesMarks,
       BufferWriteMarks, DrainMarks, PublishMarks, SyncedMarks, SyncFailsMarks, ReaderMarks,
       ClearMarks, WriteBackMarks, LossMarks, Zenon DEF OpenNext
  <1> QED BY <1>3, <1>4, Zenon

LEMMA OpeningInvariance == OpenSpec => []OpeningInv
  BY OpeningInitEstablishes, OpeningNextPreserves, PTL DEF OpenSpec

(***************************************************************************)
(* Torn content is marked, for readers and after a loss of power, until    *)
(* somebody waives the mark, when every session takes the lock: the mark   *)
(* is durable before raise_crash_mark arms the buffer, and                 *)
(* release_status_flags runs after the synchronization that repairs the    *)
(* file.                                                                   *)
(***************************************************************************)
THEOREM TornIsMarked ==
    ASSUME Kinds \subseteq {"rw", "paged"}, "Disabled" \notin Lockings
    PROVE  OpenSpec => []TornContentIsMarked
  <1>1. OpeningInv => TornContentIsMarked
    BY Zenon DEF OpeningInv, Locked, MarkInv, FileSays, Clean, TornContentIsMarked
  <1> QED BY <1>1, OpeningInvariance, PTL

(***************************************************************************)
(* No reader is given torn content whose mark nobody waived: with sessions *)
(* that take the lock, check_status_flags refuses the crash mark of a      *)
(* page-buffered writer, to plain and to SWMR readers.                     *)
(***************************************************************************)
THEOREM ReadersAreRefused ==
    ASSUME Kinds \subseteq {"rw", "paged"}, "Disabled" \notin Lockings
    PROVE  OpenSpec => []ReadersRefuseTornContent
  <1>1. OpeningInv => ReadersRefuseTornContent
    BY Zenon DEF OpeningInv, Locked, MarkInv, FileSays, ReadersRefuseTornContent
  <1> QED BY <1>1, OpeningInvariance, PTL

(***************************************************************************)
(* Storage of immediate appends has one holder, and the file never refers  *)
(* to storage it does not record as allocated, for every set of ranges.    *)
(*                                                                         *)
(* Why the checked invariants are not inductive: they speak of confirmed   *)
(* allocations only, and Confirm makes one out of any provisional token of *)
(* a published generation.  Owned names the tokens that are or may become  *)
(* confirmed; the tokens of cancelled batches are exactly the others.      *)
(***************************************************************************)

\* Tokens that are confirmed, may be confirmed now, or will be if the batch is published.
Owned ==
    granted \cup {t \in provisional :
                    \/ t.generation \in publications
                    \/ state.kind = "Provisional" /\ t.generation = state.generation}

Published == granted \cup {t \in provisional : t.generation \in publications}

\* Generations: every number in use is at most sequence, tokens start at 1, and a number
\* is published only by the batch that has it.
GenerationsOK ==
    /\ state.confirmed <= sequence
    /\ state.generation <= sequence
    /\ state.confirmed \in publications \cup {0}
    /\ \A g \in publications : g <= sequence
    /\ \A t \in provisional \cup granted : 0 < t.generation /\ t.generation <= sequence
    /\ state.kind = "Provisional" => state.generation \notin publications \cup {0}
    /\ \A t \in granted : t.generation \in publications /\ t \notin provisional

\* Space: owned ranges are distinct, out of the free space, and not yet referenced.
SpaceOK ==
    /\ \A t, u \in Owned : t.range = u.range => t = u
    /\ \A t \in Owned : t.range \notin free \cup referenced
    /\ referenced \cap free = {}
    /\ \A t \in Published : t.range \in durable
    /\ referenced \subseteq durable

\* The snapshot of a batch holds the free space plus what the batch drew, nothing else.
SnapshotOK ==
    /\ state.kind = "Confirmed" => ~pending
    /\ (state.kind = "Provisional" /\ persist) => pending
    /\ (state.kind = "Provisional" /\ pending) =>
         /\ free \subseteq saved
         /\ saved \cap referenced = {}
         /\ \A t \in Published : t.range \notin saved

AllocationsInv == TypeOK /\ GenerationsOK /\ SpaceOK /\ SnapshotOK

LEMMA AllocationsInitEstablishes == Init => AllocationsInv
  <1> SUFFICES ASSUME Init PROVE AllocationsInv
    BY Zenon
  <1>1. Owned = {} /\ Published = {}
    BY Zenon DEF Init, Owned, Published
  <1>2. TypeOK
    <2>1. state \in [kind : {"Confirmed", "Provisional", "Uncertain"},
                     confirmed : Nat, generation : Nat]
      BY Zenon DEF Init, Confirmed
    <2>2. persist \in BOOLEAN /\ pending \in BOOLEAN /\ (pending => persist)
      BY Zenon DEF Init
    <2> QED BY <2>1, <2>2, Zenon DEF Init, TypeOK
  <1>3. GenerationsOK
    BY DEF Init, Confirmed, GenerationsOK
  <1>4. SpaceOK
    BY <1>1, Zenon DEF Init, SpaceOK
  <1>5. SnapshotOK
    BY Zenon DEF Init, Confirmed, SnapshotOK
  <1> QED BY <1>2, <1>3, <1>4, <1>5, Zenon DEF AllocationsInv

LEMMA AllocateStep == ASSUME AllocationsInv, NEW r \in Ranges, Allocate(r) PROVE AllocationsInv'
  <1> DEFINE tok == [range |-> r, generation |-> Generation]
  <1>1. /\ Generation \in Nat /\ 0 < Generation /\ Generation <= sequence'
        /\ sequence' \in Nat /\ sequence <= sequence'
        /\ Generation \notin publications
        /\ state' = Provisional(state.confirmed, Generation)
    BY DEF Allocate, Available, Provision, Generation, NextGeneration, AllocationsInv, TypeOK, GenerationsOK
  <1>2. TypeOK'
    BY <1>1 DEF Allocate, AllocationsInv, TypeOK, Token, Provisional, Snapshots, Snapshot
  <1>3. GenerationsOK'
    BY <1>1 DEF Allocate, AllocationsInv, TypeOK, GenerationsOK, Provisional, Token
  <1>4. Published' = Published
    BY <1>1 DEF Allocate, Published
  <1>5. Owned' \subseteq Owned \cup {tok}
    <2>1. CASE state.kind = "Confirmed"
      <3>1. \A t \in provisional : t.generation # Generation
        BY <2>1 DEF Generation, NextGeneration, AllocationsInv, TypeOK, GenerationsOK, Token
      <3> QED BY <1>1, <3>1, Zenon DEF Allocate, Owned, Provisional
    <2>2. CASE state.kind = "Provisional"
      BY <1>1, <2>2, Zenon DEF Allocate, Owned, Provisional, Generation
    <2> QED BY <2>1, <2>2, Zenon DEF Allocate, Available, AllocationsInv, TypeOK
  <1>6. SpaceOK'
    BY <1>4, <1>5 DEF Allocate, AllocationsInv, SpaceOK
  <1>7. SnapshotOK'
    <2>1. Published \subseteq Owned
      BY Zenon DEF Published, Owned
    <2> QED BY <1>1, <1>4, <2>1, Zenon DEF Allocate, Available, AllocationsInv, TypeOK, SnapshotOK, SpaceOK, Provisional, Snapshots, Snapshot
  <1> QED BY <1>2, <1>3, <1>6, <1>7, Zenon DEF AllocationsInv

\* Undoing a batch to a snapshot that holds no published and no referenced range.
LEMMA RestoreStep ==
    ASSUME AllocationsInv, state.kind # "Uncertain", NEW snapshot \in SUBSET Ranges,
           persist => /\ snapshot \cap referenced = {}
                      /\ \A t \in Published : t.range \notin snapshot,
           RestoreFrom(snapshot),
           sequence' \in Nat, sequence <= sequence',
           UNCHANGED <<persist, provisional, publications, granted, durable, referenced>>
    PROVE  AllocationsInv'
  <1>1. state'.kind # "Provisional" /\ state'.confirmed = state.confirmed
    BY DEF RestoreFrom, Confirmed, MakeUncertain, Uncertain
  <1>2. TypeOK'
    <2>1. state' \in [kind : {"Confirmed", "Provisional", "Uncertain"},
                      confirmed : Nat, generation : Nat]
      BY DEF RestoreFrom, Confirmed, MakeUncertain, Uncertain, AllocationsInv, TypeOK
    <2>2. pending' \in BOOLEAN /\ (pending' => persist')
      BY Zenon DEF RestoreFrom
    <2>3. free' \subseteq Ranges
      BY Zenon DEF RestoreFrom, AllocationsInv, TypeOK
    <2>4. saved' = {}
      BY Zenon DEF RestoreFrom
    <2> QED BY <2>1, <2>2, <2>3, <2>4, Zenon DEF AllocationsInv, TypeOK
  <1>3. GenerationsOK'
    BY <1>1 DEF RestoreFrom, Confirmed, MakeUncertain, Uncertain, AllocationsInv, TypeOK, GenerationsOK, Token
  <1>4. Owned' = Published /\ Published' = Published /\ Published \subseteq Owned
    BY <1>1, Zenon DEF Owned, Published
  <1>5. SpaceOK'
    BY <1>4, Zenon DEF RestoreFrom, AllocationsInv, SpaceOK
  <1>6. SnapshotOK'
    BY <1>1, Zenon DEF RestoreFrom, SnapshotOK
  <1> QED BY <1>2, <1>3, <1>5, <1>6, Zenon DEF AllocationsInv

LEMMA AllocateFailsStep == AllocationsInv /\ AllocateFails => AllocationsInv'
  <1> SUFFICES ASSUME AllocationsInv, AllocateFails PROVE AllocationsInv'
    BY Zenon
  <1>1. Published \subseteq Owned
    BY Zenon DEF Published, Owned
  <1>2. state.kind # "Uncertain" /\ RestoreFrom(Snapshot) /\ Snapshot \in SUBSET Ranges
    BY Zenon DEF AllocateFails, Available, Snapshot, AllocationsInv, TypeOK
  <1>3. persist => /\ Snapshot \cap referenced = {}
                   /\ \A t \in Published : t.range \notin Snapshot
    BY <1>1, <1>2, Zenon DEF AllocationsInv, TypeOK, SpaceOK, SnapshotOK, Snapshot, Snapshots
  <1>4. sequence' \in Nat /\ sequence <= sequence'
    BY DEF AllocateFails, NextGeneration, AllocationsInv, TypeOK
  <1> QED BY <1>2, <1>3, <1>4, RestoreStep, Zenon DEF AllocateFails

LEMMA PublishCancelledStep == AllocationsInv /\ PublishCancelled => AllocationsInv'
  <1> SUFFICES ASSUME AllocationsInv, PublishCancelled PROVE AllocationsInv'
    BY Zenon
  <1>1. /\ state.kind # "Uncertain" /\ RestoreFrom(saved) /\ saved \in SUBSET Ranges
        /\ sequence' \in Nat /\ sequence <= sequence'
    BY DEF PublishCancelled, AllocationsInv, TypeOK
  <1>2. persist => /\ saved \cap referenced = {}
                   /\ \A t \in Published : t.range \notin saved
    BY Zenon DEF PublishCancelled, AllocationsInv, TypeOK, SnapshotOK
  <1> QED BY <1>1, <1>2, RestoreStep, Zenon DEF PublishCancelled

LEMMA PublishSucceedsStep == AllocationsInv /\ PublishSucceeds => AllocationsInv'
  <1> SUFFICES ASSUME AllocationsInv, PublishSucceeds PROVE AllocationsInv'
    BY Zenon
  <1>1. TypeOK'
    BY Zenon DEF PublishSucceeds, Confirmed, AllocationsInv, TypeOK
  <1>2. GenerationsOK'
    BY Zenon DEF PublishSucceeds, Confirmed, AllocationsInv, TypeOK, GenerationsOK, Token
  <1>3. Owned' = Owned /\ Published' = Owned
    BY Zenon DEF PublishSucceeds, Confirmed, Owned, Published
  <1>4. \A t \in Owned : t.range \in Ranges
    BY Zenon DEF Owned, AllocationsInv, TypeOK, Token
  <1>5. SpaceOK'
    BY <1>3, <1>4, Zenon DEF PublishSucceeds, AllocationsInv, TypeOK, SpaceOK
  <1>6. SnapshotOK'
    BY Zenon DEF PublishSucceeds, Confirmed, SnapshotOK
  <1> QED BY <1>1, <1>2, <1>5, <1>6, Zenon DEF AllocationsInv

\* The steps that only make the session uncertain, whatever reached the file.
LEMMA UncertainStep ==
    ASSUME AllocationsInv, state.kind # "Uncertain", MakeUncertain,
           durable' \in {durable, Ranges \ free},
           UNCHANGED <<sequence, persist, pending, saved, free, provisional, publications,
                       granted, referenced>>
    PROVE  AllocationsInv'
  <1>1. state'.kind = "Uncertain" /\ state'.confirmed = state.confirmed
        /\ state'.generation = state.generation
    BY Zenon DEF MakeUncertain, Uncertain
  <1>2. TypeOK'
    BY Zenon DEF MakeUncertain, Uncertain, AllocationsInv, TypeOK
  <1>3. GenerationsOK'
    BY <1>1, Zenon DEF AllocationsInv, TypeOK, GenerationsOK, Token
  <1>4. Owned' = Published /\ Published' = Published /\ Published \subseteq Owned
    BY <1>1, Zenon DEF Owned, Published
  <1>5. \A t \in Owned : t.range \in Ranges
    BY Zenon DEF Owned, AllocationsInv, TypeOK, Token
  <1>6. SpaceOK'
    BY <1>4, <1>5, Zenon DEF AllocationsInv, TypeOK, SpaceOK
  <1>7. SnapshotOK'
    BY <1>1, Zenon DEF SnapshotOK
  <1> QED BY <1>2, <1>3, <1>6, <1>7, Zenon DEF AllocationsInv

LEMMA PublishCurrentStep == AllocationsInv /\ PublishCurrent => AllocationsInv'
  <1> SUFFICES ASSUME AllocationsInv, PublishCurrent PROVE AllocationsInv'
    BY Zenon
  <1>1. \A t \in provisional : t.generation = state.confirmed => t.generation \in publications
    BY DEF AllocationsInv, TypeOK, GenerationsOK, Token
  <1>2. Owned' = Owned /\ Published' = Published
    BY <1>1, Zenon DEF PublishCurrent, Owned, Published
  <1>3. TypeOK'
    BY Zenon DEF PublishCurrent, AllocationsInv, TypeOK
  <1>4. GenerationsOK'
    BY Zenon DEF PublishCurrent, AllocationsInv, TypeOK, GenerationsOK, Token
  <1>5. SpaceOK' /\ SnapshotOK'
    BY <1>2, Zenon DEF PublishCurrent, AllocationsInv, SpaceOK, SnapshotOK
  <1> QED BY <1>3, <1>4, <1>5, Zenon DEF AllocationsInv

LEMMA ConfirmStep ==
    ASSUME AllocationsInv, NEW g \in publications, NEW t \in provisional, Confirm(g, t)
    PROVE  AllocationsInv'
  <1>1. t \in Published /\ t \in Owned
    BY Zenon DEF Confirm, Confirms, Published, Owned
  <1>2. Owned' = Owned /\ Published' = Published
    BY <1>1, Zenon DEF Confirm, Owned, Published
  <1>3. TypeOK'
    BY Zenon DEF Confirm, AllocationsInv, TypeOK
  <1>4. GenerationsOK'
    BY Zenon DEF Confirm, Confirms, AllocationsInv, GenerationsOK
  <1>5. SpaceOK' /\ SnapshotOK'
    BY <1>2, Zenon DEF Confirm, AllocationsInv, SpaceOK, SnapshotOK
  <1> QED BY <1>3, <1>4, <1>5, Zenon DEF AllocationsInv

LEMMA ReferenceStep == ASSUME AllocationsInv, NEW t \in granted, Reference(t) PROVE AllocationsInv'
  <1>1. /\ state'.kind # "Provisional" /\ state'.confirmed = state.confirmed
        /\ state'.generation = state.generation /\ state.kind = "Confirmed" /\ ~pending
        /\ referenced' \in {referenced, referenced \cup {t.range}}
    BY DEF Reference, BeforeReference, MakeUncertain, Uncertain, AllocationsInv, SnapshotOK
  <1>2. t \in Owned /\ t \in Published /\ t \in Token
    BY Zenon DEF Owned, Published, AllocationsInv, TypeOK
  <1>3. /\ Owned' \subseteq Owned /\ Published' \subseteq Published
        /\ t \notin Owned'
    BY <1>1, Zenon DEF Reference, Owned, Published, AllocationsInv, GenerationsOK
  <1>4. TypeOK'
    BY <1>2 DEF Reference, MakeUncertain, Uncertain, AllocationsInv, TypeOK, Token
  <1>5. GenerationsOK'
    BY <1>1, Zenon DEF Reference, AllocationsInv, GenerationsOK
  <1>6. /\ \A u \in Owned' : u.range # t.range /\ u.range \notin free' \cup referenced'
        /\ t.range \notin free
        /\ t.range \in durable
    BY <1>1, <1>2, <1>3, Zenon DEF Reference, AllocationsInv, SpaceOK
  <1>7. SpaceOK'
    BY <1>1, <1>3, <1>6, Zenon DEF Reference, AllocationsInv, SpaceOK
  <1>8. SnapshotOK'
    BY <1>1, Zenon DEF Reference, SnapshotOK
  <1> QED BY <1>4, <1>5, <1>7, <1>8, Zenon DEF AllocationsInv

LEMMA RetireStep == ASSUME AllocationsInv, NEW r \in Ranges, Retire(r) PROVE AllocationsInv'
  <1>1. Owned' = Owned /\ Published' = Published
    BY Zenon DEF Retire, Owned, Published
  <1>2. TypeOK' /\ GenerationsOK'
    BY Zenon DEF Retire, AllocationsInv, TypeOK, GenerationsOK
  <1>3. SpaceOK'
    BY <1>1, Zenon DEF Retire, AllocationsInv, SpaceOK
  <1>4. SnapshotOK'
    BY <1>1, Zenon DEF Retire, BeforeReference, AllocationsInv, SnapshotOK
  <1> QED BY <1>2, <1>3, <1>4, Zenon DEF AllocationsInv

\* Every step of the session preserves the invariant.
LEMMA AllocationsNextPreserves == AllocationsInv /\ [Next]_vars => AllocationsInv'
  <1> SUFFICES ASSUME AllocationsInv, [Next]_vars PROVE AllocationsInv'
    BY Zenon
  <1>1. CASE UNCHANGED vars
    BY <1>1 DEF vars, AllocationsInv, TypeOK, GenerationsOK, SpaceOK, SnapshotOK, Owned, Published
  <1>2. CASE AllocateFlushFails
    <2>1. durable' \in {durable, Ranges \ free} /\ state.kind # "Uncertain"
      BY <1>2, Zenon DEF AllocateFlushFails
    <2> QED BY <1>2, <2>1, UncertainStep, Zenon DEF AllocateFlushFails
  <1>3. CASE PublishUncertain
    BY <1>3, UncertainStep, Zenon DEF PublishUncertain
  <1> QED
    BY <1>1, <1>2, <1>3, AllocateStep, AllocateFailsStep, PublishCancelledStep,
       PublishSucceedsStep, PublishCurrentStep, ConfirmStep, ReferenceStep, RetireStep, Zenon DEF Next

LEMMA AllocationsInvariance == Spec => []AllocationsInv
  BY AllocationsInitEstablishes, AllocationsNextPreserves, PTL DEF Spec

(***************************************************************************)
(* In every session, whatever fails and in whatever order tokens are used, *)
(* no confirmed range has a second holder: the generation checks of        *)
(* confirm and require are enough.                                         *)
(***************************************************************************)
THEOREM AllocationOwnership == Spec => [](TypeOK /\ ConfirmedStorageIsExclusive)
  <1>1. AllocationsInv => TypeOK /\ ConfirmedStorageIsExclusive
    BY Zenon DEF AllocationsInv, SpaceOK, ConfirmedStorageIsExclusive, Owned
  <1> QED BY <1>1, AllocationsInvariance, PTL

(***************************************************************************)
(* The file records as allocated all that it refers to, after every step:  *)
(* publish_append_allocations comes before the reference, and what is      *)
(* cancelled was never referred to.                                        *)
(***************************************************************************)
THEOREM ReferencedStorageIsRecorded == Spec => []ReferencesAreOwned
  <1>1. AllocationsInv => ReferencesAreOwned
    BY Zenon DEF AllocationsInv, SpaceOK, ReferencesAreOwned
  <1> QED BY <1>1, AllocationsInvariance, PTL

\* An uncertain session stays uncertain and leaves the file and its space alone.
THEOREM UncertainSessionsStop == Spec => UncertaintyIsFinal
  <1> DEFINE Stops == state.kind = "Uncertain" =>
                         /\ state' = state
                         /\ UNCHANGED <<free, durable, referenced>>
  <1>1. [Next]_vars => [Stops]_vars
    <2> SUFFICES ASSUME [Next]_vars, state.kind = "Uncertain"
                 PROVE  Stops
      BY Zenon
    <2>1. CASE UNCHANGED vars
      BY <2>1, Zenon DEF vars
    <2>2. ASSUME NEW g \in publications, NEW t \in provisional, Confirm(g, t) PROVE Stops
      BY <2>2, Zenon DEF Confirm
    <2> QED
      BY <2>1, <2>2, Zenon
         DEF Next, AllocateFlushFails, AllocateFails, Allocate, Retire, PublishCurrent,
             PublishSucceeds, PublishCancelled, PublishUncertain, Reference, Available,
             BeforeReference
  <1> QED BY <1>1, PTL DEF Spec, UncertaintyIsFinal

(***************************************************************************)
(* A session on a PAGE file without persisted free space survives failed   *)
(* publications, for every number of roots, edits, faults and crashes.     *)
(*                                                                         *)
(* Why the checked invariants are not inductive: they speak of the root    *)
(* the file leads to, and a barrier moves the file to the root the image   *)
(* holds.  Ahead says that this root is complete before its superblock is  *)
(* queued and contains whatever the file has led to; Phases ties the step  *)
(* of a commit or recovery to how far its publication has come.            *)
(***************************************************************************)

Roots == 0 .. built

Complete(r) == pages[r] \in {"issued", "durable"} /\ (policy = "Always" => pages[r] = "durable")

PagesTypeOK ==
    /\ policy \in {"Always", "OnClose"}
    /\ pc \in {"idle", "sync", "settle", "verify", "verifySync", "apply", "content", "publish",
               "recover", "closed"}
    /\ built \in 0 .. MaxRoots
    /\ root \in Roots /\ image \in Roots
    /\ queued \in Roots \cup {None}
    /\ disk \in Roots \cup {Torn}
    /\ stored \in SUBSET (Roots \cup {Torn})
    /\ pages \in [0 .. MaxRoots -> {"none", "queued", "issued", "durable", "lost"}]
    /\ edits \in Nat /\ staged \in SUBSET Nat /\ taken \in SUBSET Nat
    /\ tree \in [0 .. MaxRoots -> SUBSET Nat]

\* How far the publication has come at each step.
Phases ==
    /\ pc \in {"apply", "content"} => ~Attempted
    /\ pc \in {"settle", "verify", "verifySync", "publish", "recover"} => Attempted
    /\ pc \in {"verify", "verifySync"} => disk = image /\ queued = None
    /\ pc = "content" => tree[root] \cup taken \subseteq tree[built] /\ pages[built] = "queued"
    /\ pc = "publish" => queued = image /\ taken \subseteq tree[image]

\* The root of the image is complete, and contains what the file has led to.
Ahead ==
    pc # "closed" =>
        /\ queued \in {None, image}
        /\ Complete(image)
        /\ landed \cup returned \subseteq tree[image]
        /\ disk # Torn => tree[disk] \subseteq tree[image]

\* What the file leads to now is among what power loss may leave, and complete.
Kept ==
    /\ disk \in stored
    /\ PublishedRootIsComplete
    /\ PublishedEditsStay

PagesInv == PagesTypeOK /\ Phases /\ Ahead /\ Kept /\ UnsettledIsRepairable

LEMMA PagesInitEstablishes == PagesInit => PagesInv
  <1> SUFFICES ASSUME PagesInit PROVE PagesInv
    BY Zenon
  <1> USE RootsAssumption
  <1>1. PagesTypeOK
    BY DEF PagesInit, PagesTypeOK, Roots
  <1>2. Phases
    BY Zenon DEF PagesInit, Phases, Attempted
  <1>3. Complete(0) /\ tree[0] = {} /\ disk # Torn
    BY DEF PagesInit, Complete
  <1>4. Ahead /\ Kept
    BY <1>3, Zenon DEF PagesInit, Ahead, Kept, PublishedRootIsComplete, PublishedEditsStay, Complete
  <1>5. UnsettledIsRepairable
    BY Zenon DEF PagesInit, UnsettledIsRepairable, Attempted
  <1> QED BY <1>1, <1>2, <1>4, <1>5, Zenon DEF PagesInv

\* Pages move forward at a barrier.
LEMMA PagesAdvance ==
    ASSUME PagesTypeOK, NEW synced \in {Drained, PagesSynced}
    PROVE  /\ synced \in [0 .. MaxRoots -> {"none", "queued", "issued", "durable", "lost"}]
           /\ \A r \in 0 .. MaxRoots :
                /\ pages[r] \in {"issued", "durable"} => synced[r] \in {"issued", "durable"}
                /\ pages[r] = "durable" => synced[r] = "durable"
                /\ pages[r] = "queued" => synced[r] \in {"issued", "durable"}
                /\ pages[r] = "queued" => PagesSynced[r] = "durable"
  BY Zenon DEF PagesTypeOK, Drained, PagesSynced

\* What a barrier that succeeded did to the file, and one that failed.
Lands ==
    /\ disk' = image /\ queued' = None /\ disk' # Torn
    /\ disk' \in stored'
    /\ stored' \in SUBSET (Roots \cup {Torn})
    /\ pages' \in [0 .. MaxRoots -> {"none", "queued", "issued", "durable", "lost"}]
    /\ Complete(image)'
    /\ landed' \cup returned \subseteq tree[image]
    /\ PublishedRootIsComplete'
    /\ policy = "Always" => stored' = {image}

Misses ==
    /\ disk' \in {disk, image, Torn}
    /\ disk' # image => queued' = image
    /\ disk' # disk => queued = image
    /\ queued' \in {None, image}
    /\ queued = None => queued' = None
    /\ stored' \in SUBSET (Roots \cup {Torn})
    /\ pages' \in [0 .. MaxRoots -> {"none", "queued", "issued", "durable", "lost"}]
    /\ Complete(image)'
    /\ landed' \cup returned \subseteq tree[image]
    /\ disk' # Torn => tree[disk'] \subseteq tree[image]
    /\ Kept'

\* A barrier that succeeds leads the file to the root of the image.
LEMMA BarrierLands ==
    ASSUME PagesInv, pc # "closed", BarrierSucceeds, policy' = policy, image' = image, tree' = tree,
           built' = built
    PROVE  Lands
  <1> USE RootsAssumption
  <1>1. disk' = image /\ queued' = None /\ disk' # Torn /\ image \in 0 .. MaxRoots
    BY DEF BarrierSucceeds, Issued, PagesInv, PagesTypeOK, Ahead, UnsettledIsRepairable, Roots
  <1>2. pages' \in {Drained, PagesSynced}
    BY Zenon DEF BarrierSucceeds
  <1>3. /\ pages' \in [0 .. MaxRoots -> {"none", "queued", "issued", "durable", "lost"}]
        /\ Complete(image)'
    BY <1>1, <1>2, PagesAdvance, Zenon DEF PagesInv, Ahead, Complete
  <1>4. /\ stored' \in SUBSET (Roots \cup {Torn}) /\ disk' \in stored'
        /\ policy = "Always" => stored' = {image}
    BY <1>1, Zenon DEF BarrierSucceeds, Synchronizes, PagesInv, PagesTypeOK
  <1>5. landed' \cup returned \subseteq tree[image]
    BY <1>1, Zenon DEF BarrierSucceeds, Remember, PagesInv, Ahead
  <1>6. PublishedRootIsComplete'
    BY <1>1, <1>3, <1>4, Zenon DEF PublishedRootIsComplete, Complete
  <1> QED BY <1>1, <1>3, <1>4, <1>5, <1>6, Zenon DEF Lands

\* A barrier that fails leaves the file where it was, at the root of the image, or torn.
LEMMA BarrierMisses ==
    ASSUME PagesInv, pc # "closed", BarrierFails, policy' = policy, image' = image, tree' = tree,
           built' = built, returned' = returned
    PROVE  Misses
  <1> USE RootsAssumption
  <1>1. /\ disk' \in {disk, image, Torn} /\ queued' \in {None, image}
        /\ disk' # image => queued' = image
        /\ disk' # disk => queued = image
        /\ queued = None => queued' = None
        /\ image \in 0 .. MaxRoots /\ image # Torn /\ image # None
        /\ stored' = stored \cup {disk'}
    BY DEF BarrierFails, KeptQueued, Issued, PagesInv, PagesTypeOK, Ahead, UnsettledIsRepairable, Roots
  <1>2. stored' \in SUBSET (Roots \cup {Torn})
    BY <1>1, Zenon DEF PagesInv, PagesTypeOK
  <1>3. pages' = pages \/ pages' \in {Drained, PagesSynced}
    BY Zenon DEF BarrierFails
  <1>4. /\ pages' \in [0 .. MaxRoots -> {"none", "queued", "issued", "durable", "lost"}]
        /\ \A r \in 0 .. MaxRoots :
             /\ pages[r] \in {"issued", "durable"} => pages'[r] \in {"issued", "durable"}
             /\ pages[r] = "durable" => pages'[r] = "durable"
    BY <1>3, PagesAdvance, Zenon DEF PagesInv, PagesTypeOK
  <1>5. Complete(image)'
    BY <1>1, <1>4, Zenon DEF PagesInv, Ahead, Complete
  <1>6. landed' = IF disk' = Torn THEN landed ELSE landed \cup tree[disk']
    BY Zenon DEF BarrierFails, Remember
  <1>7. /\ landed' \cup returned \subseteq tree[image]
        /\ disk' # Torn => tree[disk'] \subseteq tree[image]
    BY <1>1, <1>6, Zenon DEF PagesInv, Ahead
  <1>8. PublishedRootIsComplete'
    <2>1. disk' # Torn => pages'[disk'] \in {"issued", "durable"}
      BY <1>1, <1>4, <1>5 DEF PagesInv, PagesTypeOK, Roots, Kept, PublishedRootIsComplete, Complete
    <2>2. ASSUME policy = "Always", NEW r \in stored' \ {Torn} PROVE pages'[r] = "durable"
      BY <1>1, <1>4, <1>5, <2>2 DEF PagesInv, PagesTypeOK, Roots, Kept, PublishedRootIsComplete, Complete
    <2> QED BY <2>1, <2>2, Zenon DEF PublishedRootIsComplete
  <1>9. PublishedEditsStay'
    <2>1. disk' # Torn => landed' \cup returned' \subseteq tree'[disk']
      BY <1>1, <1>6, <1>7, Zenon DEF PagesInv, Kept, PublishedEditsStay
    <2>2. ASSUME policy = "Always", NEW r \in stored' \ {Torn} PROVE returned' \subseteq tree'[r]
      BY <1>1, <1>7, <2>2, Zenon DEF PagesInv, Kept, PublishedEditsStay
    <2> QED BY <2>1, <2>2, Zenon DEF PublishedEditsStay
  <1> QED BY <1>1, <1>2, <1>4, <1>5, <1>7, <1>8, <1>9, Zenon DEF Kept, Misses

\* Steps that touch neither the file nor the roots.
LEMMA QuietStep ==
    ASSUME PagesInv, pc # "closed",
           UNCHANGED <<policy, publication, root, image, queued, onDisk, tree, built, returned, landed>>,
           pc' \in {"idle", "sync", "settle", "apply"}, Phases',
           edits' \in Nat, staged' \in SUBSET Nat, taken' = taken
    PROVE  PagesInv'
  <1>1. PagesTypeOK'
    BY Zenon DEF PagesInv, PagesTypeOK, Roots, onDisk
  <1>2. Ahead'
    BY Zenon DEF PagesInv, Ahead, Complete, onDisk
  <1>3. Kept'
    BY Zenon DEF PagesInv, Kept, PublishedRootIsComplete, PublishedEditsStay, onDisk
  <1>4. UnsettledIsRepairable'
    BY Zenon DEF PagesInv, UnsettledIsRepairable, Attempted, onDisk
  <1> QED BY <1>1, <1>2, <1>3, <1>4, Zenon DEF PagesInv

LEMMA StageStep == PagesInv /\ Stage => PagesInv'
  <1> SUFFICES ASSUME PagesInv, Stage PROVE PagesInv'
    BY Zenon
  <1>1. Phases'
    BY Zenon DEF Stage, PagesInv, Phases, session, onDisk
  <1> QED BY <1>1, QuietStep, SMTT(30) DEF Stage, PagesInv, PagesTypeOK, session, onDisk

LEMMA CallStep == PagesInv /\ (ForceSync \/ Commit \/ ApplyNothing) => PagesInv'
  <1> SUFFICES ASSUME PagesInv, ForceSync \/ Commit \/ ApplyNothing PROVE PagesInv'
    BY Zenon
  <1>1. Phases'
    BY Zenon DEF ForceSync, Commit, Begins, ApplyNothing, PagesInv, Phases, Attempted, onDisk, work
  <1>2. publication' = publication
    BY Zenon DEF ForceSync, Commit, ApplyNothing, PagesInv, Phases, Attempted
  <1>3. UNCHANGED <<policy, root, image, queued, onDisk, work, landed>> /\ pc # "closed"
    BY Zenon DEF ForceSync, Commit, ApplyNothing
  <1>4. pc' \in {"idle", "sync", "settle", "apply"}
    BY Zenon DEF ForceSync, Commit, Begins, ApplyNothing
  <1> QED BY <1>1, <1>2, <1>3, <1>4, QuietStep, Zenon DEF PagesInv, PagesTypeOK, work

LEMMA CompleteStep == PagesInv /\ CompletePagePublication => PagesInv'
  <1> SUFFICES ASSUME PagesInv, CompletePagePublication PROVE PagesInv'
    BY Zenon
  <1>1. /\ UNCHANGED <<policy, image, queued, onDisk, work, landed>>
        /\ pc # "closed" /\ pc' \in {"apply", "idle"} /\ disk = image /\ queued = None
    BY Zenon DEF CompletePagePublication, PagesInv, Phases
  <1>2. PagesTypeOK'
    BY <1>1, Zenon DEF CompletePagePublication, Recovers, RecoveryFails, PagesInv, PagesTypeOK, Roots, onDisk, work
  <1>3. Ahead' /\ Kept'
    BY <1>1, Zenon DEF PagesInv, Ahead, Complete, Kept, PublishedRootIsComplete, PublishedEditsStay, onDisk, work
  <1> QED BY <1>1, <1>2, <1>3, Zenon DEF CompletePagePublication, Recovers, RecoveryFails, PagesInv, Phases, UnsettledIsRepairable, Attempted, onDisk, work

LEMMA RecoverQuietlyStep == PagesInv /\ RecoverQuietly => PagesInv'
  <1> SUFFICES ASSUME PagesInv, RecoverQuietly PROVE PagesInv'
    BY Zenon
  <1>1. /\ UNCHANGED <<policy, publication, image, queued, onDisk, work, landed>>
        /\ pc = "recover" /\ pc' = "idle" /\ Attempted
    BY Zenon DEF RecoverQuietly, PagesInv, Phases
  <1>2. PagesTypeOK'
    BY <1>1, Zenon DEF RecoverQuietly, Recovers, RecoveryFails, PagesInv, PagesTypeOK, Roots, onDisk, work
  <1>3. Ahead' /\ Kept'
    BY <1>1, Zenon DEF PagesInv, Ahead, Complete, Kept, PublishedRootIsComplete, PublishedEditsStay, onDisk, work
  <1> QED BY <1>1, <1>2, <1>3, Zenon DEF PagesInv, Phases, UnsettledIsRepairable, Attempted, onDisk, work

LEMMA SettleStep == PagesInv /\ SettleBarrier => PagesInv'
  <1> SUFFICES ASSUME PagesInv, SettleBarrier PROVE PagesInv'
    BY Zenon
  <1>1. /\ UNCHANGED <<policy, publication, root, image, tree, built, staged, edits, taken, returned>>
        /\ pc \in {"settle", "sync"}
    BY Zenon DEF SettleBarrier, work
  <1>2. CASE BarrierSucceeds /\ pc' = IF Attempted THEN (IF pc = "sync" THEN "verifySync" ELSE "verify")
                                      ELSE "idle"
    <2>1. Lands
      BY <1>1, <1>2, BarrierLands, Zenon
    <2>2. PagesTypeOK'
      BY <1>1, <1>2, <2>1, Zenon DEF Lands, PagesInv, PagesTypeOK, Roots
    <2>3. Phases'
      BY <1>1, <1>2, <2>1, Zenon DEF Lands, Phases, Attempted
    <2>4. Ahead'
      BY <1>1, <2>1, Zenon DEF Lands, Ahead
    <2>5. Kept'
      BY <1>1, <2>1, Zenon DEF Lands, Kept, PublishedEditsStay
    <2>6. UnsettledIsRepairable'
      BY <1>1, <2>1, Zenon DEF Lands, PagesInv, UnsettledIsRepairable, Attempted
    <2> QED BY <2>2, <2>3, <2>4, <2>5, <2>6, Zenon DEF PagesInv
  <1>3. CASE BarrierFails /\ pc' = "idle"
    <2>1. Misses
      BY <1>1, <1>3, BarrierMisses, Zenon
    <2>2. PagesTypeOK'
      BY <1>1, <1>3, <2>1, Zenon DEF Misses, PagesInv, PagesTypeOK, Roots
    <2>3. Phases'
      BY <1>1, <1>3, Zenon DEF Phases
    <2>4. Ahead'
      BY <1>1, <2>1, Zenon DEF Misses, Ahead
    <2>5. UnsettledIsRepairable'
      BY <1>1, <2>1, RootsAssumption DEF Misses, PagesInv, PagesTypeOK, Roots, UnsettledIsRepairable, Attempted
    <2> QED BY <2>1, <2>2, <2>3, <2>4, <2>5, Zenon DEF Misses, PagesInv
  <1> QED BY <1>2, <1>3, Zenon DEF SettleBarrier

LEMMA ApplyStep == PagesInv /\ Apply => PagesInv'
  <1> SUFFICES ASSUME PagesInv, Apply PROVE PagesInv'
    BY Zenon
  <1> USE RootsAssumption
  <1>1. /\ UNCHANGED <<policy, root, image, queued, disk, stored, returned, landed>>
        /\ pc = "apply" /\ pc' \in {"idle", "content"} /\ ~Attempted /\ publication' = "Ready"
        /\ built' = built + 1 /\ built' \in 0 .. MaxRoots /\ built' \notin Roots
    BY DEF Apply, PagesInv, PagesTypeOK, Phases, Roots
  <1>2. /\ pages'[built'] = "queued" /\ tree'[built'] = tree[root] \cup staged
        /\ \A r \in Roots : pages'[r] = pages[r] /\ tree'[r] = tree[r]
    BY <1>1 DEF Apply, PagesInv, PagesTypeOK, Roots
  <1>3. PagesTypeOK'
    <2>1. /\ built' \in 0 .. MaxRoots /\ Roots \subseteq Roots'
          /\ edits' \in Nat /\ staged' \in SUBSET Nat /\ taken' \in SUBSET Nat
      BY <1>1 DEF Apply, PagesInv, PagesTypeOK, Roots
    <2>2. pages' \in [0 .. MaxRoots -> {"none", "queued", "issued", "durable", "lost"}]
      BY <1>1, Zenon DEF Apply, PagesInv, PagesTypeOK
    <2>3. tree[root] \cup staged \in SUBSET Nat
      <3>1. root \in 0 .. MaxRoots
        BY DEF PagesInv, PagesTypeOK, Roots
      <3>2. tree[root] \in SUBSET Nat
        BY <3>1, Zenon DEF PagesInv, PagesTypeOK
      <3> QED BY Zenon, <3>2 DEF PagesInv, PagesTypeOK
    <2>4. tree' \in [0 .. MaxRoots -> SUBSET Nat]
      BY <1>1, <2>3, Zenon DEF Apply, PagesInv, PagesTypeOK
    <2> QED BY <1>1, <2>1, <2>2, <2>4, Zenon DEF PagesInv, PagesTypeOK
  <1>4. Phases'
    BY <1>1, <1>2 DEF Apply, PagesInv, PagesTypeOK, Phases, Attempted
  <1>5. Ahead'
    BY <1>1, <1>2, Zenon DEF PagesInv, PagesTypeOK, Ahead, Complete
  <1>6. Kept'
    BY <1>1, <1>2, Zenon DEF PagesInv, PagesTypeOK, Kept, PublishedRootIsComplete, PublishedEditsStay
  <1>7. UnsettledIsRepairable'
    BY <1>1, Zenon DEF PagesInv, UnsettledIsRepairable, Attempted
  <1> QED BY <1>3, <1>4, <1>5, <1>6, <1>7, Zenon DEF PagesInv

LEMMA ContentStep == PagesInv /\ ContentBarrier => PagesInv'
  <1> SUFFICES ASSUME PagesInv, ContentBarrier PROVE PagesInv'
    BY Zenon
  <1> USE RootsAssumption
  <1>1. /\ UNCHANGED <<policy, root, tree, built, staged, edits, taken, returned>>
        /\ pc = "content" /\ ~Attempted /\ root = disk /\ queued = None /\ image = disk
    BY Zenon DEF ContentBarrier, PagesInv, Phases, UnsettledIsRepairable, work
  <1>2. CASE BarrierFails /\ pc' = "idle" /\ UNCHANGED <<publication, image>>
    <2>1. Misses
      BY <1>1, <1>2, BarrierMisses, Zenon
    <2>2. disk' = disk /\ queued' = None /\ image' = image
      BY <1>1, <1>2, <2>1 DEF Misses, PagesInv, PagesTypeOK, Roots
    <2>3. PagesTypeOK'
      BY <1>1, <1>2, <2>1, <2>2, Zenon DEF Misses, PagesInv, PagesTypeOK, Roots
    <2>4. Phases'
      BY <1>2, Zenon DEF Phases
    <2>5. Ahead'
      BY <1>1, <2>1, <2>2, Zenon DEF Misses, Ahead
    <2>6. UnsettledIsRepairable'
      BY <1>1, <1>2, <2>2, Zenon DEF UnsettledIsRepairable, Attempted
    <2> QED BY <2>1, <2>3, <2>4, <2>5, <2>6, Zenon DEF PagesInv, Misses
  <1>3. CASE /\ pages' = IF Synchronizes THEN PagesSynced ELSE Drained
             /\ publication' = "Uncertain"
             /\ queued' = built /\ image' = built
             /\ pc' = "publish"
             /\ UNCHANGED <<disk, stored, landed, faults>>
    <2>1. pages' \in {Drained, PagesSynced} /\ (policy = "Always" => pages' = PagesSynced)
      BY <1>3, Zenon DEF Synchronizes
    <2>2. built \in Roots /\ built \in 0 .. MaxRoots
      BY DEF PagesInv, PagesTypeOK, Roots
    <2>3. /\ pages' \in [0 .. MaxRoots -> {"none", "queued", "issued", "durable", "lost"}]
          /\ \A r \in 0 .. MaxRoots :
               /\ pages[r] \in {"issued", "durable"} => pages'[r] \in {"issued", "durable"}
               /\ pages[r] = "durable" => pages'[r] = "durable"
          /\ Complete(built)'
      BY <1>1, <2>1, <2>2, PagesAdvance, Zenon DEF PagesInv, Phases, Complete
    <2>4. PagesTypeOK'
      BY <1>1, <1>3, <2>2, <2>3, Zenon DEF PagesInv, PagesTypeOK, Roots
    <2>5. tree[disk] \subseteq tree[built] /\ taken \subseteq tree[built] /\ disk # Torn
      BY <1>1, SMTT(30) DEF PagesInv, PagesTypeOK, Roots, Phases
    <2>6. Phases'
      BY <1>1, <1>3, <2>5, Zenon DEF Phases, Attempted
    <2>7. Ahead'
      <3>1. Complete(image)'
        BY <1>1, <1>3, <2>3, Zenon DEF Complete
      <3>2. landed \cup returned \subseteq tree[built]
        BY <2>5, Zenon DEF PagesInv, Kept, PublishedEditsStay
      <3> QED BY <1>1, <1>3, <2>5, <3>1, <3>2, Zenon DEF Ahead
    <2>8. Kept'
      <3>1. PublishedRootIsComplete'
        BY <1>1, <1>3, <2>3 DEF PagesInv, PagesTypeOK, Roots, Kept, PublishedRootIsComplete
      <3> QED BY <1>1, <1>3, <3>1, Zenon DEF PagesInv, Kept, PublishedEditsStay
    <2>9. UnsettledIsRepairable'
      BY <1>3, Zenon DEF UnsettledIsRepairable, Attempted
    <2> QED BY <2>4, <2>6, <2>7, <2>8, <2>9, Zenon DEF PagesInv
  <1> QED BY <1>2, <1>3, Zenon DEF ContentBarrier

LEMMA PublishStep == PagesInv /\ PublishBarrier => PagesInv'
  <1> SUFFICES ASSUME PagesInv, PublishBarrier PROVE PagesInv'
    BY Zenon
  <1> USE RootsAssumption
  <1>1. /\ UNCHANGED <<policy, image, tree, built, staged, edits, taken>>
        /\ pc = "publish" /\ Attempted /\ queued = image /\ taken \subseteq tree[image]
    BY Zenon DEF PublishBarrier, PagesInv, Phases
  <1>2. CASE /\ BarrierSucceeds
             /\ root' = image
             /\ \/ /\ publication' = "Ready" /\ pc' = "idle"
                   /\ returned' = returned \cup taken
                \/ publication' = "Published" /\ pc' = "recover" /\ UNCHANGED returned
    <2>1. Lands
      BY <1>1, <1>2, BarrierLands, Zenon
    <2>2. PagesTypeOK'
      BY <1>1, <1>2, <2>1, Zenon DEF Lands, PagesInv, PagesTypeOK, Roots
    <2>3. Phases'
      BY <1>2, Zenon DEF Phases, Attempted
    <2>4. landed' \cup returned' \subseteq tree[image]
      BY <1>1, <1>2, <2>1, Zenon DEF Lands
    <2>5. Ahead'
      BY <1>1, <2>1, <2>4, Zenon DEF Lands, Ahead
    <2>6. Kept'
      BY <1>1, <2>1, <2>4, Zenon DEF Lands, Kept, PublishedEditsStay
    <2>7. UnsettledIsRepairable'
      BY <1>1, <1>2, <2>1, Zenon DEF Lands, UnsettledIsRepairable, Attempted
    <2> QED BY <2>2, <2>3, <2>5, <2>6, <2>7, Zenon DEF PagesInv
  <1>3. CASE BarrierFails /\ pc' = "recover" /\ UNCHANGED <<publication, root, returned>>
    <2>1. Misses
      BY <1>1, <1>3, BarrierMisses, Zenon
    <2>2. PagesTypeOK'
      BY <1>1, <1>3, <2>1, Zenon DEF Misses, PagesInv, PagesTypeOK, Roots
    <2>3. Phases'
      BY <1>1, <1>3, Zenon DEF Phases, Attempted
    <2>4. Ahead'
      BY <1>1, <1>3, <2>1, Zenon DEF Misses, Ahead
    <2>5. UnsettledIsRepairable'
      BY <1>1, <1>3, <2>1, Zenon DEF Misses, UnsettledIsRepairable, Attempted
    <2> QED BY <2>1, <2>2, <2>3, <2>4, <2>5, Zenon DEF PagesInv, Misses
  <1> QED BY <1>2, <1>3, Zenon DEF PublishBarrier

\* A session that ends leaves the file it wrote.
LEMMA DropStep == PagesInv /\ Drop => PagesInv'
  <1> SUFFICES ASSUME PagesInv, Drop PROVE PagesInv'
    BY Zenon
  <1> USE RootsAssumption
  <1>1. /\ UNCHANGED <<policy, publication, root, image, tree, built, edits, taken, returned>>
        /\ pc = "idle" /\ pc' = "closed" /\ staged' = {}
    BY Zenon DEF Drop, SessionEnds
  <1>2. Phases' /\ Ahead' /\ UnsettledIsRepairable'
    BY <1>1, Zenon DEF Phases, Ahead, UnsettledIsRepairable
  <1>3. CASE BarrierSucceeds
    <2>1. Lands
      BY <1>1, <1>3, BarrierLands, Zenon
    <2>2. PagesTypeOK'
      BY <1>1, <2>1, Zenon DEF Lands, PagesInv, PagesTypeOK, Roots
    <2>3. Kept'
      BY <1>1, <2>1, Zenon DEF Lands, Kept, PublishedEditsStay
    <2> QED BY <1>2, <2>2, <2>3, Zenon DEF PagesInv
  <1>4. CASE BarrierFails
    <2>1. Misses
      BY <1>1, <1>4, BarrierMisses, Zenon
    <2>2. PagesTypeOK'
      BY <1>1, <2>1, Zenon DEF Misses, PagesInv, PagesTypeOK, Roots
    <2> QED BY <1>2, <2>1, <2>2, Zenon DEF PagesInv, Misses
  <1> QED BY <1>3, <1>4, Zenon DEF Drop

LEMMA CrashStep == PagesInv /\ (Crash \/ PowerFails) => PagesInv'
  <1> SUFFICES ASSUME PagesInv, Crash \/ PowerFails PROVE PagesInv'
    BY Zenon
  <1> USE RootsAssumption
  <1>1. /\ UNCHANGED <<policy, publication, root, image, tree, built, edits, taken, returned>>
        /\ pc' = "closed" /\ staged' = {} /\ queued' = None
    BY Zenon DEF Crash, PowerFails, SessionEnds
  <1>2. Phases' /\ Ahead' /\ UnsettledIsRepairable'
    BY <1>1, Zenon DEF Phases, Ahead, UnsettledIsRepairable
  <1>3. CASE Crash
    <2>1. /\ pages' \in [0 .. MaxRoots -> {"none", "queued", "issued", "durable", "lost"}]
          /\ \A r \in 0 .. MaxRoots : pages[r] \in {"issued", "durable"} => pages'[r] = pages[r]
          /\ UNCHANGED <<disk, stored, landed>>
      BY <1>3, Zenon DEF Crash, Lost, PagesInv, PagesTypeOK
    <2>2. PagesTypeOK'
      BY <1>1, <2>1, Zenon DEF PagesInv, PagesTypeOK, Roots
    <2>3. PublishedRootIsComplete'
      BY <1>1, <2>1, SMTT(30) DEF PagesInv, PagesTypeOK, Roots, Kept, PublishedRootIsComplete
    <2>4. Kept'
      BY <1>1, <2>1, <2>3, Zenon DEF PagesInv, Kept, PublishedEditsStay
    <2> QED BY <1>2, <2>2, <2>4, Zenon DEF PagesInv
  <1>4. CASE PowerFails
    <2>1. /\ pages' \in [0 .. MaxRoots -> {"none", "queued", "issued", "durable", "lost"}]
          /\ \A r \in 0 .. MaxRoots : pages[r] = "durable" => pages'[r] = "durable"
          /\ disk' \in stored /\ stored' = {disk'} /\ policy = "Always"
      BY <1>4, Zenon DEF PowerFails, Lost, PagesInv, PagesTypeOK
    <2>2. PagesTypeOK'
      BY <1>1, <2>1, Zenon DEF PagesInv, PagesTypeOK, Roots
    <2>3. PublishedRootIsComplete'
      BY <1>1, <2>1 DEF PagesInv, PagesTypeOK, Roots, Kept, PublishedRootIsComplete
    <2>4. Kept'
      BY <1>1, <1>4, <2>1, <2>3, Zenon DEF PowerFails, PagesInv, Kept, PublishedEditsStay
    <2> QED BY <1>2, <2>2, <2>4, Zenon DEF PagesInv
  <1> QED BY <1>3, <1>4, Zenon

LEMMA ReopenStep == PagesInv /\ Reopen => PagesInv'
  <1> SUFFICES ASSUME PagesInv, Reopen PROVE PagesInv'
    BY Zenon
  <1> USE RootsAssumption
  <1>1. /\ UNCHANGED <<policy, disk, stored, pages, tree, built, staged, edits, taken, returned, landed>>
        /\ disk # Torn /\ pc' = "idle" /\ publication' = "Ready"
        /\ root' = disk /\ image' = disk /\ queued' = None
    BY Zenon DEF Reopen, onDisk, work
  <1>2. PagesTypeOK'
    BY <1>1, Zenon DEF PagesInv, PagesTypeOK, Roots
  <1>3. Phases' /\ UnsettledIsRepairable'
    BY <1>1, Zenon DEF Phases, UnsettledIsRepairable, Attempted
  <1>4. Ahead'
    BY <1>1, Zenon DEF PagesInv, Ahead, Kept, Complete, PublishedRootIsComplete, PublishedEditsStay
  <1>5. Kept'
    BY <1>1, Zenon DEF PagesInv, Kept, PublishedRootIsComplete, PublishedEditsStay
  <1> QED BY <1>2, <1>3, <1>4, <1>5, Zenon DEF PagesInv

LEMMA PagesNextPreserves == PagesInv /\ [PagesNext]_pageVars => PagesInv'
  <1> SUFFICES ASSUME PagesInv, [PagesNext]_pageVars PROVE PagesInv'
    BY Zenon
  <1>1. CASE UNCHANGED pageVars
    BY <1>1, SMTT(30) DEF pageVars, session, onDisk, work, PagesInv, PagesTypeOK, Roots, Phases, Ahead, Complete, Kept,
        PublishedRootIsComplete, PublishedEditsStay, UnsettledIsRepairable, Attempted
  <1>2. CASE PagesNext
    BY <1>2, StageStep, CallStep, SettleStep, CompleteStep, ApplyStep, ContentStep, PublishStep,
       RecoverQuietlyStep, DropStep, CrashStep, ReopenStep, Zenon DEF PagesNext
  <1> QED BY <1>1, <1>2, Zenon

LEMMA PagesInvariance == PagesSpec => []PagesInv
  BY PagesInitEstablishes, PagesNextPreserves, PTL DEF PagesSpec

(***************************************************************************)
(* The file never leads to a tree whose pages are missing, whatever step   *)
(* of commit, recover_page_publication or force_sync fails or is the last  *)
(* of the process, and under SyncPolicy::Always when power fails.          *)
(***************************************************************************)
THEOREM RootsAreComplete == PagesSpec => []PublishedRootIsComplete
  <1>1. PagesInv => PublishedRootIsComplete
    BY Zenon DEF PagesInv, Kept
  <1> QED BY <1>1, PagesInvariance, PTL

(***************************************************************************)
(* No commit undoes an edit the file has led to or a commit has reported:  *)
(* commit completes an attempted publication before it builds on the root  *)
(* it adopted.                                                             *)
(***************************************************************************)
THEOREM CommitsKeepPublishedEdits == PagesSpec => []PublishedEditsStay
  <1>1. PagesInv => PublishedEditsStay
    BY Zenon DEF PagesInv, Kept
  <1> QED BY <1>1, PagesInvariance, PTL

(***************************************************************************)
(* What a failed publication left to write stays queued, so that one       *)
(* barrier that succeeds lets recover_page_publication succeed.            *)
(***************************************************************************)
THEOREM PublicationsAreRepairable == PagesSpec => []UnsettledIsRepairable
  <1>1. PagesInv => UnsettledIsRepairable
    BY Zenon DEF PagesInv
  <1> QED BY <1>1, PagesInvariance, PTL
=============================================================================
