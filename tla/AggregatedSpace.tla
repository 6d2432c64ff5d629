-------------------------- MODULE AggregatedSpace --------------------------
(***************************************************************************)
(* The space of a session that aggregates small allocations: the metadata  *)
(* and raw windows of ClassicAggregators                                   *)
(* (crates/hdf5-pure-space/src/aggregator.rs), the engine's AggregateSpace *)
(* around them (src/edit/aggregation.rs) and the flat free list, through   *)
(* commits that succeed or roll back and the close that gives the unused   *)
(* space back.                                                             *)
(*                                                                         *)
(* The file does not persist its free space.  Writing the placements,      *)
(* publishing the superblock and truncating are one step each; a crash     *)
(* between them is the subject of StagedCommit.                            *)
(***************************************************************************)
EXTENDS FreeList, FiniteSets

CONSTANTS
    Block,             \* AGGREGATE_BLOCK_SIZE
    ListThreshold,     \* FlatSpace.threshold
    Sizes,             \* bound: the lengths requested
    AggregateEoa,      \* the end of allocation of the opened file
    MaxAggregateEoa,   \* bound: the largest end of allocation explored
    MaxFresh           \* bound: the allocations of one commit

\* What the constants must be.
ASSUME AggregatesAssumption ==
    /\ Block \in Nat \ {0}
    /\ ListThreshold \in Nat
    /\ Sizes \subseteq Nat \ {0}
    /\ AggregateEoa \in Nat \ {0}
    /\ MaxAggregateEoa \in Nat
    /\ MaxFresh \in Nat

VARIABLES
    tracked,    \* the strategy has a flat free list (FSM_AGGR), or none (AGGR)
    running,    \* a commit is being applied
    windows,    \* ClassicAggregators: by class, the aggregate or NoWindow
    sections,   \* FlatSpace.free
    allocEnd,   \* AggregateSpace.eoa
    length,     \* the length of the image
    reach,      \* the largest physical end of the commit's placements
    extents,    \* extents the published file uses
    fresh,      \* extents the running commit reserved
    wasted,     \* bytes below the end of allocation that nothing owns any more
    snapshot    \* FreeSnapshot of the running commit

aggregates == <<tracked, running, windows, sections, allocEnd, length, reach, extents, fresh, wasted, snapshot>>

WindowClasses     == {"metadata", "raw"}
OtherClass(class) == IF class = "raw" THEN "metadata" ELSE "raw"

\* An aggregate [start, end) whose bytes from cursor on are unused; NoWindow stands for None.
NoWindow  == [start |-> 0, cursor |-> 0, end |-> 0]
NoWindows == [class \in WindowClasses |-> NoWindow]
Unused(w) == {x \in {[start |-> w.cursor, end |-> w.end]} : x.start < x.end}
Spare(ws) == UNION {Unused(ws[class]) : class \in WindowClasses}

MaxOf(a, b) == IF a < b THEN b ELSE a

\* minimum_eoa(): below it, allocate, release_tail and reset are internal errors.
MinimumEoa(ws) == MaxOf(ws["metadata"].end, ws["raw"].end)

NoCommit == [windows |-> NoWindows, regions |-> {}, eoa |-> 0, lost |-> {}]

(***************************************************************************)
(* AggregateSpace::new: a file is opened without windows and without       *)
(* tracked space.  Its content is one extent per byte, so that commits may *)
(* return it in any parts.                                                 *)
(***************************************************************************)
AggregatesInit ==
    /\ tracked \in BOOLEAN
    /\ running = FALSE
    /\ windows = NoWindows
    /\ sections = {}
    /\ allocEnd = AggregateEoa
    /\ length = AggregateEoa
    /\ reach = 0
    /\ extents = {ExtentAt(x, 1) : x \in 0 .. (AggregateEoa - 1)}
    /\ fresh = {}
    /\ wasted = {}
    /\ snapshot = NoCommit

(***************************************************************************)
(* synchronize_aggregates: the end of allocation takes in what the image   *)
(* holds beyond it, which is what a rolled-back commit wrote there.        *)
(***************************************************************************)
Synchronized == MaxOf(allocEnd, length)

Orphaned == Listed(wasted \cup (allocEnd .. (Synchronized - 1)))

\* commit(): synchronize, then take the snapshot a rollback returns to.
BeginCommit ==
    /\ ~running
    /\ running' = TRUE
    /\ allocEnd' = Synchronized
    /\ wasted' = Orphaned
    /\ snapshot' = [windows |-> windows, regions |-> sections, eoa |-> Synchronized, lost |-> Orphaned]
    /\ UNCHANGED <<tracked, windows, sections, length, reach, extents, fresh>>

(***************************************************************************)
(* reserve_one: the free list first, then the aggregates.                  *)
(***************************************************************************)
Reserving == running /\ Cardinality(fresh) < MaxFresh

Reuses(size) == tracked /\ Fits(sections, size) # {}

ReserveFree(size) ==
    /\ Reserving
    /\ tracked
    /\ \E r \in sections :
         /\ BestFit(sections, size, r)
         /\ sections' = AllocFrom(sections, r, size)
         /\ fresh' = fresh \cup {ExtentAt(r.start, size)}
    /\ UNCHANGED <<tracked, running, windows, allocEnd, length, reach, extents, wasted, snapshot>>

PlacementEnd(at, size, end) == end

\* What every reservation from the aggregates does: the extent is placed up to the new end.
Aggregated(at, size, ws, end) ==
    /\ Reserving
    /\ ~Reuses(size)
    /\ end <= MaxAggregateEoa
    /\ windows' = ws
    /\ allocEnd' = end
    /\ reach' = MaxOf(reach, PlacementEnd(at, size, end))
    /\ fresh' = fresh \cup {ExtentAt(at, size)}
    /\ UNCHANGED <<tracked, running, length, extents, snapshot>>

\* The abandoned spare goes to the free list under the threshold; without a list it is lost.
AbandonSpare(unused) ==
    LET kept == {x \in unused : tracked /\ Admits(sections, ListThreshold, x)}
    IN /\ sections' = IF kept = {} THEN sections ELSE Free(sections, CHOOSE x \in kept : TRUE)
       /\ wasted' = Listed(wasted \cup Bytes(unused \ kept))

\* Aggregate::take, when the class's window has room.
HasRoom(w, size) == w.end - w.cursor >= size

TakeSpare(size, class) ==
    LET w == windows[class]
    IN /\ HasRoom(w, size)
       /\ Aggregated(w.cursor, size, [windows EXCEPT ![class].cursor = w.cursor + size], allocEnd)
       /\ UNCHANGED <<sections, wasted>>

\* A window that ends the file grows by one block, or by a larger request.
ExtendWindow(size, class) ==
    LET w   == windows[class]
        end == allocEnd + MaxOf(size, Block)
    IN /\ ~HasRoom(w, size)
       /\ w.end = allocEnd
       /\ Aggregated(w.cursor, size,
                     [windows EXCEPT ![class] = [start |-> w.start, cursor |-> w.cursor + size, end |-> end]],
                     end)
       /\ UNCHANGED <<sections, wasted>>

(***************************************************************************)
(* Otherwise the allocation is made at the end of the file, below the      *)
(* other window's spare when that ends the file and has supplied a block.  *)
(***************************************************************************)
Yields(w) ==
    /\ w.end = allocEnd
    /\ w.cursor - w.start >= Block
    /\ w.cursor < w.end

Base(class) ==
    IF Yields(windows[OtherClass(class)]) THEN windows[OtherClass(class)].cursor ELSE allocEnd

\* Mutant of Rest: the other window keeps the spare that was built over.
RestUnchanged(class) == windows

Rest(class) ==
    IF Yields(windows[OtherClass(class)]) THEN [windows EXCEPT ![OtherClass(class)] = NoWindow] ELSE windows

AtEnd(size, class) ==
    /\ ~HasRoom(windows[class], size)
    /\ windows[class].end # allocEnd

AppendLarge(size, class) ==
    /\ AtEnd(size, class)
    /\ size >= Block
    /\ Aggregated(Base(class), size, Rest(class), Base(class) + size)
    /\ UNCHANGED <<sections, wasted>>

OpenWindow(size, class) ==
    LET b == Base(class)
        w == [start |-> b, cursor |-> b + size, end |-> b + Block]
    IN /\ AtEnd(size, class)
       /\ size < Block
       /\ Aggregated(b, size, [Rest(class) EXCEPT ![class] = w], b + Block)
       /\ AbandonSpare(Unused(windows[class]))

\* AggregateSpace::place: the image is written and padded to the end of each placement.
Place ==
    /\ running
    /\ length < reach
    /\ length' = reach
    /\ UNCHANGED <<tracked, running, windows, sections, allocEnd, reach, extents, fresh, wasted, snapshot>>

(***************************************************************************)
(* release_tail and reset: the metadata window's spare is tried first.     *)
(***************************************************************************)
TailCut(w, e) == IF Unused(w) # {} /\ w.end = e THEN w.cursor ELSE e

Tail(ws, e) == TailCut(ws["raw"], TailCut(ws["metadata"], e))

ReleaseTail(ws, e) ==
    LET mid == TailCut(ws["metadata"], e)
    IN [class \in WindowClasses |->
          IF class = "metadata"
          THEN IF mid < e THEN NoWindow ELSE ws[class]
          ELSE IF TailCut(ws[class], mid) < mid THEN NoWindow ELSE ws[class]]

(***************************************************************************)
(* AggregateSpace::release_freed, the returns `batch' of a commit.  The    *)
(* windows are given up only when a free run, or dropped returns, reach    *)
(* the end of the file or the spare that ends it.                          *)
(***************************************************************************)
\* Mutant of Retains: the spare that ends the file is taken for data.
RetainsIgnoringSpare(post, mid) ==
    /\ mid = allocEnd
    /\ \A r \in post : r.end # allocEnd

Retains(post, mid) ==
    /\ mid = allocEnd
    /\ \A r \in post : r.end # Tail(windows, allocEnd)

ReleaseKeeping(post, dropped) ==
    /\ DroppedCut(dropped, allocEnd, allocEnd)
    /\ Retains(post, allocEnd)
    /\ sections' = post
    /\ wasted' = Listed(wasted \cup Bytes(dropped))
    /\ UNCHANGED <<windows, allocEnd>>

ReleaseCutting(post, dropped) ==
    LET tail    == Tail(windows, allocEnd)
        low     == Tail(ReleaseTail(windows, allocEnd), tail)
        inner   == Spare(ReleaseTail(ReleaseTail(windows, allocEnd), tail))
    IN /\ \E final \in {ReleaseBatch(post, ListThreshold, inner)}, given \in {Dropped(post, ListThreshold, inner)},
             mid \in {allocEnd} \cup {d.start : d \in dropped} :
            /\ DroppedCut(dropped, allocEnd, mid)
            /\ ~Retains(post, mid)
            /\ \E top \in {mid, low} :
                 /\ top <= mid /\ top <= low
                 /\ \E next \in {top} \cup {d.start : d \in given} :
                      /\ DroppedCut(given, top, next)
                      /\ \E cut \in {next} \cup {r.start : r \in final} :
                           /\ TrailingCut(final, next, cut)
                           /\ sections' = final \ TrailingRegion(final, next)
                           /\ allocEnd' = cut
                           /\ wasted' = Listed({x \in wasted \cup Bytes(dropped) \cup Bytes(given) : x < cut})
       /\ windows' = NoWindows

\* A strategy without a free list discards the returns and cuts nothing.
ReleaseNothing(batch) ==
    /\ wasted' = Listed(wasted \cup Bytes(batch))
    /\ UNCHANGED <<sections, windows, allocEnd>>

\* The publication: returns are released and the image is cut to the end of allocation.
PublishWindows(batch) ==
    /\ running
    /\ reach <= length
    /\ IF tracked
       THEN \E post \in {ReleaseBatch(sections, ListThreshold, batch)}, dropped \in {Dropped(sections, ListThreshold, batch)} :
                ReleaseKeeping(post, dropped) \/ ReleaseCutting(post, dropped)
       ELSE ReleaseNothing(batch)
    /\ length' = IF allocEnd' < length THEN allocEnd' ELSE length
    /\ extents' = (extents \ batch) \cup fresh
    /\ fresh' = {}
    /\ running' = FALSE
    /\ reach' = 0
    /\ snapshot' = NoCommit
    /\ UNCHANGED tracked

\* What a commit may return: whatever the file uses, but never its superblock.
Returnable == {e \in extents : e.start > 0}

Restored == snapshot

(***************************************************************************)
(* rollback_commit: the snapshot comes back, and whatever the commit wrote *)
(* beyond the old end of the file stays in the image.                      *)
(***************************************************************************)
RollBackWindows ==
    /\ running
    /\ \E reached \in length .. MaxOf(length, reach) : length' = reached
    /\ windows' = Restored.windows
    /\ sections' = Restored.regions
    /\ allocEnd' = Restored.eoa
    /\ wasted' = Restored.lost
    /\ fresh' = {}
    /\ running' = FALSE
    /\ reach' = 0
    /\ snapshot' = NoCommit
    /\ UNCHANGED <<tracked, extents>>

(***************************************************************************)
(* Close: finalize_aggregates gives back the windows and cuts the file to  *)
(* the bytes in use, and the next session of the file starts without       *)
(* knowledge of free space.                                                *)
(***************************************************************************)
CloseWindows ==
    LET e     == Synchronized
        tail  == Tail(windows, e)
        inner == Spare(ReleaseTail(windows, e))
        final == ReleaseBatch(sections, ListThreshold, inner)
        given == Dropped(sections, ListThreshold, inner)
    IN /\ ~running
       /\ \E next \in {tail} \cup {d.start : d \in given} :
            /\ IF tracked THEN DroppedCut(given, tail, next) ELSE next = tail
            /\ \E cut \in {next} \cup {r.start : r \in final} :
                 /\ IF tracked THEN TrailingCut(final, next, cut) ELSE cut = next
                 /\ allocEnd' = cut
                 /\ length' = cut
                 /\ wasted' = Listed((0 .. (cut - 1)) \ Bytes(extents))
       /\ windows' = NoWindows
       /\ sections' = {}
       /\ UNCHANGED <<tracked, running, reach, extents, fresh, snapshot>>

\* The process dies: the next session finds the file as long as it was written.
DieWithWindows ==
    /\ windows' = NoWindows
    /\ sections' = {}
    /\ allocEnd' = length
    /\ wasted' = Listed((0 .. (length - 1)) \ Bytes(extents))
    /\ fresh' = {}
    /\ running' = FALSE
    /\ reach' = 0
    /\ snapshot' = NoCommit
    /\ UNCHANGED <<tracked, length, extents>>

AggregatesNext ==
    \/ BeginCommit
    \/ \E size \in Sizes :
         \/ ReserveFree(size)
         \/ \E class \in WindowClasses :
              \/ TakeSpare(size, class)
              \/ ExtendWindow(size, class)
              \/ AppendLarge(size, class)
              \/ OpenWindow(size, class)
    \/ Place
    \/ \E batch \in SUBSET Returnable : PublishWindows(batch)
    \/ RollBackWindows
    \/ CloseWindows
    \/ DieWithWindows

AggregatesSpec == AggregatesInit /\ [][AggregatesNext]_aggregates

(***************************************************************************)
(* Properties.                                                             *)
(***************************************************************************)

(***************************************************************************)
(* Every byte below the end of allocation has one owner: the published     *)
(* file, the running commit, a free region, the unused part of a window,   *)
(* or nobody (what thresholds and rolled-back commits gave up).  So two    *)
(* windows never hand out the same byte, a spare that was abandoned is not *)
(* handed out twice, and nothing disappears unnoticed (reserve,            *)
(* release_freed, rollback_commit).  No window ends beyond the end of      *)
(* allocation, before or after the spare that ends the file is released:   *)
(* the internal errors "aggregate reservation exceeds the editor EOA" and  *)
(* "cannot reset aggregates" cannot happen, whatever commits were rolled   *)
(* back before.  Between commits the file is as long as its allocation     *)
(* (place pads it).                                                        *)
(***************************************************************************)
SpaceIsPartitioned ==
    LET used  == Bytes(extents \cup fresh)
        spare == Bytes(Spare(windows))
        free  == Bytes(sections)
    IN /\ PairwiseDisjoint(extents \cup fresh) /\ extents \cap fresh = {}
       /\ PairwiseDisjoint(Spare(windows))
       /\ Canonical(sections)
       /\ used \cap spare = {} /\ used \cap free = {} /\ spare \cap free = {}
       /\ wasted \cap (used \cup spare \cup free) = {}
       /\ used \cup spare \cup free \cup wasted = 0 .. (allocEnd - 1)
       /\ ~running => allocEnd <= length
       /\ \A e \in {allocEnd, Synchronized} :
             /\ MinimumEoa(windows) <= e
             /\ MinimumEoa(ReleaseTail(windows, e)) <= Tail(windows, e)

(***************************************************************************)
(* Between commits no free region ends the file, or ends where the unused  *)
(* space at its end begins: the commit that freed it cut the file there    *)
(* (AggregateSpace::release_freed).                                        *)
(***************************************************************************)
FreeTailIsCut == ~running => \A r \in sections : r.end # Tail(windows, allocEnd)
=============================================================================
