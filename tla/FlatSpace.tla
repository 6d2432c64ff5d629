----------------------------- MODULE FlatSpace -----------------------------
(***************************************************************************)
(* Reusable space of one editing session under the flat strategy:          *)
(* SessionSpace::Flat (crates/hdf5-pure-space/src/session.rs), the end of  *)
(* allocation the image supplies, and the placement of the free-space      *)
(* managers' tail by publish_persisting and flat_tail_layout               *)
(* (src/edit/commit/publish.rs).                                           *)
(*                                                                         *)
(* A publication is one step here; what a crash inside it leaves on disk   *)
(* is the subject of StagedCommit.  TailPlacement::Preserve and Recycle    *)
(* (managers shorter than the threshold) are not modelled.                 *)
(***************************************************************************)
EXTENDS FreeList

CONSTANTS
    Threshold,      \* FlatSpace.threshold
    ReserveTails,   \* TRAILING_RESERVE_TAILS
    Lengths,        \* bound: the allocation lengths requested
    TailLengths,    \* bound: the serialized lengths of extension and managers
    InitEoa,        \* the end of allocation of the opened file
    MaxEoa          \* bound: the largest end of allocation explored

ASSUME FlatSpaceAssumption ==
    /\ Threshold \in Nat
    /\ ReserveTails \in Nat \ {0}
    /\ Lengths \subseteq Nat \ {0}
    /\ TailLengths \subseteq Nat \ {0}
    /\ InitEoa \in Nat \ {0}
    /\ MaxEoa \in Nat

VARIABLES
    regions,   \* FlatSpace.free
    eoa,       \* WriteEngine::end_of_allocation
    live,      \* extents handed out and not yet returned
    tail,      \* PersistState.old_blocks: the published managers' allocation
    lost,      \* bytes below eoa that the threshold dropped
    persist    \* WriteEngine.persist is armed: the file persists its managers

vars == <<regions, eoa, live, tail, lost, persist>>

\* A file is opened with its content live, no tracked space and no managers.
Init ==
    /\ persist \in BOOLEAN
    /\ regions = {}
    /\ eoa = InitEoa
    /\ live = {ExtentAt(0, InitEoa)}
    /\ tail = {}
    /\ lost = {}

(***************************************************************************)
(* allocate(len): best fit from the free list.  alloc_or_append falls back *)
(* to the end of allocation when no region fits.                           *)
(***************************************************************************)
Allocate(len) ==
    \E r \in regions :
        /\ BestFit(regions, len, r)
        /\ regions' = AllocFrom(regions, r, len)
        /\ live' = live \cup {ExtentAt(r.start, len)}
        /\ UNCHANGED <<eoa, tail, lost, persist>>

AppendAtEoa(len) ==
    /\ Fits(regions, len) = {}
    /\ eoa + len <= MaxEoa
    /\ live' = live \cup {ExtentAt(eoa, len)}
    /\ eoa' = eoa + len
    /\ UNCHANGED <<regions, tail, lost, persist>>

\* return_allocation: a reservation goes back whole, without the threshold.
ReturnAllocation(e) ==
    /\ e \in live
    /\ regions' = Free(regions, e)
    /\ live' = live \ {e}
    /\ UNCHANGED <<eoa, tail, lost, persist>>

\* record_freed: one retired extent under the threshold; a dropped one is lost.
RecordFreed(e) ==
    /\ e \in live
    /\ regions' = Release(regions, Threshold, e)
    /\ live' = live \ {e}
    /\ lost' = IF Admits(regions, Threshold, e) THEN lost ELSE lost \cup BytesOf(e)
    /\ UNCHANGED <<eoa, tail, persist>>

(***************************************************************************)
(* release_freed: a non-persisting commit's returns are admitted, then the *)
(* dropped extents and the tracked region that end the file are cut off.   *)
(***************************************************************************)
ReleaseFreed(batch) ==
    LET post    == ReleaseBatch(regions, Threshold, batch)
        dropped == Dropped(regions, Threshold, batch)
    IN /\ ~persist
       /\ batch \subseteq live
       /\ batch # {}
       /\ \E mid \in {eoa} \cup {d.start : d \in dropped} :
            /\ DroppedCut(dropped, eoa, mid)
            /\ \E cut \in {mid} \cup {r.start : r \in post} :
                 /\ TrailingCut(post, mid, cut)
                 /\ regions' = post \ TrailingRegion(post, mid)
                 /\ eoa' = cut
                 /\ lost' = {x \in lost \cup Bytes(dropped) : x < cut}
       /\ live' = live \ batch
       /\ UNCHANGED <<tail, persist>>

\* Mutant of TailSource: the publication may already draw on its own returns.
TailSourceAfterReturns(batch) == ReleaseBatch(regions, Threshold, batch \cup tail)

(***************************************************************************)
(* The space a tail may be reserved from: what was reusable before this    *)
(* publication.  Its own returns and the managers it supersedes stay live  *)
(* until the superblock is published.                                      *)
(***************************************************************************)
TailSource(batch) == regions

(***************************************************************************)
(* flat_tail_layout with a reservation at the low end of region r: the     *)
(* returns are admitted to what the reservation left, and the trailing run *)
(* above the reserve is released.                                          *)
(***************************************************************************)
PublishTailIn(r, batch, len) ==
    LET kept     == AllocFrom(TailSource(batch), r, len)
        returns  == batch \cup tail
        admitted == ReleaseBatch(kept, Threshold, returns)
        dropped  == Dropped(kept, Threshold, returns)
    IN /\ \E mid \in {eoa} \cup {d.start : d \in dropped} :
            /\ DroppedCut(dropped, eoa, mid)
            /\ \E cut \in {mid} \cup {x.start + ReserveTails * len : x \in admitted} :
                 /\ TrailingRunCut(admitted, mid, ReserveTails * len, cut)
                 /\ regions' = IF cut < mid
                               THEN TakeRange(admitted, [start |-> cut, end |-> mid])
                               ELSE admitted
                 /\ eoa' = cut
                 /\ lost' = {x \in lost \cup Bytes(dropped) : x < cut}
       /\ tail' = {ExtentAt(r.start, len)}
       /\ live' = live \ batch
       /\ UNCHANGED persist

PublishReusingTail(batch, len) ==
    /\ persist
    /\ batch \subseteq live
    /\ \E r \in TailSource(batch) :
         BestFit(TailSource(batch), len, r) /\ PublishTailIn(r, batch, len)

(***************************************************************************)
(* flat_tail_layout without a reservation: the managers are appended at    *)
(* the end of allocation and the whole trailing run is kept.  It appends   *)
(* when nothing fits, and also when the managers outgrow every reservation *)
(* it tries or nothing is left to record; their size is not modelled, so   *)
(* either placement may happen when a region fits.                         *)
(***************************************************************************)
PublishAppendingTail(batch, len) ==
    LET returns == batch \cup tail
    IN /\ persist
       /\ batch \subseteq live
       /\ eoa + len <= MaxEoa
       /\ regions' = ReleaseBatch(regions, Threshold, returns)
       /\ lost' = lost \cup Bytes(Dropped(regions, Threshold, returns))
       /\ tail' = {ExtentAt(eoa, len)}
       /\ eoa' = eoa + len
       /\ live' = live \ batch
       /\ UNCHANGED persist

(***************************************************************************)
(* shrink_to_the_trailing_free_run: managers that end the file, or adjoin  *)
(* the free run that does, move below themselves when the combined run is  *)
(* worth releasing (TailPlacement::ReuseOnly).                             *)
(***************************************************************************)
RunStart(e) ==
    IF \E r \in regions : r.end = e THEN (CHOOSE r \in regions : r.end = e).start ELSE e

ShrinkToTrailingFreeRun(len) ==
    /\ persist
    /\ \E t \in tail :
         /\ t.end = eoa \/ RunStart(eoa) = t.end
         /\ eoa - RunStart(t.start) >= 2 * ReserveTails * ExtentLen(t)
         /\ \E r \in Below(TailSource({}), len, t.start) :
              /\ BestFit(Below(TailSource({}), len, t.start), len, r)
              /\ PublishTailIn(r, {}, len)

Next ==
    \/ \E len \in Lengths : Allocate(len) \/ AppendAtEoa(len)
    \/ \E e \in live : ReturnAllocation(e) \/ RecordFreed(e)
    \/ \E batch \in SUBSET live :
         \/ ReleaseFreed(batch)
         \/ \E len \in TailLengths :
              PublishReusingTail(batch, len) \/ PublishAppendingTail(batch, len)
    \/ \E len \in TailLengths : ShrinkToTrailingFreeRun(len)

Spec == Init /\ [][Next]_vars

(***************************************************************************)
(* Properties.                                                             *)
(***************************************************************************)

\* Types of the session's space.
TypeOK ==
    /\ regions \subseteq Extent
    /\ live \subseteq Extent
    /\ tail \subseteq Extent
    /\ eoa \in Nat
    /\ lost \subseteq Nat
    /\ persist \in BOOLEAN

(***************************************************************************)
(* Every byte below the end of allocation has exactly one owner: a live    *)
(* extent, the managers' tail, one free region, or the bytes the threshold *)
(* gave up.  So an allocation never overlaps live data, no byte is free    *)
(* twice, and a truncation to eoa cuts nothing that is still in use.       *)
(***************************************************************************)
OneOwnerPerByte ==
    /\ PairwiseDisjoint(live \cup tail)
    /\ Bytes(live) \cap Bytes(tail) = {}
    /\ Bytes(live) \cap Bytes(regions) = {}
    /\ Bytes(tail) \cap Bytes(regions) = {}
    /\ lost \cap (Bytes(live) \cup Bytes(tail) \cup Bytes(regions)) = {}
    /\ Bytes(live) \cup Bytes(tail) \cup Bytes(regions) \cup lost = 0 .. (eoa - 1)

\* FreeList's documented invariant: regions are sorted, non-empty and never touch or overlap.
FreeListCanonical == Canonical(regions)

(***************************************************************************)
(* A publication never places the managers on bytes that the previous      *)
(* publication still refers to: not on live data, not on the superseded    *)
(* managers, not on what this publication returns (publish_persisting:     *)
(* "This commit's pending frees remain live until the root publication").  *)
(***************************************************************************)
TailAvoidsReferencedBytes ==
    [][tail' # tail => Bytes(tail') \cap (Bytes(live) \cup Bytes(tail)) = {}]_vars
=============================================================================
