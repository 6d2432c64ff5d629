------------------------------ MODULE FreeList ------------------------------
(***************************************************************************)
(* The free list of crates/hdf5-pure-space/src/list/mod.rs.  The vector of *)
(* regions is sorted and its regions never touch, so it is determined by   *)
(* the set of its regions; the operators below act on that set.            *)
(***************************************************************************)
EXTENDS Extents

\* The invariant every method upholds: no two regions overlap or touch.
Canonical(list) ==
    \A r, q \in list : r = q \/ r.end < q.start \/ q.end < r.start

(***************************************************************************)
(* free(extent): the regions that touch or overlap the extent fold into    *)
(* one merged region.  At most one of them starts below the extent and at  *)
(* most one ends above it, because the list is canonical.                  *)
(***************************************************************************)
Free(list, e) ==
    LET run   == {r \in list : r.end >= e.start /\ r.start <= e.end}
        below == {r \in run : r.start < e.start}
        above == {r \in run : r.end > e.end}
    IN (list \ run) \cup
         {[start |-> IF below = {} THEN e.start ELSE (CHOOSE r \in below : TRUE).start,
           end   |-> IF above = {} THEN e.end ELSE (CHOOSE r \in above : TRUE).end]}

(***************************************************************************)
(* alloc(len): `r' is the region alloc chooses, the shortest that fits and *)
(* the lowest of those, and the allocation is taken from its low end.      *)
(***************************************************************************)
Fits(list, len) == {r \in list : ExtentLen(r) >= len}

BestFit(list, len, r) ==
    /\ r \in Fits(list, len)
    /\ \A q \in Fits(list, len) :
         \/ ExtentLen(r) < ExtentLen(q)
         \/ ExtentLen(r) = ExtentLen(q) /\ r.start <= q.start

AllocFromWhole(list, r, len) == list \ {r}

AllocFrom(list, r, len) ==
    (list \ {r}) \cup {x \in {[start |-> r.start + len, end |-> r.end]} : x.start < x.end}

\* alloc_below(len, limit): best fit among the regions whose low end ends by the limit.
Below(list, len, limit) == {r \in list : r.start + len <= limit}

\* take_range(extent): drops the covered part of every region and keeps both sides.
TakeRange(list, e) ==
    {r \in list : ~Overlaps(r, e)}
      \cup {[start |-> r.start, end |-> e.start] :
              r \in {q \in list : Overlaps(q, e) /\ q.start < e.start}}
      \cup {[start |-> e.end, end |-> r.end] :
              r \in {q \in list : Overlaps(q, e) /\ q.end > e.end}}

\* adjoins(extent).
Adjoins(list, e) == \E r \in list : AdjoinsExtent(r, e)

(***************************************************************************)
(* TrackedSpace::release(threshold, extent) for one extent.                *)
(***************************************************************************)
Admits(list, threshold, e) == ExtentLen(e) >= threshold \/ Adjoins(list, e)

Release(list, threshold, e) == IF Admits(list, threshold, e) THEN Free(list, e) ELSE list

(***************************************************************************)
(* release_batch(threshold, extents): a contiguous run of regions and      *)
(* returned extents is admitted when it holds a region or a returned       *)
(* extent of at least the threshold; the other returned extents drop.      *)
(***************************************************************************)
Connected(list, a, b) ==
    \A x \in BytesOf(a) \cup BytesOf(b) : \A y \in BytesOf(a) \cup BytesOf(b) :
        x <= y => x .. y \subseteq Bytes(list)

Seeds(list, threshold, batch) == list \cup {b \in batch : ExtentLen(b) >= threshold}

Admitted(list, threshold, batch) ==
    {b \in batch : \E s \in Seeds(list, threshold, batch) : Connected(list \cup batch, s, b)}

Dropped(list, threshold, batch) == batch \ Admitted(list, threshold, batch)

\* from_sorted: the maximal runs of the bytes of disjoint extents.
Coalesce(list) ==
    {x \in [start : {a.start : a \in list}, end : {b.end : b \in list}] :
        /\ x.start < x.end
        /\ BytesOf(x) \subseteq Bytes(list)
        /\ (x.start - 1) \notin Bytes(list)
        /\ x.end \notin Bytes(list)}

ReleaseBatch(list, threshold, batch) == Coalesce(list \cup Admitted(list, threshold, batch))

(***************************************************************************)
(* release_all: `cut' is the end of allocation after the dropped extents   *)
(* that end it are given up, one below the other.                          *)
(***************************************************************************)
DroppedCut(dropped, eoa, cut) ==
    /\ cut \in {eoa} \cup {d.start : d \in dropped}
    /\ cut .. (eoa - 1) \subseteq Bytes(dropped)
    /\ \A d \in dropped : d.end # cut

\* take_trailing(eof): the region that ends the file, if there is one.
TrailingRegion(list, eof) == {r \in list : r.end = eof}

TrailingCut(list, eof, cut) ==
    \/ TrailingRegion(list, eof) = {} /\ cut = eof
    \/ \E r \in TrailingRegion(list, eof) : cut = r.start

(***************************************************************************)
(* release_trailing_run(eoa, tail_len): the trailing region gives up what  *)
(* lies above ReserveTails * tail_len of it, when that is at least as much *)
(* as it keeps.                                                            *)
(***************************************************************************)
TrailingRunCut(list, eoa, keep, cut) ==
    \/ cut = eoa /\ \A r \in TrailingRegion(list, eoa) : ExtentLen(r) < 2 * keep
    \/ \E r \in TrailingRegion(list, eoa) : ExtentLen(r) >= 2 * keep /\ cut = r.start + keep
=============================================================================
