---------------------------- MODULE PagedSpace -----------------------------
(***************************************************************************)
(* The space of a session on a file with the PAGE strategy that persists   *)
(* its free space (crates/hdf5-pure-space/src/paged, reservation.rs), with *)
(* the placements, roll backs and publications of the engine that uses it  *)
(* (src/edit).  Metadata and raw data live in different pages.             *)
(*                                                                         *)
(* Every free list is canonical, so it is known by the set of its bytes:   *)
(* its regions are the maximal runs of that set.  A region of the file     *)
(* that is in use keeps its extent, because returns are admitted by the    *)
(* length they were allocated with.                                        *)
(***************************************************************************)
EXTENDS Extents, FiniteSets

CONSTANTS
    PageSize,     \* file-space page size
    Thresholds,   \* free-space section thresholds considered
    ReserveTails, \* TRAILING_RESERVE_TAILS
    Lengths,      \* lengths of allocations
    TailLengths,  \* lengths of the managers' reservation
    InitEoa,      \* end of allocation of the file that is opened
    MaxEoa,       \* bound: end of allocation
    MaxLive,      \* bound: allocations in use
    MaxFreed      \* bound: allocations one publication returns

ASSUME PagedSpaceAssumption ==
    /\ PageSize \in Nat \ {0}
    /\ Thresholds \subseteq Nat
    /\ Lengths \subseteq Nat \ {0}
    /\ TailLengths \subseteq Nat \ {0}
    /\ InitEoa % PageSize = 0

VARIABLES
    free,       \* by class: the bytes of the lists meta, raw, dead and unclassified
    pad,        \* by page type: meta_pad and raw_pad
    last,       \* type of the page at the end of allocation
    eoa,        \* end of allocation
    live,       \* allocations in use, with their page type
    tail,       \* old_blocks: extents of the published managers
    lost,       \* bytes below eoa that are neither in use nor tracked
    saved,      \* the snapshot of the running commit or append batch
    threshold,  \* free-space section threshold
    clean       \* nothing happened since the last publication

vars == <<free, pad, last, eoa, live, tail, lost, saved, threshold, clean>>

PageTypes == {"meta", "raw"}
Classes   == {"meta", "raw", "dead", "unclassified"}
Typed     == {"meta", "raw", "dead"}

\* One set for each class, and for each page type.
ByClass(Of(_)) ==
    [meta |-> Listed(Of("meta")), raw |-> Listed(Of("raw")), dead |-> Listed(Of("dead")),
     unclassified |-> Listed(Of("unclassified"))]
ByType(Of(_)) == [meta |-> Listed(Of("meta")), raw |-> Listed(Of("raw"))]

Other(type) == IF type = "meta" THEN "raw" ELSE "meta"

RoundDown(a) == (a \div PageSize) * PageSize
RoundUp(a)   == RoundDown(a + PageSize - 1)
Page(a)      == ExtentAt(RoundDown(a), PageSize)

\* The regions of a list: maximal runs of its bytes.
Runs(bytes) ==
    LET ends == {b \in bytes : b + 1 \notin bytes}
    IN  {[start |-> a, end |-> 1 + (CHOOSE b \in ends : b >= a /\ \A c \in ends : c >= a => b <= c)] :
            a \in {b \in bytes : b - 1 \notin bytes}}

\* Extent::aligned_interior, possibly empty.
Interior(e) == [start |-> RoundUp(e.start), end |-> RoundDown(e.end)]

\* The pages a set of bytes covers.
WholePages(bytes) == {b \in bytes : BytesOf(Page(b)) \subseteq bytes}

\* The best of some extents: the smallest by their sizes, and the lowest of those.
Best(extents, size) ==
    {e \in extents : \A x \in extents :
        size[e] < size[x] \/ (size[e] = size[x] /\ e.start <= x.start)}

(***************************************************************************)
(* Allocation from the lists (PagedEdit::allocate, allocate_block and      *)
(* ReservationBatch::reserve).  A request has a length, a page type, and   *)
(* is a block, which stays inside a page or starts at one, or not.         *)
(***************************************************************************)
Requests == [len : Lengths, type : PageTypes, block : BOOLEAN]

\* ReservationRequest::place_after.
PlaceAfter(start, request) ==
    LET remaining == PageSize - (start % PageSize)
        moves     == request.block /\ start % PageSize # 0 /\
                        (request.len >= PageSize \/ request.len > remaining)
    IN  ExtentAt(IF moves THEN start + remaining ELSE start, request.len)

Lower(a, b)  == IF a < b THEN a ELSE b
Higher(a, b) == IF a < b THEN b ELSE a

\* Extent::block_capacity.
BlockCapacity(e, len) ==
    LET head == Lower(ExtentLen(e), PageSize - (e.start % PageSize))
        rest == ExtentLen(e) - head
    IN  CASE len < PageSize           -> Higher(head, Lower(rest, PageSize))
          [] e.start % PageSize = 0   -> ExtentLen(e)
          [] OTHER                    -> rest

Capacity(e, request) == IF request.block THEN BlockCapacity(e, request.len) ELSE ExtentLen(e)

\* FreeList::alloc and alloc_block: at most one extent of the request's own list.
FromOwn(list, request) ==
    LET size == [r \in Runs(list) |-> Capacity(r, request)]
    IN  {PlaceAfter(e.start, request) :
            e \in Best({r \in DOMAIN size : size[r] >= request.len}, size)}

\* FreeList::alloc_whole_units: whole pages of the other list.
FromOther(list, request) ==
    LET size == [e \in {Interior(r) : r \in Runs(list)} |-> ExtentLen(e)]
    IN  {ExtentAt(e.start, RoundUp(request.len)) :
            e \in Best({x \in DOMAIN size : size[x] >= RoundUp(request.len)}, size)}

\* The possible reservation, at most one: its extent, and the lists after it.
Reservations(lists, request) ==
    LET own     == FromOwn(lists[request.type], request)
        claimed == FromOther(lists[Other(request.type)], request)
    IN  IF own # {}
        THEN {[at |-> e, lists |-> [lists EXCEPT ![request.type] = Listed(@ \ BytesOf(e))]] : e \in own}
        ELSE {[at |-> ExtentAt(e.start, request.len),
               lists |-> [lists EXCEPT ![Other(request.type)] = Listed(@ \ BytesOf(e)),
                                       ![request.type] = Listed(@ \cup (BytesOf(e) \ BytesOf(ExtentAt(e.start, request.len))))]] :
                e \in claimed}

(***************************************************************************)
(* Returns (PagedEdit::post_free).  A return is an extent and the class it *)
(* is returned to.                                                         *)
(***************************************************************************)

\* TrackedSpace::merges: a short return completes a page in part, a long one extends a run of pages.
Merges(lists, e) ==
    IF ExtentLen(e) < PageSize
    THEN \E c \in Typed : \/ e.start - 1 \in lists[c] /\ e.start % PageSize # 0
                          \/ e.end \in lists[c] /\ e.end % PageSize # 0
    ELSE \/ e.start - 1 \in lists["unclassified"] \/ e.end \in lists["unclassified"]
         \/ \E c \in Typed : \/ (e.start - PageSize)..(e.start - 1) \subseteq lists[c] /\ e.start % PageSize = 0
                             \/ e.end..(e.end + PageSize - 1) \subseteq lists[c] /\ e.end % PageSize = 0

\* track: returns join the lists of their classes.
Track(lists, returns) ==
    ByClass(LAMBDA c : lists[c] \cup UNION {BytesOf(x.at) : x \in {y \in returns : y.class = c}})

\* release_batch: those that reach the threshold, and, again and again, those that merge.
Admission(lists, returns) ==
    LET admitted[n \in 0..Cardinality(returns)] ==
            IF n = 0 THEN {x \in returns : ExtentLen(x.at) >= threshold}
            ELSE LET before == admitted[n - 1]
                     after  == Track(lists, before)
                 IN  before \cup {x \in returns \ before : Merges(after, x.at)}
    IN  admitted[Cardinality(returns)]

\* promote_whole_free_pages.
Promote(lists) ==
    LET whole == WholePages(lists["meta"] \cup lists["raw"] \cup lists["dead"])
    IN  ByClass(LAMBDA c : CASE c = "raw"          -> lists[c] \cup whole
                             [] c = "unclassified" -> lists[c]
                             [] OTHER              -> lists[c] \ whole)

\* pages_completed_by_merges: the pages a short admitted return completes.
Completed(lists, admitted) ==
    LET typed == lists["meta"] \cup lists["raw"] \cup lists["dead"]
        short == {x.at : x \in {y \in admitted : ExtentLen(y.at) < PageSize}}
    IN  {p \in {Page(e.start) : e \in short} \cup {Page(e.end - 1) : e \in short} : BytesOf(p) \subseteq typed}

\* release_pages: completed pages are taken out and returned again, as pages.
Reoffered(pages) == {[at |-> p, class |-> "raw"] : p \in pages}

WithoutPages(lists, pages) ==
    ByClass(LAMBDA c : IF c \in Typed THEN lists[c] \ Bytes(pages) ELSE lists[c])

\* give_back: the dropped returns of a page or more that run up to the end.
TrailingDropped(dropped, end) ==
    {x \in dropped :
        /\ ExtentLen(x.at) >= PageSize
        /\ \A b \in x.at.start..(end - 1) :
              \E y \in dropped : ExtentLen(y.at) >= PageSize /\ b \in BytesOf(y.at)}

\* What remains of a page below the new end is tracked in the class of its return.
GivenBack(lists, dropped, end) ==
    LET trailing == TrailingDropped(dropped, end)
        lowest   == {x \in trailing : \A y \in trailing : x.at.start <= y.at.start}
        start    == IF trailing = {} THEN end ELSE (CHOOSE x \in lowest : TRUE).at.start
        head     == {[at |-> [start |-> start, end |-> RoundUp(start)], class |-> x.class] : x \in lowest}
    IN  [lists |-> Track(lists, head), end |-> RoundUp(start)]

\* with_padding: pending padding joins the lists.
Padded(lists, padding) ==
    ByClass(LAMBDA c : IF c \in PageTypes THEN lists[c] \cup padding[c] ELSE lists[c])

\* release_all, and the promotion of whole free pages.
PostFree(lists, returns, end) ==
    LET admitted  == Admission(lists, returns)
        once      == Track(lists, admitted)
        pages     == IF threshold > PageSize THEN Completed(once, admitted) ELSE {}
        again     == Admission(WithoutPages(once, pages), Reoffered(pages))
        given     == GivenBack(Track(WithoutPages(once, pages), again),
                               (returns \ admitted) \cup (Reoffered(pages) \ again), end)
    IN  [given EXCEPT !.lists = Promote(@)]

\* trailing_run_start over all lists.
TrailingStart(lists, end) ==
    LET all == UNION {lists[c] : c \in Classes}
        run == {a \in 0..end : a..(end - 1) \subseteq all}
    IN  CHOOSE a \in run : \A b \in run : a <= b

\* release_trailing: a long free run at the end is cut to a reserve.
ReleaseTrailing(post, len) ==
    LET cut  == RoundUp(TrailingStart(post.lists, post.end))
        keep == RoundUp(ReserveTails * len)
    IN  IF cut >= post.end \/ post.end - cut < 2 * keep THEN post
        ELSE [lists |-> ByClass(LAMBDA c : post.lists[c] \ ((cut + keep)..post.end)), end |-> cut + keep]

-----------------------------------------------------------------------------

Used(allocations) == Bytes({x.at : x \in allocations})
NoPad             == ByType(LAMBDA t : {})
NoSnapshot        == [kind |-> "none", free |-> ByClass(LAMBDA c : {}), pad |-> NoPad, last |-> "unset", eoa |-> 0, fresh |-> {}]

\* persisted_parts: the lists that hold a section of a manager.
Loaded(kind, bytes) ==
    LET pages == Bytes({Interior(e) : e \in Runs(bytes)})
    IN  ByClass(LAMBDA c : CASE kind \in PageTypes       -> IF c = kind THEN bytes ELSE {}
                             [] kind = "generic"         -> IF c = "raw" THEN pages
                                                            ELSE IF c = "unclassified" THEN bytes \ pages ELSE {}
                             [] OTHER                    -> IF c = "unclassified" THEN bytes ELSE {})

Joined(a, b) == ByClass(LAMBDA c : a[c] \cup b[c])

\* Bytes that hold, or are kept for, one type of page.
OfType(type) == Used({x \in live : x.type = type}) \cup free[type] \cup pad[type]
                  \cup (IF type = "meta" THEN Bytes(tail) ELSE {})

PagesOf(bytes) == {RoundDown(b) : b \in bytes}

(***************************************************************************)
(* No page holds both metadata and raw data, or is kept for both (edit.rs: *)
(* "A paged file never mixes metadata and raw data within one page").      *)
(***************************************************************************)
PagesAreNotMixed == PagesOf(OfType("meta")) \cap PagesOf(OfType("raw")) = {}

(***************************************************************************)
(* A file whose managers are at its start and record one section up to its *)
(* end, of a file-wide manager or of a page class; the rest is in use for  *)
(* good.                                                                   *)
(***************************************************************************)
Init ==
    /\ \E kind \in {"meta", "raw", "generic", "flat"}, a \in 1..InitEoa :
        /\ free = Promote(Loaded(kind, a..(InitEoa - 1)))
        /\ lost = 1..(a - 1)
    /\ pad = NoPad
    /\ last = "unset"
    /\ eoa = InitEoa
    /\ live = {}
    /\ tail = {ExtentAt(0, 1)}
    /\ saved = NoSnapshot
    /\ threshold \in Thresholds
    /\ clean = FALSE
    /\ PagesAreNotMixed

\* commit takes allocation_snapshot, prepare_append_allocation takes append_snapshot.
Begin(kind) ==
    /\ saved.kind = "none"
    /\ saved' = [kind |-> kind, free |-> free, pad |-> pad, last |-> last, eoa |-> eoa, fresh |-> {}]
    /\ clean' = FALSE
    /\ UNCHANGED <<free, pad, last, eoa, live, tail, lost, threshold>>

Holds(x) ==
    /\ live' = live \cup {x}
    /\ saved' = [saved EXCEPT !.fresh = @ \cup {x}]

Running == saved.kind # "none" /\ Cardinality(live) < MaxLive

\* A placement served from free space.
Reuse(request) ==
    /\ Running
    /\ \E r \in Reservations(free, request) :
        /\ free' = r.lists
        /\ Holds([at |-> r.at, type |-> request.type])
    /\ UNCHANGED <<pad, last, eoa, tail, lost, threshold, clean>>

\* Bytes [from, to) at the end become padding of the last page, or are forgotten.
PadTo(from, to) ==
    /\ pad' = ByType(LAMBDA t : IF t = last THEN pad[t] \cup (from..(to - 1)) ELSE pad[t])
    /\ lost' = IF last = "unset" THEN Listed(lost \cup (from..(to - 1))) ELSE lost

\* Mutant of CursorStart: the page at the end takes any type.
CursorStartAnyType(type) == eoa

\* The page at the end is left when it is of another type.
CursorStart(type) == IF eoa % PageSize # 0 /\ last # type THEN RoundUp(eoa) ELSE eoa

\* AppendCursor::reserve and the transition it records: a placement at the end of allocation.
Extend(request) ==
    LET at == PlaceAfter(CursorStart(request.type), request)
    IN  /\ Running
        /\ Reservations(free, request) = {}
        /\ at.end <= MaxEoa
        /\ PadTo(eoa, at.start)
        /\ last' = request.type
        /\ eoa' = at.end
        /\ Holds([at |-> at, type |-> request.type])
        /\ UNCHANGED <<free, tail, threshold, clean>>

\* Mutant of RollBack: nothing the commit reserved returns.
RollBackKeeping ==
    /\ saved.kind = "commit"
    /\ live' = live \ saved.fresh
    /\ saved' = NoSnapshot
    /\ UNCHANGED <<free, pad, last, eoa, tail, lost, threshold, clean>>

\* rollback_commit: the two lists return; what was appended stays in the file, in use by nothing.
RollBack ==
    /\ saved.kind = "commit"
    /\ free' = [free EXCEPT !["meta"] = saved.free["meta"], !["raw"] = saved.free["raw"]]
    /\ live' = live \ saved.fresh
    /\ lost' = Listed(lost \cup {b \in Used(saved.fresh) : b >= saved.eoa})
    /\ saved' = NoSnapshot
    /\ UNCHANGED <<pad, last, eoa, tail, threshold, clean>>

\* restore_append_allocation: everything returns, and the file to its length.
Restore ==
    /\ saved.kind = "append"
    /\ free' = saved.free
    /\ pad' = saved.pad
    /\ last' = saved.last
    /\ eoa' = saved.eoa
    /\ live' = live \ saved.fresh
    /\ lost' = {b \in lost : b < saved.eoa}
    /\ saved' = NoSnapshot
    /\ UNCHANGED <<tail, threshold, clean>>

\* Bytes that were tracked or returned, and that no list keeps, stay in the file.
Forgotten(before, returns, after, end) ==
    {b \in Bytes({x.at : x \in returns}) \cup UNION {before[c] : c \in Classes} :
        b < end /\ \A c \in Classes : b \notin after[c]}

\* record_freed: an immediate append returns what it replaced; the end of allocation stays.
RecordFreed(x, class) ==
    LET returns == {[at |-> x.at, class |-> class]}
    IN  /\ saved.kind = "none"
        /\ x \in live
        /\ class \in {x.type, "dead"}
        /\ \E post \in {PostFree(Padded(free, pad), returns, eoa)} :
              /\ free' = post.lists
              /\ lost' = Listed(lost \cup Forgotten(Padded(free, pad), returns, post.lists, eoa))
        /\ pad' = NoPad
        /\ live' = live \ {x}
        /\ clean' = FALSE
        /\ UNCHANGED <<last, eoa, tail, saved, threshold>>

(***************************************************************************)
(* Publication of the managers (commit_persisting_paged, with the plan of  *)
(* paged_persistence.rs) as one step: the steps it takes on the file are   *)
(* those of StagedCommit.  The last page is padded, the managers are       *)
(* placed, returns join the lists, and the lists are adopted.              *)
(***************************************************************************)

\* What a commit frees, and the superseded managers.
OldBlocks == {[at |-> e, class |-> "meta"] : e \in tail}

Freeable == UNION {[at : {y.at}, class : {y.type, "dead"}] : y \in live \ saved.fresh}

Freed ==
    IF saved.kind # "commit" THEN {{}}
    ELSE {set \in SUBSET Freeable : Cardinality(set) <= MaxFreed /\ \A x, y \in set : x.at = y.at => x = y}

\* The layout fills each page of a reservation from its start; the gaps it leaves, with something left.
Gaps(at) ==
    {gap \in SUBSET BytesOf(at) :
        /\ gap # BytesOf(at)
        /\ \A b \in gap : b + 1 \in gap \/ b + 1 = at.end \/ (b + 1) % PageSize = 0}

\* with_metadata_padding.
WithGaps(lists, gap) == IF gap = {} THEN lists ELSE Promote([lists EXCEPT !["meta"] = Listed(@ \cup gap)])

\* pad_to_page and the padding it records.
PaddedEnd == RoundUp(eoa)
PaddedAll == Padded(free, ByType(LAMBDA t : IF t = last THEN pad[t] \cup (eoa..(PaddedEnd - 1)) ELSE pad[t]))
PadLost   == IF last = "unset" THEN eoa..(PaddedEnd - 1) ELSE {}

\* The publication adopts the lists, the reservation without its gaps, and the end.
Adopt(at, gap, before, lists, end, returns, freed) ==
    /\ end <= MaxEoa
    /\ free' = WithGaps(lists, gap)
    /\ pad' = NoPad
    /\ eoa' = end
    /\ tail' = Runs(BytesOf(at) \ gap)
    /\ live' = {x \in live : \A y \in freed : x.at # y.at}
    /\ lost' = Listed({b \in lost \cup PadLost : b < end} \cup Forgotten(before, returns, free', end))
    /\ saved' = NoSnapshot
    /\ clean' = TRUE
    /\ UNCHANGED threshold

\* The managers' reservation: whole, or as a block when the whole one crossed a page boundary.
TailRequest(len, block) == [len |-> len, type |-> "meta", block |-> block]

TailRequests(len) ==
    {TailRequest(len, FALSE)} \cup
        {TailRequest(len, TRUE) : r \in {x \in Reservations(free, TailRequest(len, FALSE)) :
            len < PageSize /\ RoundDown(x.at.start) # RoundDown(x.at.end - 1)}}

\* Mutant of TailLists: the managers are placed after the returns.
TailListsAfterReturns(returns) == PostFree(PaddedAll, returns, PaddedEnd).lists

\* plan_reusable_tail: the managers are placed in what was free before anything returns.
TailLists(returns) == free

\* Pending padding beside the reservation that was made.
Around(lists, padded) == ByClass(LAMBDA c : lists[c] \cup (padded[c] \ free[c]))

ReuseTail(len, freed) ==
    LET returns == freed \cup OldBlocks
    IN  \E request \in TailRequests(len) : \E r \in Reservations(TailLists(returns), request) :
            \E before \in {Around(r.lists, padded) : padded \in {PaddedAll}} : \E post \in {PostFree(before, returns, PaddedEnd)} :
                \E cut \in {ReleaseTrailing(post, len)}, gap \in Gaps(r.at) :
                    Adopt(r.at, gap, before, cut.lists, cut.end, returns, freed)

\* Managers reserved in free space.
PublishReusing(len, freed) ==
    /\ ReuseTail(len, freed)
    /\ UNCHANGED last

\* plan_append: the space given back at the end is kept as raw pages, and the managers follow it.
PublishAppending(len, freed) ==
    LET returns == freed \cup OldBlocks
        at      == ExtentAt(PaddedEnd, len)
    IN  /\ saved.kind # "none"
        /\ RoundUp(at.end) <= MaxEoa
        /\ \E before \in {PaddedAll} : \E post \in {PostFree(before, returns, PaddedEnd)}, gap \in Gaps(at) :
                Adopt(at, gap, before,
                      [post.lists EXCEPT !["raw"] = Listed(@ \cup (post.end..(PaddedEnd - 1))),
                                         !["meta"] = Listed(@ \cup (at.end..(RoundUp(at.end) - 1)))],
                      RoundUp(at.end), returns, freed)
        /\ last' = "meta"

\* shrink_to_the_trailing_free_run: managers at the end of a long free run are placed again in free space.
Shrink(len) ==
    LET start == CHOOSE a \in {e.start : e \in tail} : \A e \in tail : a <= e.start
        end   == CHOOSE a \in {e.end : e \in tail} : \A e \in tail : e.end <= a
    IN  /\ saved.kind = "none"
        /\ end = eoa
        /\ eoa - TrailingStart(free, start) >= 2 * ReserveTails * (end - start)
        /\ ReuseTail(len, {})
        /\ UNCHANGED last

\* The session ends and another one loads what was published; dead space is not recorded.
Reopen ==
    /\ saved.kind = "none"
    /\ clean
    /\ free' = Promote(Joined(Loaded("meta", free["meta"]),
                       Joined(Loaded("raw", free["raw"]), Loaded("generic", free["unclassified"]))))
    /\ lost' = Listed(lost \cup free["dead"])
    /\ last' = "unset"
    /\ clean' = FALSE
    /\ UNCHANGED <<pad, eoa, live, tail, saved, threshold>>

Next ==
    \/ \E kind \in {"commit", "append"} : Begin(kind)
    \/ \E request \in Requests : Reuse(request) \/ Extend(request)
    \/ RollBack
    \/ Restore
    \/ \E x \in live, class \in Typed : RecordFreed(x, class)
    \/ \E len \in TailLengths : \E freed \in Freed :
            PublishReusing(len, freed) \/ PublishAppending(len, freed)
    \/ \E len \in TailLengths : Shrink(len)
    \/ Reopen

Spec == Init /\ [][Next]_vars

-----------------------------------------------------------------------------

(***************************************************************************)
(* Every byte below the end of allocation is in exactly one place: in use, *)
(* in the managers, in one of the lists, in pending padding, or forgotten; *)
(* allocations do not overlap.  Through reservations of whole pages of the *)
(* other class, padding, roll backs, the admission and reoffering of       *)
(* returns and the cut of the end of the file.                             *)
(***************************************************************************)
OneOwnerPerByte ==
    /\ Used(live) \cup Bytes(tail) \cup UNION {free[c] : c \in Classes} \cup pad["meta"] \cup pad["raw"] \cup lost
            = 0..(eoa - 1)
    /\ eoa = Cardinality(Used(live)) + Cardinality(Bytes(tail)) + Cardinality(lost)
                + Cardinality(free["meta"]) + Cardinality(free["raw"]) + Cardinality(free["dead"])
                + Cardinality(free["unclassified"]) + Cardinality(pad["meta"]) + Cardinality(pad["raw"])
    /\ PairwiseDisjoint({x.at : x \in live})

(***************************************************************************)
(* The managers are never written over bytes the previous publication      *)
(* refers to: live data, what the running commit frees, or the managers    *)
(* they replace (plan_tail reserves before it applies returns).            *)
(***************************************************************************)
TailAvoidsReferencedBytes ==
    [][tail' # tail => Bytes(tail') \cap (Used(live) \cup Bytes(tail)) = {}]_vars

=============================================================================
