-------------------------- MODULE ExtensibleArray --------------------------
(***************************************************************************)
(* Immediate appends of a locked session to a dataset indexed by an        *)
(* Extensible Array (src/chunk_index_inplace/mod.rs), and the walk of that *)
(* index a reader makes (hdf5-pure-format, extensible_array/mod.rs).       *)
(*                                                                         *)
(* The index is modelled block by block: records in the index block, data  *)
(* blocks it points to, super blocks with their own data blocks, and data  *)
(* blocks split into pages that a bitmap of the super block marks as       *)
(* initialized.  An append rewrites the partial chunk at the end of the    *)
(* dataset and retires the chunk it replaces, whose storage later appends  *)
(* reuse.                                                                  *)
(*                                                                         *)
(* A block and its checksum are one write (publish_checksummed).           *)
(*                                                                         *)
(* Not modelled: byte positions inside blocks, the end of file             *)
(* (SwmrAppend), persisted free space (StagedCommit), overflow of sizes.   *)
(* Finite datasets have other indexes (FiniteIndex).                       *)
(***************************************************************************)
EXTENDS ChunkAppend

CONSTANTS
    Inline,        \* inline_elements: the records the index block holds
    MinElements,   \* min_elements: the records of the smallest data block
    MinBlocksBits, \* the logarithm of min_data_blocks
    PageElements,  \* the records of a page
    SuperBlocks    \* how many super blocks the geometry has, direct ones included

VARIABLE located   \* Located::allocation_stats; None when the dataset has to be located anew

vars == <<mode, image, disk, free, pc, plan, next, located, log, faults>>

(***************************************************************************)
(* Geometry: Layout::super_block, and the tables of from_layout.           *)
(***************************************************************************)
SuperBlock(u) ==
    [offset   |-> MinElements * (2^u - 1),
     blocks   |-> 2^(u \div 2),
     elements |-> MinElements * 2^CeilDiv(u, 2)]

FirstSuper == 2 * MinBlocksBits
Indirect   == FirstSuper .. SuperBlocks - 1

\* direct_dblk_nelmts: the records of each data block the index block points to
Direct == FlattenSeq([u \in 1 .. FirstSuper |->
              [b \in 1 .. SuperBlock(u - 1).blocks |-> SuperBlock(u - 1).elements]])

Paged(elements)  == elements > PageElements
NPages(elements) == IF Paged(elements) THEN elements \div PageElements ELSE 0

\* locate_data_block: the writer adds up the sizes of the blocks before a slot.
DirectStart[k \in 1 .. Len(Direct) + 1] ==
    IF k = 1 THEN Inline ELSE DirectStart[k - 1] + Direct[k - 1]

SuperStart[u \in FirstSuper .. SuperBlocks] ==
    IF u = FirstSuper THEN DirectStart[Len(Direct) + 1]
    ELSE SuperStart[u - 1] + SuperBlock(u - 1).blocks * SuperBlock(u - 1).elements

DirectBlocks ==
    {[super |-> 0, local |-> k, start |-> DirectStart[k], elements |-> Direct[k], offset |-> 0] :
        k \in DOMAIN Direct}

BlocksOf(u) ==
    {[super |-> u, local |-> local, elements |-> SuperBlock(u).elements,
      start |-> SuperStart[u] + local * SuperBlock(u).elements, offset |-> SuperStart[u] - Inline] :
        local \in 0 .. SuperBlock(u).blocks - 1}

DataBlocks == DirectBlocks \cup UNION {BlocksOf(u) : u \in Indirect}
Capacity   == SuperStart[SuperBlocks]

locate_data_block(e) == CHOOSE loc \in DataBlocks : loc.start <= e /\ e < loc.start + loc.elements

(***************************************************************************)
(* The file: what each of its places holds.                                *)
(***************************************************************************)
Index == <<"index", 0, 0>>
Unit(u, file) == {p \in DOMAIN file : p[1] = "unit" /\ p[2] = u}

EmptyIndex == [record |-> Records(Inline),
               direct |-> [k \in DOMAIN Direct |-> NoUnit],
               super  |-> [u \in Indirect |-> NoUnit]]

\* ensure_super_block and alloc_undef_data_block: the blocks as they are allocated
NewSuperBlock(loc) ==
    [kind |-> "super", offset |-> loc.offset, bits |-> {},
     block |-> [b \in 0 .. SuperBlock(loc.super).blocks - 1 |-> NoUnit]]

NewDataBlock(loc) ==
    IF ~Paged(loc.elements)
    THEN [p \in {0} |-> [kind |-> "data", offset |-> loc.start - Inline,
                         record |-> Records(loc.elements)]]
    ELSE [p \in 0 .. NPages(loc.elements) |->
             IF p = 0 THEN [kind |-> "prefix", offset |-> loc.start - Inline]
             ELSE [kind |-> "page", record |-> Records(PageElements)]]

\* The pointers of a file, and the parts of its index that they reach.
SuperUnit(file, u) == file[Index].super[u]
BlockUnit(file, loc) ==
    IF loc.super = 0 THEN file[Index].direct[loc.local]
    ELSE IF SuperUnit(file, loc.super) = NoUnit THEN NoUnit
    ELSE file[At(SuperUnit(file, loc.super), 0)].block[loc.local]
Missing(file, loc) == BlockUnit(file, loc) = NoUnit

\* elem_slot_off: where the record of slot e is; only of a block that is not missing
Place(file, e) ==
    IF e < Inline THEN [at |-> Index, i |-> e]
    ELSE LET loc  == locate_data_block(e)
             slot == e - loc.start
             unit == BlockUnit(file, loc)
         IN IF Paged(loc.elements)
            THEN [at |-> At(unit, 1 + slot \div PageElements), i |-> slot % PageElements]
            ELSE [at |-> At(unit, 0), i |-> slot]

\* read_element: the writer does not look at the bits of pages.
read_element(file, e) ==
    IF e >= Inline /\ Missing(file, locate_data_block(e)) THEN None
    ELSE file[Place(file, e).at].record[Place(file, e).i]

(***************************************************************************)
(* The reader: read_chunks walks the blocks by the offsets of the layout.  *)
(* It parses every block that holds a slot below "Max Index Set", fails at *)
(* one that is not what its position asks for, and skips pages that are    *)
(* not initialized.                                                        *)
(***************************************************************************)
holds_set_slots(file, offset) == Inline + offset < file[Header].max_idx_set

SuperParses(file, u) ==
    LET unit  == file[Index].super[u]
        super == Content(file, At(unit, 0))
    IN unit # NoUnit /\ holds_set_slots(file, SuperBlock(u).offset) =>
          super.kind = "super" /\ super.offset = SuperBlock(u).offset

\* The data blocks of the super blocks below FirstSuper are those of the index block.
Pointer(file, u, local) ==
    IF u < FirstSuper
    THEN file[Index].direct[1 + local + MapThenSumSet(LAMBDA v : SuperBlock(v).blocks, 0 .. u - 1)]
    ELSE IF file[Index].super[u] = NoUnit THEN NoUnit
    ELSE file[At(file[Index].super[u], 0)].block[local]

BlockParses(file, u, local) ==
    LET offset == SuperBlock(u).offset + local * SuperBlock(u).elements
        block  == Content(file, At(Pointer(file, u, local), 0))
    IN Pointer(file, u, local) # NoUnit /\ holds_set_slots(file, offset) =>
          /\ block.kind = IF Paged(SuperBlock(u).elements) THEN "prefix" ELSE "data"
          /\ block.offset = offset

Readable(file) ==
    /\ \A u \in Indirect : SuperParses(file, u)
    /\ \A u \in 0 .. SuperBlocks - 1 :
          \A local \in 0 .. SuperBlock(u).blocks - 1 : BlockParses(file, u, local)

\* The record a reader finds for slot s in one of the blocks.
InBlock(file, s) ==
    LET u     == CHOOSE u \in 0 .. SuperBlocks - 1 :
                     /\ SuperBlock(u).offset <= s - Inline
                     /\ s - Inline < SuperBlock(u + 1).offset
        sb    == SuperBlock(u)
        local == (s - Inline - sb.offset) \div sb.elements
        i     == (s - Inline - sb.offset) % sb.elements
        page  == i \div PageElements
        unit  == Pointer(file, u, local)
    IN IF unit = NoUnit THEN None
       ELSE IF ~Paged(sb.elements) THEN file[At(unit, 0)].record[i]
       ELSE IF local * NPages(sb.elements) + page \in file[At(file[Index].super[u], 0)].bits
            THEN file[At(unit, 1 + page)].record[i % PageElements] ELSE None

ReadRecord(file, s) ==
    IF s >= file[Header].max_idx_set THEN None
    ELSE IF s < Inline THEN file[Index].record[s] ELSE InBlock(file, s)

(***************************************************************************)
(* Statistics: read_allocation_stats counts the pointers that are defined, *)
(* planned_allocation_stats adds the blocks an append will allocate.       *)
(***************************************************************************)
BlocksIn(from, to) == {loc \in DataBlocks : loc.start < to /\ from < loc.start + loc.elements}
SupersOf(blocks)   == {loc.super : loc \in blocks} \ {0}

Elements(blocks)   == MapThenSumSet(LAMBDA loc : loc.elements, blocks)

Stats(blocks, supers, max) ==
    [nsuper_blks |-> Cardinality(supers), ndata_blks |-> Cardinality(blocks),
     nelmts |-> Inline + Elements(blocks), max_idx_set |-> max]

read_allocation_stats(file, max) ==
    Stats({loc \in DataBlocks : ~Missing(file, loc)},
          {u \in Indirect : SuperUnit(file, u) # NoUnit}, max)

\* Mutant of planned_allocation_stats: a block whose first slot is appended counts as missing.
PlannedByRange(file, base, first, total) ==
    LET begun == {loc \in BlocksIn(first, total) : first <= loc.start}
    IN [nsuper_blks |-> base.nsuper_blks
                          + Cardinality({u \in Indirect : first <= SuperStart[u] /\ SuperStart[u] < total}),
        ndata_blks  |-> base.ndata_blks + Cardinality(begun),
        nelmts      |-> base.nelmts + Elements(begun),
        max_idx_set |-> total]

planned_allocation_stats(file, base, first, total) ==
    LET missing == {loc \in BlocksIn(first, total) : Missing(file, loc)}
        supers  == {u \in SupersOf(BlocksIn(first, total)) : SuperUnit(file, u) = NoUnit}
    IN [nsuper_blks |-> base.nsuper_blks + Cardinality(supers),
        ndata_blks  |-> base.ndata_blks + Cardinality(missing),
        nelmts      |-> base.nelmts + Elements(missing),
        max_idx_set |-> total]

\* dense_prefix_stats: every block of a dense prefix
dense_prefix_stats(total) ==
    Stats(BlocksIn(0, total), SupersOf(BlocksIn(0, total)), total)

(***************************************************************************)
(* Storage.  Units nothing refers to are not told apart from unused ones   *)
(* once the session that knew them is gone.                                *)
(***************************************************************************)
RecordUnits(content) ==
    IF content.kind \in {"data", "page"} THEN {content.record[i] : i \in DOMAIN content.record}
    ELSE {}
Blocks(file)  == {BlockUnit(file, loc) : loc \in {l \in DataBlocks : ~Missing(file, l)}}
Supers(file)  == {SuperUnit(file, u) : u \in Indirect} \ {NoUnit}
Chunks(file)  == LET records == {file[Index].record[i] : i \in 0 .. Inline - 1}
                                  \cup UNION {RecordUnits(file[p]) :
                                                 p \in UNION {Unit(u, file) : u \in Blocks(file)}}
                 IN {r.unit : r \in records \ {None}}
Referenced(file) == IF file[Layout] THEN Blocks(file) \cup Supers(file) \cup Chunks(file) ELSE {}

Kept(file) ==
    LET units == Referenced(file)
    IN Restrict(file, {p \in DOMAIN file : p[1] = "unit" => p[2] \in units})

(***************************************************************************)
(* The append.                                                             *)
(***************************************************************************)
Init ==
    /\ mode \in Modes
    /\ image = [p \in {Layout, Dimension, Header, Index} |->
                   CASE p = Layout -> FALSE [] p = Dimension -> 0 [] OTHER -> None]
    /\ disk = image
    /\ free = {}
    /\ pc = "idle"
    /\ plan = NoPlan
    /\ next = 0
    /\ located = None
    /\ log = <<>>
    /\ faults = 0

\* read_live_tail: the data of the partial chunk at the end
Live(e, current) == IF current % ChunkElems = 0 THEN <<>>
                    ELSE Decoded(image, read_element(image, e), e, current)

\* plan_ea_append, plan_initial_ea_append: append n elements; nothing is written yet.
Plan(n) ==
    LET current == image[Dimension]
        new     == current + n
        first   == current \div ChunkElems
        total   == CeilDiv(new, ChunkElems)
        partial == current % ChunkElems # 0
        known   == IF located # None THEN located
                   ELSE read_allocation_stats(image, CeilDiv(current, ChunkElems))
    IN /\ pc = "idle"
       /\ new <= MaxDim /\ total <= Capacity
       /\ ~Refused(partial)
       /\ plan' = [new |-> new, first |-> first, total |-> total,
                   chunks |-> PreparedChunks(Live(first, current), first, total, current, new),
                   completed |-> PreparedCompletion(Live(first, current), first, current, new),
                   old |-> IF partial THEN {read_element(image, first).unit} ELSE {},
                   stats |-> IF image[Layout]
                             THEN planned_allocation_stats(image, known, first, total)
                             ELSE dense_prefix_stats(total),
                   units |-> <<>>, fresh |-> NoUnit]
       /\ next' = first
       /\ pc' = IF image[Layout] THEN "payload" ELSE "initialize"
       /\ UNCHANGED <<mode, image, disk, free, located, log, faults>>

\* initialize_ea_index: an empty index is written, then the layout message refers to it.
Initialize ==
    /\ pc = "initialize"
    /\ image' = [image EXCEPT ![Header] = dense_prefix_stats(0), ![Index] = EmptyIndex]
    /\ pc' = "initialized"
    /\ UNCHANGED <<mode, disk, free, plan, next, located, log, faults>>

PublishLayout ==
    /\ pc = "initialized"
    /\ Barrier
    /\ image' = [image EXCEPT ![Layout] = TRUE]
    /\ pc' = "payload"
    /\ UNCHANGED <<mode, free, plan, next, located, log, faults>>

\* Phase 1: the chunks are written to storage nothing refers to.
Payload(reuse) ==
    LET chunks == plan.chunks \o plan.completed
        units  == Allocated(Len(chunks), reuse)
    IN /\ pc = "payload"
       /\ Length(image) + Len(chunks) <= MaxUnits
       /\ Barrier
       /\ image' = FoldLeftDomain(LAMBDA file, c : Placed(file, units[c], Single(chunks[c].stored)),
                                  image, chunks)
       /\ free' = free \ {units[c] : c \in DOMAIN units}
       /\ plan' = [plan EXCEPT !.units = units]
       /\ pc' = "allocated"
       /\ UNCHANGED <<mode, next, located, log, faults>>

PublishPayload ==
    /\ pc = "allocated"
    /\ Barrier
    /\ pc' = "insert"
    /\ UNCHANGED <<mode, image, free, plan, next, located, log, faults>>

(***************************************************************************)
(* Phase 2: ea_insert, one record after the other.                         *)
(***************************************************************************)
Target     == locate_data_block(next)
NeedsSuper == next >= Inline /\ Target.super # 0 /\ SuperUnit(image, Target.super) = NoUnit
NeedsBlock == next >= Inline /\ Missing(image, Target)

\* A new block is written where nothing refers to it,
Allocate(reuse, pages, then) ==
    LET unit == Allocated(1, reuse)[1]
    IN /\ Length(image) < MaxUnits
       /\ image' = Placed(image, unit, pages)
       /\ free' = free \ {unit}
       /\ plan' = [plan EXCEPT !.fresh = unit]
       /\ pc' = then
       /\ UNCHANGED <<mode, disk, next, located, log, faults>>

ensure_super_block(reuse) ==
    pc = "insert" /\ NeedsSuper /\ Allocate(reuse, Single(NewSuperBlock(Target)), "super")

alloc_undef_data_block(reuse) ==
    pc = "insert" /\ NeedsBlock /\ ~NeedsSuper /\ Allocate(reuse, NewDataBlock(Target), "block")

\* and its address is written behind a barrier.
Refer(place, content) ==
    /\ Barrier
    /\ image' = [image EXCEPT ![place] = content]
    /\ pc' = "insert"
    /\ UNCHANGED <<mode, free, plan, next, located, log, faults>>

PublishSuper ==
    /\ pc = "super"
    /\ Refer(Index, [image[Index] EXCEPT !.super[Target.super] = plan.fresh])

PublishBlock ==
    /\ pc = "block"
    /\ IF Target.super = 0
       THEN Refer(Index, [image[Index] EXCEPT !.direct[Target.local] = plan.fresh])
       ELSE LET super == At(SuperUnit(image, Target.super), 0)
            IN Refer(super, [image[super] EXCEPT !.block[Target.local] = plan.fresh])

Advance ==
    /\ next' = next + 1
    /\ pc' = IF next + 1 = plan.total THEN "inserted" ELSE "insert"

Put(e, unit, chunk) ==
    LET place == Place(image, e)
    IN image' = [image EXCEPT ![place.at].record[place.i] = Record(unit, chunk)]

\* A record that is the first of its page also marks the page.
InPage      == next - Target.start
BeginsPage  == next >= Inline /\ Paged(Target.elements) /\ InPage % PageElements = 0

PutRecord ==
    /\ pc = "insert"
    /\ ~NeedsBlock
    /\ Put(next, plan.units[next - plan.first + 1], plan.chunks[next - plan.first + 1])
    /\ IF BeginsPage THEN pc' = "page" /\ UNCHANGED next ELSE Advance
    /\ UNCHANGED <<mode, disk, free, plan, located, log, faults>>

\* Mutant of PageBit: the bits of every data block of a super block start at 0.
PageBitOfBlock(loc, page) == page

\* sb_page_bit: the bits of the data blocks of a super block are one sequence.
PageBit(loc, page) == loc.local * NPages(loc.elements) + page

MarkPage ==
    LET super == At(SuperUnit(image, Target.super), 0)
    IN /\ pc = "page"
       /\ Barrier
       /\ image' = [image EXCEPT ![super].bits = @ \cup {PageBit(Target, InPage \div PageElements)}]
       /\ Advance
       /\ UNCHANGED <<mode, free, plan, located, log, faults>>

(***************************************************************************)
(* Phases 3 and 4.                                                         *)
(***************************************************************************)
\* The records are confirmed, the replaced chunk is retired, the statistics are published.
PublishStatistics ==
    /\ pc = "inserted"
    /\ Barrier
    /\ free' = free \cup plan.old
    /\ image' = [image EXCEPT ![Header] = plan.stats]
    /\ pc' = "statistics"
    /\ UNCHANGED <<mode, plan, next, located, log, faults>>

PublishDimension ==
    /\ pc = "statistics"
    /\ Barrier
    /\ image' = [image EXCEPT ![Dimension] = plan.new]
    /\ located' = plan.stats
    /\ log' = Logged(plan.new)
    /\ pc' = "dimension"
    /\ UNCHANGED <<mode, free, plan, next, faults>>

\* The append is complete, or a raw chunk that became whole is replaced by its filtered form.
Finish ==
    /\ pc = "dimension"
    /\ Barrier
    /\ IF plan.completed = <<>>
       THEN pc' = "idle" /\ plan' = NoPlan /\ next' = 0 /\ UNCHANGED image
       ELSE /\ Put(plan.first, plan.units[Len(plan.units)], plan.completed[1])
            /\ pc' = "completed"
            /\ UNCHANGED <<plan, next>>
    /\ UNCHANGED <<mode, free, located, log, faults>>

Retire ==
    /\ pc = "completed"
    /\ Barrier
    /\ free' = free \cup {plan.units[1]}
    /\ pc' = "idle"
    /\ plan' = NoPlan
    /\ next' = 0
    /\ UNCHANGED <<mode, image, located, log, faults>>

(***************************************************************************)
(* The session ends: inside an append, by a failure or with the process,   *)
(* after any part of the pending writes; or between appends.               *)
(***************************************************************************)
Opened(file) ==
    /\ disk' = file
    /\ image' = file
    /\ free' = {}
    /\ pc' = "idle"
    /\ plan' = NoPlan
    /\ next' = 0
    /\ located' = None
    /\ log' = SubSeq(log, 1, file[Dimension])
    /\ UNCHANGED mode

Stop ==
    /\ pc # "idle"
    /\ faults < MaxFaults
    /\ faults' = faults + 1
    /\ \E issued \in SUBSET Pending : Opened(Kept(Issued(issued)))

Reopen ==
    /\ pc = "idle"
    /\ located # None
    /\ Opened(Kept(image))
    /\ UNCHANGED faults

Next ==
    \/ \E n \in Batches : Plan(n)
    \/ Initialize
    \/ PublishLayout
    \/ \E reuse \in BOOLEAN :
          Payload(reuse) \/ ensure_super_block(reuse) \/ alloc_undef_data_block(reuse)
    \/ PublishPayload
    \/ PublishSuper \/ PublishBlock
    \/ PutRecord \/ MarkPage
    \/ PublishStatistics \/ PublishDimension \/ Finish \/ Retire
    \/ Stop \/ Reopen

Spec == Init /\ [][Next]_vars

(***************************************************************************)
(* Properties.                                                             *)
(***************************************************************************)
\* What a reader of the file finds for element i of the dataset.
Shown(file, i) ==
    LET e      == i \div ChunkElems
        record == ReadRecord(file, e)
        data   == Decoded(file, record, e, file[Dimension])
    IN IF record = None \/ data = None THEN None ELSE data[i % ChunkElems]

\* Whenever the process dies, a reader that walks the index finds every published element, and finds
\* in it what the append that published it wrote (ea_insert, apply_ea_append, read_chunks).
AppendedElementsStay ==
    disk[Layout] =>
        /\ Readable(disk)
        /\ \A i \in 0 .. disk[Dimension] - 1 :
              LET element == Shown(disk, i)
              IN element # None /\ element.index = i + 1 /\ element.attempt = log[i + 1]

\* Once an append has returned, the header counts exactly the blocks the index refers to, those of
\* interrupted appends included (planned_allocation_stats, read_allocation_stats).
StatisticsCountBlocks ==
    pc = "idle" /\ located # None =>
        disk[Header] = read_allocation_stats(disk, CeilDiv(disk[Dimension], ChunkElems))

\* Unless the caller permits it, no published element is encoded twice by a lossy pipeline, although
\* the chunk that holds it is written up to three times (plan_ea_append, decodable_by).
LossyOnlyOnce ==
    mode.reencoding = "Reject" =>
        \A i \in 0 .. disk[Dimension] - 1 :
            LET element == Shown(disk, i) IN element # None => element.losses <= 1
=============================================================================
