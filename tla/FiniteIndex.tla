---------------------------- MODULE FiniteIndex ----------------------------
(***************************************************************************)
(* Immediate appends of a locked session to a dataset of finite maximum:   *)
(* the Single Chunk index, whose record lies in the layout message         *)
(* (src/chunk_index_inplace/single.rs), and the Fixed Array, a header and  *)
(* one block of records, or of pages of records that a bitmap marks as     *)
(* initialized (src/chunk_index_inplace/fixed).  The readers are those of  *)
(* src/fixed_array.rs.                                                     *)
(*                                                                         *)
(* Chunks that were never allocated read as the fill value; such a dataset *)
(* may have elements before its first append, and an array without block   *)
(* or without header.                                                      *)
(*                                                                         *)
(* A record or a bitmap and the checksum that covers it are two writes     *)
(* (ChecksumTarget::patch, patch_bits).  mode.joined says that they lie on *)
(* one page of a gathering session, so that a flush issues them as one.    *)
(* Fields of the object header and of the array's header are written with  *)
(* their checksums.                                                        *)
(*                                                                         *)
(* Not modelled: byte positions, bitmaps longer than one write, overflow   *)
(* of sizes, and the rejection of a plan that went stale, which the lock   *)
(* of the session leaves no room for.                                      *)
(***************************************************************************)
EXTENDS ChunkAppend

CONSTANT PageEntries   \* 2^page_bits: the records of a page

vars == <<mode, image, disk, free, pc, plan, next, log, faults>>

IsSingle == mode.index = "single"
Paged    == mode.index = "paged"

\* FiniteGeometry::maximum; the maximum of a Single Chunk index spans one chunk.
Maximum == IF IsSingle THEN ChunkElems ELSE MaxDim
Entries == CeilDiv(MaxDim, ChunkElems)
NPages  == CeilDiv(Entries, PageEntries)

\* Page p of the block, and the slots it holds; the whole of an unpaged block is page 0.
PageOf(e)  == IF Paged THEN 1 + e \div PageEntries ELSE 0
First(p)   == IF Paged THEN (p - 1) * PageEntries ELSE 0
Limit(p)   == IF Paged THEN Min({p * PageEntries, Entries}) ELSE Entries
NewPage(p) == [kind |-> "records", record |-> Records(Limit(p) - First(p))]

\* A checksum is the content it was computed from.
Sum(u, p)  == <<"sum", u, p>>
Checksummed(file, u, p) == file[Sum(u, p)] = file[At(u, p)]

Block(file) == IF IsSingle \/ ~file[Layout] THEN NoUnit ELSE file[Header].block

\* The pages whose records are in force.
Marked(file) == IF Paged THEN file[At(Block(file), 0)].bits ELSE {0}

RecordOf(file, e) ==
    IF IsSingle THEN file[Layout]
    ELSE IF Block(file) = NoUnit \/ PageOf(e) \notin Marked(file) THEN None
    ELSE file[At(Block(file), PageOf(e))].record[e - First(PageOf(e))]

\* The checksums a reader verifies: of the block, and of every page that is initialized.
Intact(file) ==
    Block(file) # NoUnit => \A p \in {0} \cup Marked(file) : Checksummed(file, Block(file), p)

\* emit_empty_data_block: undefined records, or a clear bitmap before pages of zeros.
EmptyBlock == IF Paged THEN [kind |-> "pages", bits |-> {}] ELSE NewPage(0)

WithBlock(file, u) ==
    LET parts == IF Paged THEN 0 .. NPages ELSE {0}
        content(p) == IF p = 0 THEN EmptyBlock ELSE NewPage(p)
    IN [q \in DOMAIN file \cup {At(u, p) : p \in parts} \cup {Sum(u, p) : p \in parts} |->
           IF q[2] # u THEN file[q]
           ELSE IF q[1] = "sum" /\ q[3] > 0 THEN None
           ELSE content(q[3])]

(***************************************************************************)
(* The append.                                                             *)
(***************************************************************************)
Init ==
    /\ mode \in Modes
    /\ image = [p \in {Layout, Dimension, Header} |->
                   CASE p = Layout -> IF IsSingle THEN None ELSE mode.header
                     [] p = Dimension -> IF IsSingle THEN Min({mode.start, 1}) ELSE mode.start
                     [] p = Header -> [block |-> NoUnit]]
    /\ disk = image
    /\ free = {}
    /\ pc = "idle"
    /\ plan = NoPlan
    /\ next = 0
    /\ log = [i \in 1 .. image[Dimension] |-> 0]
    /\ faults = 0

\* The data of the partial chunk of slot e: an absent one is filled.
Live(e, current) ==
    IF RecordOf(image, e) = None THEN [i \in 0 .. ChunkElems - 1 |-> Fill]
    ELSE Decoded(image, RecordOf(image, e), e, current)

\* FixedIndex::plan, SingleIndex::plan: append n elements; nothing is written yet.
Plan(n) ==
    LET current == image[Dimension]
        new     == current + n
        first   == current \div ChunkElems
        total   == CeilDiv(new, ChunkElems)
    IN /\ pc = "idle"
       /\ Intact(image)
       /\ new <= Maximum
       /\ ~Refused(current % ChunkElems # 0)
       /\ plan' = [new |-> new, first |-> first, total |-> total,
                   chunks |-> PreparedChunks(Live(first, current), first, total, current, new),
                   completed |-> PreparedCompletion(Live(first, current), first, current, new),
                   units |-> <<>>, block |-> NoUnit, old |-> {}, pages |-> {}]
       /\ next' = first
       /\ pc' = "payload"
       /\ UNCHANGED <<mode, image, disk, free, log, faults>>

\* The chunks are written to storage nothing refers to, and the block of an array without one.
Payload(reuse) ==
    LET chunks  == plan.chunks \o plan.completed
        missing == ~IsSingle /\ Block(image) = NoUnit
        count   == Len(chunks) + IF missing THEN 1 ELSE 0
        units   == Allocated(count, reuse)
        written == FoldLeftDomain(LAMBDA file, c : Placed(file, units[c], Single(chunks[c].stored)),
                                  image, chunks)
        block   == WithBlock(written, units[count])
    IN /\ pc = "payload"
       /\ Length(image) + count <= MaxUnits
       /\ image' = IF ~missing THEN written
                   ELSE IF image[Layout] THEN block
                   ELSE [block EXCEPT ![Header].block = units[count]]
       /\ free' = free \ {units[c] : c \in DOMAIN units}
       /\ plan' = [plan EXCEPT !.units = units, !.block = IF missing THEN units[count] ELSE NoUnit]
       /\ pc' = "allocated"
       /\ UNCHANGED <<mode, disk, next, log, faults>>

\* publish_allocations, then publish_initialization: the layout refers to the new header, or the
\* header that was there is written again with the address of its block.
PublishAllocations ==
    /\ pc = "allocated"
    /\ Barrier
    /\ image' = IF plan.block = NoUnit THEN image
                ELSE [image EXCEPT ![Layout] = TRUE, ![Header].block = plan.block]
    /\ pc' = "initialized"
    /\ UNCHANGED <<mode, free, plan, next, log, faults>>

ConfirmInitialization ==
    /\ pc = "initialized"
    /\ Barrier
    /\ pc' = "entries"
    /\ UNCHANGED <<mode, image, free, plan, next, log, faults>>

(***************************************************************************)
(* publish_patches: one window of records after the other, each in a page  *)
(* of its own, then the bits of the pages that were not initialized.       *)
(***************************************************************************)
RecordAt(e) == Record(plan.units[e - plan.first + 1], plan.chunks[e - plan.first + 1])
EndOf(e)    == IF IsSingle THEN plan.total ELSE Min({Limit(PageOf(e)), plan.total})

\* The page with the records of the window in place of what they replace.
Patched(page, p, e, end) ==
    [page EXCEPT !.record = [i \in DOMAIN @ |->
        IF First(p) + i \in e .. end - 1 THEN RecordAt(First(p) + i) ELSE @[i]]]

\* ChecksumTarget::patch, patch_bits: part p of the block, then its checksum
Patch(p, content) == [image EXCEPT ![At(Block(image), p)] = content, ![Sum(Block(image), p)] = content]

\* The chunks that the records of a window replace, those of interrupted appends included.
Predecessors(e, end) == {RecordOf(image, s).unit : s \in {t \in e .. end - 1 : RecordOf(image, t) # None}}

\* EntryPatch::publish and SingleIndex::replace: records that are in force are replaced,
ReplaceEntries ==
    LET p == PageOf(next)
        end == EndOf(next)
    IN /\ pc = "entries" /\ next < plan.total
       /\ p \in Marked(image)
       /\ image' = IF IsSingle THEN [image EXCEPT ![Layout] = RecordAt(0)]
                   ELSE Patch(p, Patched(image[At(Block(image), p)], p, next, end))
       /\ plan' = [plan EXCEPT !.old = Predecessors(next, end)]
       /\ pc' = "replaced"
       /\ UNCHANGED <<mode, disk, free, next, log, faults>>

\* and what they replaced is retired behind a barrier.
RetireReplaced ==
    /\ pc = "replaced"
    /\ Barrier
    /\ free' = free \cup plan.old
    /\ next' = EndOf(next)
    /\ pc' = "entries"
    /\ UNCHANGED <<mode, image, plan, log, faults>>

\* A page that is not initialized is written as a whole, over whatever it holds.
EmitPage ==
    LET p == PageOf(next)
    IN /\ pc = "entries" /\ next < plan.total
       /\ p \notin Marked(image)
       /\ image' = Patch(p, Patched(NewPage(p), p, next, EndOf(next)))
       /\ plan' = [plan EXCEPT !.pages = @ \cup {p}]
       /\ next' = EndOf(next)
       /\ UNCHANGED <<mode, disk, free, pc, log, faults>>

\* publish_initializations: the pages are in the file before their bits, all of them at once.
PublishInitializations ==
    /\ pc = "entries" /\ next = plan.total
    /\ plan.pages # {}
    /\ Barrier
    /\ image' = Patch(0, [image[At(Block(image), 0)] EXCEPT !.bits = @ \cup plan.pages])
    /\ plan' = [plan EXCEPT !.pages = {}]
    /\ UNCHANGED <<mode, free, pc, next, log, faults>>

PublishDimension ==
    /\ pc = "entries" /\ next = plan.total
    /\ plan.pages = {}
    /\ Barrier
    /\ image' = [image EXCEPT ![Dimension] = plan.new]
    /\ log' = Logged(plan.new)
    /\ pc' = "dimension"
    /\ UNCHANGED <<mode, free, plan, next, faults>>

\* The append is complete, or a raw chunk that became whole is replaced by its filtered form.
Finish ==
    LET page   == image[At(Block(image), PageOf(plan.first))]
        slot   == plan.first - First(PageOf(plan.first))
        record == Record(plan.units[1 + Len(plan.chunks)], plan.completed[1])
    IN /\ pc = "dimension"
       /\ Barrier
       /\ IF plan.completed = <<>>
          THEN pc' = "idle" /\ plan' = NoPlan /\ next' = 0 /\ UNCHANGED image
          ELSE /\ image' = IF IsSingle THEN [image EXCEPT ![Layout] = record]
                           ELSE Patch(PageOf(plan.first), [page EXCEPT !.record[slot] = record])
               /\ pc' = "completed"
               /\ UNCHANGED <<plan, next>>
       /\ UNCHANGED <<mode, free, log, faults>>

RetireCompleted ==
    /\ pc = "completed"
    /\ Barrier
    /\ free' = free \cup {plan.units[1]}
    /\ pc' = "idle"
    /\ plan' = NoPlan
    /\ next' = 0
    /\ UNCHANGED <<mode, image, log, faults>>

(***************************************************************************)
(* The session ends.  A flush issues a body before the checksum behind it, *)
(* or both at once.                                                        *)
(***************************************************************************)
InOrder(issued) ==
    \A p \in Pending : p[1] = "sum" =>
        LET body == At(p[2], p[3])
        IN /\ p \in issued => body \in issued \/ body \notin Pending
           /\ mode.joined /\ body \in issued => p \in issued

Referenced(file) ==
    LET records == {RecordOf(file, e) : e \in 0 .. (IF IsSingle THEN 0 ELSE Entries - 1)}
    IN {r.unit : r \in records \ {None}} \cup {Block(file)}

\* Units nothing refers to are not told apart from unused ones.
Kept(file) ==
    LET units == Referenced(file)
    IN Restrict(file, {p \in DOMAIN file : p[1] \in {"unit", "sum"} => p[2] \in units})

Opened(file) ==
    /\ disk' = file
    /\ image' = file
    /\ free' = {}
    /\ pc' = "idle"
    /\ plan' = NoPlan
    /\ next' = 0
    /\ log' = SubSeq(log, 1, file[Dimension])
    /\ UNCHANGED mode

Stop ==
    /\ pc # "idle"
    /\ faults < MaxFaults
    /\ faults' = faults + 1
    /\ \E issued \in SUBSET Pending : InOrder(issued) /\ Opened(Kept(Issued(issued)))

Next ==
    \/ \E n \in Batches : Plan(n)
    \/ \E reuse \in BOOLEAN : Payload(reuse)
    \/ PublishAllocations \/ ConfirmInitialization
    \/ ReplaceEntries \/ RetireReplaced \/ EmitPage
    \/ PublishInitializations \/ PublishDimension
    \/ Finish \/ RetireCompleted
    \/ Stop

Spec == Init /\ [][Next]_vars

(***************************************************************************)
(* Properties.                                                             *)
(***************************************************************************)
\* What a reader of the file finds for element i of the dataset.
Shown(file, i) ==
    LET e      == i \div ChunkElems
        record == RecordOf(file, e)
        data   == Decoded(file, record, e, file[Dimension])
    IN IF record = None THEN Fill ELSE IF data = None THEN None ELSE data[i % ChunkElems]

\* Whenever the process dies, a file whose checksums hold shows every element as the append that
\* published it wrote it, and the fill value before the first; and the checksums hold where a flush
\* issues them with what they cover (FixedIndex::apply, SingleIndex::apply, read_chunks).
AppendedElementsStay ==
    /\ mode.joined => Intact(disk)
    /\ Intact(disk) =>
          \A i \in 0 .. disk[Dimension] - 1 :
              LET element == Shown(disk, i)
              IN /\ element # None
                 /\ element.index = IF log[i + 1] = 0 THEN 0 ELSE i + 1
                 /\ element.attempt = log[i + 1]

\* Unless the caller permits it, no published element is encoded twice by a lossy pipeline.
LossyOnlyOnce ==
    mode.reencoding = "Reject" /\ Intact(disk) =>
        \A i \in 0 .. disk[Dimension] - 1 : Shown(disk, i) # None => Shown(disk, i).losses <= 1

\* However the records of an array reach the file, a reader finds them under the checksum that covers
\* them: an in-place append publishes a value and its checksum in one write (ChecksumTarget::patch).
ChecksumsCoverEntries == Intact(disk)
=============================================================================
