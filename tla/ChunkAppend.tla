---------------------------- MODULE ChunkAppend ----------------------------
(***************************************************************************)
(* What the immediate appends of a locked session have in common, whatever *)
(* indexes the chunks (src/edit/append.rs, src/prepared_chunk.rs): the     *)
(* chunk at the end of the dataset is rewritten in the form that a reader  *)
(* decodes before and after the dimension grows, and its storage is        *)
(* reused once no record in the file refers to it.                         *)
(*                                                                         *)
(* Writes are gathered: image is what the session reads, disk what the     *)
(* process leaves when it dies.  A barrier brings disk up to image; when   *)
(* it fails, or the process dies, a part of what is pending has been       *)
(* issued, the session is uncertain and the file is opened anew.           *)
(*                                                                         *)
(* Chunks and blocks occupy numbered units.                                *)
(***************************************************************************)
EXTENDS Naturals, Sequences, SequencesExt

CONSTANTS
    ChunkElems,    \* the elements of a chunk
    Batches,       \* the numbers of elements one append may have
    Modes,         \* the filter pipelines, and what the caller permits
    MaxDim,        \* bound: the elements of the dataset
    MaxUnits,      \* bound: the units of the file
    MaxFaults      \* bound: the sessions that end inside an append

VARIABLES
    mode,      \* [pipeline, edges, reencoding, ...] of the dataset and its caller
    image, disk,
    free,      \* the units the session may reuse
    pc,        \* the step of the append that is next
    plan,      \* the prepared append
    next,      \* the slot of the record to publish next
    log,       \* history: by element, the attempt that published it
    faults

None == [kind |-> "none"]

CeilDiv(a, b) == (a + b - 1) \div b

(***************************************************************************)
(* The file: what each of its places holds.                                *)
(***************************************************************************)
Layout    == <<"layout", 0, 0>>
Header    == <<"header", 0, 0>>
Dimension == <<"dimension", 0, 0>>
At(u, p)  == <<"unit", u, p>>

Records(n) == [i \in 0 .. n - 1 |-> None]
NoUnit     == 0

Content(file, place) == IF place \in DOMAIN file THEN file[place] ELSE None

\* A unit is written as a whole when it is allocated: part 0 and, of a paged block, its pages.
Placed(file, u, pages) ==
    [p \in DOMAIN file \cup {At(u, q) : q \in DOMAIN pages} |->
        IF p[1] = "unit" /\ p[2] = u THEN pages[p[3]] ELSE file[p]]
Single(content) == [p \in {0} |-> content]

Length(file) == Max({p[2] : p \in DOMAIN file})

\* The n units an allocation takes: retired ones if they fit, and new ones at the end.
Allocated(n, reuse) ==
    LET again == IF reuse THEN SetToSortSeq(free, <) ELSE <<>>
    IN SubSeq(again \o [i \in 1 .. n |-> Length(image) + i], 1, n)

Barrier == disk' = image

Pending == {p \in DOMAIN image : p \in DOMAIN disk => image[p] # disk[p]}

\* What the file holds after the places in issued were written to it.
Issued(issued) ==
    [p \in DOMAIN disk \cup issued |-> IF p \in issued THEN image[p] ELSE disk[p]]

(***************************************************************************)
(* Chunks.  An element is the attempt that appended it, its place in the   *)
(* dataset, and how often a lossy pipeline has encoded it.                 *)
(***************************************************************************)
Fill     == [index |-> 0, attempt |-> 0, losses |-> 0]
Filtered == mode.pipeline # "none"
Lossy    == mode.pipeline = "lossy"

\* at_extent: how a reader decodes the chunk of slot e while the dataset has extent elements
Verbatim(e, extent) == mode.edges /\ (e + 1) * ChunkElems > extent

\* decodable_by: the form of a chunk that readers at the old and at the new extent both decode
Encoding(e, current, new) ==
    IF e * ChunkElems < current /\ Verbatim(e, current) # Verbatim(e, new) THEN "FiltersSkipped"
    ELSE IF Verbatim(e, new) THEN "Raw" ELSE "Filtered"

\* PreparedChunk::encode
Encoded(data, encoding) ==
    LET applied == encoding = "Filtered" /\ Filtered
    IN [stored |-> [kind |-> "chunk", filtered |-> applied,
                    data |-> [i \in DOMAIN data |->
                        IF applied /\ Lossy THEN [data[i] EXCEPT !.losses = @ + 1] ELSE data[i]]],
        skip |-> encoding = "FiltersSkipped"]

\* decode_chunk: the data of a chunk whose filters were applied exactly as the reader undoes them
Decoded(file, record, e, extent) ==
    LET chunk  == Content(file, At(record.unit, 0))
        undoes == Filtered /\ ~Verbatim(e, extent) /\ ~record.skip
    IN IF chunk.kind = "chunk" /\ chunk.filtered = undoes THEN chunk.data ELSE None

\* Mutant of Refused: a tail is encoded again without the caller's permission.
RefusedNever(partial) == FALSE

\* Every plan refuses to encode a partial chunk a second time with loss.
Refused(partial) == partial /\ Lossy /\ ~mode.edges /\ mode.reencoding = "Reject"

\* The chunk of slot e as it will be: what is live, what is appended, and the fill value.
Logical(live, e, current, new) ==
    [i \in 0 .. ChunkElems - 1 |->
        LET at == e * ChunkElems + i
        IN IF at < current THEN live[i]
           ELSE IF at < new THEN [index |-> at + 1, attempt |-> faults + 1, losses |-> 0]
           ELSE Fill]

\* The chunks of an append to the slots first .. total - 1; live is what the first one holds.
PreparedChunks(live, first, total, current, new) ==
    [c \in 1 .. total - first |->
        Encoded(Logical(live, first + c - 1, current, new), Encoding(first + c - 1, current, new))]

\* A raw partial chunk that becomes whole under a lossy pipeline is also prepared in its final form.
PreparedCompletion(live, first, current, new) ==
    IF current % ChunkElems # 0 /\ mode.edges /\ Lossy /\ new \div ChunkElems > first
    THEN <<Encoded(Logical(live, first, current, new), "Filtered")>> ELSE <<>>

\* The published elements once the dimension is new.
Logged(new) == [i \in 1 .. new |-> IF i <= Len(log) THEN log[i] ELSE faults + 1]

Record(unit, chunk) == [kind |-> "record", unit |-> unit, skip |-> chunk.skip]
NoPlan == [new |-> 0]
=============================================================================
