----------------------------- MODULE SwmrAppend -----------------------------
(***************************************************************************)
(* A SWMR writer appending whole chunks to a dataset with an Extensible    *)
(* Array index (src/chunk_index_inplace: apply_ea_append, ea_insert), and  *)
(* a reader following the file with refresh (src/reader).                  *)
(*                                                                         *)
(* A SWMR session is unbuffered: every write reaches the file as other     *)
(* processes see it (os) when it is made; disk is what a loss of power     *)
(* would leave.  Storage is only appended, so a chunk or an index data     *)
(* block is named by its place in that order.  The first Inline records    *)
(* are in the index block, the others in one data block it points to.      *)
(*                                                                         *)
(* Not modelled: super blocks and paged data blocks (one more level of the *)
(* same publication), and what a SWMR session refuses: persisted free      *)
(* space, partial and filtered chunks.                                     *)
(***************************************************************************)
EXTENDS Naturals, Sequences

CONSTANTS
    Layouts,     \* which of object header and index has the lower address
    Inline,      \* idx_blk_elmts: the records the index block itself holds
    MaxBatch,    \* bound: chunks in one batch
    MaxDim,      \* bound: chunks in the dataset
    MaxUnits,    \* bound: chunks and data blocks ever appended to the file
    MaxCrashes   \* bound: processes that die and losses of power

ASSUME SwmrAppendAssumption ==
    /\ Layouts \subseteq {"header_first", "index_first"}
    /\ {Inline, MaxBatch, MaxDim, MaxUnits, MaxCrashes} \subseteq Nat
    /\ 1 <= Inline /\ Inline <= MaxDim /\ MaxDim <= MaxUnits

Units == 1 .. MaxUnits
Slots == 1 .. MaxDim

None == 0

VARIABLES
    policy,    \* SyncPolicy: "Always" or "OnClose"
    layout,
    os, disk,
    pc,        \* where the writer's append stands
    return,    \* where it goes on once allocations are published
    current,   \* Located::current_dim, in chunks
    batch,     \* the chunks of the running batch
    log,       \* history: the chunks a published dimension covers
    returned,  \* history: the dimension of the last append that returned
    crashes,
    at,        \* the reader's position in its pass over the file, 0 between passes
    seen,      \* what the pass has read so far
    view       \* the chunks the last complete refresh shows

writer == <<pc, return, current, batch, log, returned>>
reader == <<at, seen, view>>
vars == <<policy, layout, os, disk, writer, crashes, reader>>

(***************************************************************************)
(* The file.                                                               *)
(***************************************************************************)
Undefined == [s \in Slots |-> None]
Absent    == [kind |-> "absent", record |-> Undefined]
Chunk     == [kind |-> "chunk", record |-> Undefined]
NewBlock  == [kind |-> "block", record |-> Undefined]

Length(file) == LET used == {u \in Units : file.unit[u] # Absent}
                IN IF used = {} THEN 0 ELSE CHOOSE u \in used : \A v \in used : v <= u

\* A chunk's record: in the index block, or in the data block it points to.
Record(file, s) ==
    IF s <= Inline THEN file.record[s]
    ELSE IF file.pointer = None THEN None ELSE file.unit[file.pointer].record[s]

\* What a reader of the file finds at each chunk of its dimension; None where it finds no chunk.
Shown(file) ==
    [s \in 1 .. file.dim |->
        LET u == Record(file, s)
        IN IF u # None /\ file.unit[u].kind = "chunk" THEN u ELSE None]

NoFile == [eof |-> 0, dim |-> 0, count |-> 0, pointer |-> None, record |-> Undefined,
           unit |-> [u \in Units |-> Absent]]

Init ==
    /\ policy \in {"Always", "OnClose"}
    /\ layout \in Layouts
    /\ os = [eof |-> 1, dim |-> 1, count |-> 1, pointer |-> None,
             record |-> [s \in Slots |-> IF s = 1 THEN 1 ELSE None],
             unit |-> [u \in Units |-> IF u = 1 THEN Chunk ELSE Absent]]
    /\ disk = os
    /\ pc = "idle"
    /\ return = "insert"
    /\ current = 1
    /\ batch = <<>>
    /\ log = <<1>>
    /\ returned = 1
    /\ crashes = 0
    /\ at = 0
    /\ seen = NoFile
    /\ view = Shown(os)

(***************************************************************************)
(* The writer.                                                             *)
(***************************************************************************)
\* Store::sync: durable under Always, under OnClose a flush that has nothing to issue.
Sync == disk' = IF policy = "Always" THEN os ELSE disk

Writes(file) == os' = file /\ UNCHANGED disk

\* Phase 1, first half: the payload of n chunks is appended to the file.
Payload(n) ==
    /\ pc = "idle"
    /\ current + n <= MaxDim
    /\ Length(os) + n <= MaxUnits
    /\ batch' = [i \in 1 .. n |-> Length(os) + i]
    /\ Writes([os EXCEPT !.unit = [u \in Units |->
          IF u \in Length(os) + 1 .. Length(os) + n THEN Chunk ELSE os.unit[u]]])
    /\ return' = "insert"
    /\ pc' = "allocated"
    /\ UNCHANGED <<policy, layout, current, log, returned, crashes, reader>>

\* publish_allocations: a barrier for the content,
SyncContent ==
    /\ pc = "allocated"
    /\ Sync
    /\ pc' = "eof"
    /\ UNCHANGED <<policy, layout, os, return, current, batch, log, returned, crashes, reader>>

\* Mutant of PublishEof: the end of file is published only with the payload, not with a data block.
PublishEofOnce ==
    /\ pc = "eof"
    /\ Writes(IF return = "insert" THEN [os EXCEPT !.eof = Length(os)] ELSE os)
    /\ pc' = "eof_written"
    /\ UNCHANGED <<policy, layout, return, current, batch, log, returned, crashes, reader>>

\* the superblock with the new end of file,
PublishEof ==
    /\ pc = "eof"
    /\ Writes([os EXCEPT !.eof = Length(os)])
    /\ pc' = "eof_written"
    /\ UNCHANGED <<policy, layout, return, current, batch, log, returned, crashes, reader>>

\* and its barrier: the allocations are confirmed.
SyncEof ==
    /\ pc = "eof_written"
    /\ Sync
    /\ pc' = return
    /\ UNCHANGED <<policy, layout, os, return, current, batch, log, returned, crashes, reader>>

\* Mutant of Pending: the record of the batch's last chunk is not inserted.
PendingButLast == {i \in 1 .. Len(batch) - 1 : Record(os, current + i) # batch[i]}

\* The records of the batch that are not inserted yet, and the next one to insert.
Pending == {i \in 1 .. Len(batch) : Record(os, current + i) # batch[i]}
NextRecord == CHOOSE i \in Pending : \A j \in Pending : i <= j

\* Phase 2, ea_insert: a record in the index block or in a data block that exists,
Insert ==
    /\ pc = "insert"
    /\ Pending # {}
    /\ LET i == NextRecord
           s == current + i
       IN /\ s <= Inline \/ os.pointer # None
          /\ Writes(IF s <= Inline THEN [os EXCEPT !.record[s] = batch[i]]
                    ELSE [os EXCEPT !.unit[os.pointer].record[s] = batch[i]])
    /\ UNCHANGED <<policy, layout, writer, crashes, reader>>

\* or first the data block, appended and published,
AllocateBlock ==
    /\ pc = "insert"
    /\ Pending # {}
    /\ current + NextRecord > Inline
    /\ os.pointer = None
    /\ Length(os) < MaxUnits
    /\ Writes([os EXCEPT !.unit[Length(os) + 1] = NewBlock])
    /\ return' = "pointer"
    /\ pc' = "allocated"
    /\ UNCHANGED <<policy, layout, current, batch, log, returned, crashes, reader>>

\* then the pointer to it in the index block.
PublishPointer ==
    /\ pc = "pointer"
    /\ Writes([os EXCEPT !.pointer = Length(os)])
    /\ pc' = "insert"
    /\ UNCHANGED <<policy, layout, return, current, batch, log, returned, crashes, reader>>

\* Mutant of SyncRecords: the dimension is published without waiting for the records.
SyncRecordsSkipped ==
    /\ pc = "insert"
    /\ Pending = {}
    /\ pc' = "dimension"
    /\ UNCHANGED <<policy, layout, os, disk, return, current, batch, log, returned, crashes, reader>>

\* The barrier that ends phase 2.
SyncRecords ==
    /\ pc = "insert"
    /\ Pending = {}
    /\ Sync
    /\ pc' = "statistics"
    /\ UNCHANGED <<policy, layout, os, return, current, batch, log, returned, crashes, reader>>

\* Phase 3: the element count in the array header, and its barrier.
PublishStatistics ==
    /\ pc = "statistics"
    /\ Writes([os EXCEPT !.count = current + Len(batch)])
    /\ pc' = "statistics_written"
    /\ UNCHANGED <<policy, layout, return, current, batch, log, returned, crashes, reader>>

SyncStatistics ==
    /\ pc = "statistics_written"
    /\ Sync
    /\ pc' = "dimension"
    /\ UNCHANGED <<policy, layout, os, return, current, batch, log, returned, crashes, reader>>

\* Phase 4: the dimension, which makes the batch visible,
PublishDimension ==
    /\ pc = "dimension"
    /\ Writes([os EXCEPT !.dim = current + Len(batch)])
    /\ log' = log \o batch
    /\ pc' = "dimension_written"
    /\ UNCHANGED <<policy, layout, return, current, batch, returned, crashes, reader>>

\* Mutant of Appended: the append returns before its last barrier.
AppendedUnsynced ==
    /\ pc = "dimension_written"
    /\ UNCHANGED disk
    /\ current' = current + Len(batch)
    /\ returned' = current'
    /\ batch' = <<>>
    /\ pc' = "idle"
    /\ UNCHANGED <<policy, layout, os, return, log, crashes, reader>>

\* and its barrier; then the append returns.
Appended ==
    /\ pc = "dimension_written"
    /\ Sync
    /\ current' = current + Len(batch)
    /\ returned' = current'
    /\ batch' = <<>>
    /\ pc' = "idle"
    /\ UNCHANGED <<policy, layout, os, return, log, crashes, reader>>

\* A write or barrier fails: make_allocation_uncertain refuses every later append.
Fails ==
    /\ pc \notin {"idle", "stopped"}
    /\ pc' = "stopped"
    /\ UNCHANGED <<policy, layout, os, disk, return, current, batch, log, returned, crashes, reader>>

(***************************************************************************)
(* The environment.                                                        *)
(***************************************************************************)
\* A new writer locates the dataset in the file it finds.
Locate(file) ==
    /\ pc' = "idle"
    /\ return' = "insert"
    /\ current' = file.dim
    /\ batch' = <<>>

\* The writer's process dies, or drops a stopped session, and another one opens the file.
WriterDies ==
    /\ crashes < MaxCrashes
    /\ crashes' = crashes + 1
    /\ Locate(os)
    /\ UNCHANGED <<policy, layout, os, disk, log, returned, reader>>

\* A page of the file is written back: the superblock, the header, the index or one unit.
\* Under OnClose power-loss ordering is given up (docs/guide/swmr.md).
WriteBack ==
    /\ policy = "Always"
    /\ \/ disk' = [disk EXCEPT !.eof = os.eof]
       \/ disk' = [disk EXCEPT !.dim = os.dim]
       \/ disk' = [disk EXCEPT !.count = os.count]
       \/ disk' = [disk EXCEPT !.pointer = os.pointer, !.record = os.record]
       \/ \E u \in Units : disk' = [disk EXCEPT !.unit[u] = os.unit[u]]
    /\ disk' # disk
    /\ UNCHANGED <<policy, layout, os, writer, crashes, reader>>

\* Power is lost.  Readers start again.
PowerLoss ==
    /\ policy = "Always"
    /\ crashes < MaxCrashes
    /\ crashes' = crashes + 1
    /\ Locate(disk)
    /\ os' = disk
    /\ log' = SubSeq(log, 1, disk.dim)
    /\ at' = 0
    /\ seen' = NoFile
    /\ view' = Shown(disk)
    /\ UNCHANGED <<policy, layout, disk, returned>>

(***************************************************************************)
(* The reader.  read_to_end passes over the file from its start while the  *)
(* writer goes on; the pass ends where the file ends when it gets there.   *)
(***************************************************************************)
Regions == IF layout = "header_first" THEN <<"superblock", "header", "index">>
                                      ELSE <<"superblock", "index", "header">>

BeginRefresh ==
    /\ at = 0
    /\ at' = 1
    /\ UNCHANGED <<policy, layout, os, disk, writer, crashes, seen, view>>

\* Mutant of ReadRegion: the header is taken from the refresh before.
ReadRegionCached ==
    /\ at \in 1 .. Len(Regions)
    /\ seen' = CASE Regions[at] = "superblock" -> [seen EXCEPT !.eof = os.eof]
                 [] Regions[at] = "header"     -> [seen EXCEPT !.dim = Len(view)]
                 [] Regions[at] = "index"      -> [seen EXCEPT !.count = os.count, !.pointer = os.pointer,
                                                               !.record = os.record]
    /\ at' = at + 1
    /\ UNCHANGED <<policy, layout, os, disk, writer, crashes, view>>

ReadRegion ==
    /\ at \in 1 .. Len(Regions)
    /\ seen' = CASE Regions[at] = "superblock" -> [seen EXCEPT !.eof = os.eof]
                 [] Regions[at] = "header"     -> [seen EXCEPT !.dim = os.dim]
                 [] Regions[at] = "index"      -> [seen EXCEPT !.count = os.count, !.pointer = os.pointer,
                                                               !.record = os.record]
    /\ at' = at + 1
    /\ UNCHANGED <<policy, layout, os, disk, writer, crashes, view>>

ReadUnit ==
    LET u == at - Len(Regions)
    IN /\ u \in 1 .. Length(os)
       /\ seen' = [seen EXCEPT !.unit[u] = os.unit[u]]
       /\ at' = at + 1
       /\ UNCHANGED <<policy, layout, os, disk, writer, crashes, view>>

\* The end of the file: the superblock is parsed and the bytes become the reader's file.
EndRefresh ==
    /\ at > Len(Regions)
    /\ at - Len(Regions) > Length(os)
    /\ view' = Shown(seen)
    /\ seen' = NoFile
    /\ at' = 0
    /\ UNCHANGED <<policy, layout, os, disk, writer, crashes>>

Refresh == BeginRefresh \/ ReadRegion \/ ReadUnit \/ EndRefresh

Next ==
    \/ \E n \in 1 .. MaxBatch : Payload(n)
    \/ SyncContent \/ PublishEof \/ SyncEof
    \/ Insert \/ AllocateBlock \/ PublishPointer \/ SyncRecords
    \/ PublishStatistics \/ SyncStatistics
    \/ PublishDimension \/ Appended
    \/ Fails \/ WriterDies \/ WriteBack \/ PowerLoss
    \/ BeginRefresh \/ ReadRegion \/ ReadUnit \/ EndRefresh

\* The reader polls; nothing obliges the writer to append.
Spec == Init /\ [][Next]_vars /\ WF_vars(Refresh)

(***************************************************************************)
(* Properties.                                                             *)
(***************************************************************************)

\* What a crash may expose: the file as written and, under Always, the durable one.
Exposed == {os} \cup {d \in {disk} : policy = "Always"}

(***************************************************************************)
(* "A reader therefore only ever observes a consistent prefix of the data" *)
(* (docs/guide/swmr.md): a complete refresh shows, at every chunk of its   *)
(* dimension, the chunk that was appended there.  The pass reads upwards,  *)
(* so this takes an object header that lies below its index.               *)
(***************************************************************************)
ReaderSeesPrefix ==
    layout = "header_first" => Len(view) <= Len(log) /\ view = SubSeq(log, 1, Len(view))

(***************************************************************************)
(* Whenever the writer dies, and under Always whenever power is lost, the  *)
(* dataset holds every chunk its dimension covers: children are published  *)
(* before what refers to them (apply_ea_append).                           *)
(***************************************************************************)
CrashLeavesPrefix ==
    \A file \in Exposed : file.dim <= Len(log) /\ Shown(file) = SubSeq(log, 1, file.dim)

(***************************************************************************)
(* No record and no pointer names storage beyond the recorded end of file, *)
(* in any file a crash may expose: allocations are published before they   *)
(* are referred to (publish_allocations).                                  *)
(***************************************************************************)
ReferencesWithinEof ==
    \A file \in Exposed :
        /\ file.pointer <= file.eof
        /\ \A s \in Slots : Record(file, s) <= file.eof

(***************************************************************************)
(* An append that has returned survives: its dimension stays in the file   *)
(* and, under Always, is durable (SyncPolicy::Always, phase 4).            *)
(***************************************************************************)
ReturnedAppendsStay == \A file \in Exposed : returned <= file.dim

\* A reader that goes on refreshing shows every chunk that was published and not lost.
ReaderCatchesUp ==
    \A n \in Slots : (Len(log) >= n) ~> (Len(view) >= n \/ Len(log) < n)
=============================================================================
