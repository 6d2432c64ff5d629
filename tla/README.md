# A TLA+ verification of hdf5-pure

`hdf5-pure` reads, writes and edits HDF5 files in pure Rust. This directory
models the parts of it whose correctness depends on order: who owns which byte
of the file, what a commit makes visible and when, what a crash leaves behind,
and what several processes may do to one file. Codecs, filters and parsers are
left to the repository's own test suites.

## The system and its parts

| Part | State | Operations | What makes it hard |
|---|---|---|---|
| Space policy, flat (`hdf5-pure-space`: `list`, `admission`, `session`) | free list, threshold, end of allocation | allocate, return, record, release a batch, cut the trailing run | adjacency and merging, thresholds that drop bytes, the managers' own storage is drawn from the space they describe |
| Space policy, paged (`paged`) | per-class free lists, page padding, tail page | transitions, tail plans, page release | class changes of whole pages, padding |
| Publication in a PAGE file that does not persist its free space (`edit/commit`) | roots, queued superblock, `PublicationState` | commit, sync, complete or recover a failed publication | a failed commit is finished by a later call; gathered writes |
| Classic aggregators (`aggregator`) | two open blocks at the end of file | allocate, release tail, reset, reconcile | two blocks compete for one end of file |
| Allocation publication (`edit/allocation.rs`) | generations, confirmed / provisional / uncertain | provision, begin, complete, cancel, confirm, require | ownership must be durable before a reference is; failures between the two |
| Staged commit (`edit/commit/*`) | staged edits, image, superblock, undo journal, `PublicationState` | plan, apply, publish, roll back, truncate | failure at each write or barrier; power loss; reuse of space |
| Image and write gathering (`image`) | pending runs, mode | write, overlay read, flush, barrier, set length, sync | reads over pending writes, failing flushes |
| Chunk-index append (`chunk_index_inplace`, `edit/append.rs`, `extensible_array.rs`, `fixed_array.rs`) | chunk index, header statistics, dimension | the four phases of an append; a locked session also replaces records of partial chunks | a reader or a crash between phases; blocks that an interrupted append left behind |
| Open, lock and mark (`file_lock.rs`, `edit.rs`, `reader/mod.rs`) | OS lock, status flags, session kinds | open, raise, sync, release, clear | check-then-act across processes, stale marks, power loss |
| Buffered appender and its claim (`appender.rs`, `edit.rs`, `edit/staging.rs`) | buffer, lifecycle, claim | append, flush, finish, discard, drop | edits staged around a live appender; a failed flush that landed a prefix |
| Handles, caches and revisions (`reader`, `chunk_cache.rs`, `metadata_cache`) | memos, two revisions, staged generation, cached indexes | resolve, note, stage, commit, close, refresh | several threads on one session; a memo older than the file; a handle onto an object that is not published yet |
| Object navigation, datasets, attributes, links | immutable images of the file | resolve, read | format breadth rather than order |
| Staging and planning (`edit/staging.rs`, `edit/commit/plan*`, `edit/analysis*`) | staged operations, counts, liveness | stage, plan, reclaim | which bytes a deletion may free |
| File writer, repack | a file built in one pass | lay out, emit | none that interleaves |
| Format and filter crates, MATLAB layer | none | parse, encode, filter | input breadth |

The parts meet in one place, the `WriteEngine` of `src/edit.rs`. An edit draws
space from the session's space policy, writes through the image, and becomes
visible when the commit repoints the superblock. The retired space goes back
to the policy only then. Immediate appends take the other path: they publish
the ownership of their storage first and link references to it afterwards. The
open protocol decides which engines exist at all.

## Modules

A source path below is relative to the crate root (`src/src/...` in
`PROJECT.json`, which maps every definition to its lines). Definitions keep the
names of the code they translate.

| Module | Models | State and its code | Actions |
|---|---|---|---|
| `Extents`, `FreeList` | `Extent`, `FreeList`, the batched admission | the free list as the set of its regions | operators: `Free`, `AllocFrom`, `TakeRange`, `ReleaseBatch`, ... |
| `FlatSpace` | `SessionSpace::Flat` and the placement of the managers' tail | `regions` = `FlatSpace.free`, `eoa`, `tail` = `PersistState.old_blocks`; `live` and `lost` name the other owners | allocate, append, return, record, release, publish (three placements) |
| `PagedSpace` | `SessionSpace::Paged`: page classes, padding, returns, the managers' tail | `free` = the metadata, raw, unclassified and dead lists, `pad`, `last`, `eoa`, `live`, `tail`, `saved` | reserve, record, roll back, restore, publish (reusing, appending), shrink, reopen |
| `AggregatedSpace` | `ClassicAggregators` and `AggregateSpace` over the free list | `windows`, `sections`, `allocEnd` = `AggregateSpace.eoa`, `length`, `snapshot` = `FreeSnapshot` | the five ways to reserve, place, publish, roll back, close, die |
| `AllocationPublication` | `AllocationPublication`, `AppendAllocator` | `state`, `sequence`, tokens in existence, what the file records and refers to | allocate, publish (succeeds, cancelled, uncertain), confirm, reference, retire |
| `PagePublication` | a commit without persisted free space on a PAGE file: `publish_nonpersisting`, `complete_page_publication`, `recover_page_publication` | `image`, `queued`, `disk`, `stored` = the root each of them leads to, `pages`, `publication` = `PublicationState` | sync, commit and its barriers, recovery, failures of each, drop, crash, loss of power |
| `AtomicCommit` | nothing: what a commit promises | what a reader finds, and may find | begin, appear, succeed, refuse, leave open, lose power |
| `StagedCommit` | `edit/commit/*` | the file as the session, the operating system and the disk hold it; `pc`, `free`, `saved`, `undo` = `inplace_undo` | each write and barrier of a commit, its failures, write-back, death, loss of power, reopening |
| `BufferedWrites` | `BufferedWrites` below `MirrorImage` and `HandleImage` | `runs`, `pendingBytes`, `mirror`, `fileBytes`, `onDiskLen` | write, mode change, barrier, truncate, one issue per step, failures, discard |
| `SwmrAppend` | `apply_ea_append`, `ea_insert`, `refresh` | the index as written and as durable, the phase of the append, the reader's pass | the four phases, allocation of a data block, failures, crashes, one region per reader step |
| `ExtensibleArray` | the append of a locked session: `plan_ea_append`, `apply_ea_append`, `ea_insert`, `ensure_super_block`, `alloc_undef_data_block`, the statistics; the reader's walk and the decoding of chunks | `image` and `disk` = the file as the session and the next opener see it, `free`, `plan`, `located` = `EaLocation` | locate, plan, allocate, publish payload, super block, data block, record, page bit, statistics, dimension, retire, stop anywhere, reopen |
| `ChunkAppend` | what the appends of locked sessions share: places and units of the file, pending writes, `ChunkEncoding::decodable_by`, `PreparedChunk`, the refusal of a lossy tail | the variables of the two modules that extend it | operators only |
| `FiniteIndex` | the same for a dataset of finite maximum: `FixedIndex`, `EntryPatch` and `ChecksumTarget`, `SingleIndex`; the reader's checks of `fixed_array.rs` | `image` and `disk` as above, a value and its checksum being two places, `free`, `plan` | plan, payload, publish header or block, replace entries, emit a page, retire, set page bits, dimension, completion, stop anywhere |
| `OpenProtocol` | `file_lock.rs`, the opening paths, crash marks, close and drop | lock, flags as shown and as durable, sessions | open, lock, check, reopen, raise, synchronize, write, drain, close, die, lose power, clear |
| `AppenderClaims` | `AppenderClaim`, the staging calls, the life of an appender | `claims`, `staged`, `committed`, the stage of each appender | open in two steps, buffer, flush, drop, stage, delete, commit, close |
| `BufferedAppender` | `BufferState`, `write_prefix`, `settle`, `flush`, beside `Dataset::append` of another handle | `elements` of the dataset, `buffer`, the `call` in progress, the `other` handle's batch, `session` | submit, measure, write, fail with a prefix landed, measure again, drop what landed, stop; the other handle's batches |
| `SessionHandles` | `with_engine_mut`, `note`, `close`, `Dataset::resolved` | the two revisions, the memo of a handle, the steps left of each call | one per load, increment and locked section |
| `StagedHandles` | `Dataset::pending`, `staged_standing`, `locate_staged`, `staged_generation` | the object in the file, the staged deletion and creation, the generation, the handles | create, open, delete, commit (three outcomes), stand, resolve |

`FlatSpace` and `AggregatedSpace` are built on `FreeList`; `StagedCommit`
implements `AtomicCommit`. A publication that is one step in `FlatSpace`,
`PagedSpace`, `AggregatedSpace` and `AllocationPublication` is taken apart in
`StagedCommit`, and in `PagePublication` for the files that have no managers to
publish; the space that `StagedCommit` draws from is the one whose ownership
`FlatSpace` settles.

Where the code decides at open, or when a handle is made, which of two
mechanisms a session uses, an `MC` module composes their modules and a behaviour
follows one of them: page classes or aggregators (`MCSessionSpace`), a
publication that is completed later or one that stops the session, and the
gathering of writes both rely on (`MCPublication`), the opening of locked
sessions and the appends only they may make, by the kind of index
(`MCLockedSessions`), the claim and the buffer of an appender
(`MCAppenders`), handles onto published and onto staged objects (`MCHandles`).

### What the models abstract

* Addresses are small numbers and blocks are counted in units. Nothing modelled
  depends on the 64-bit range: allocation is checked for overflow in one place
  (`Extent`), which refuses.
* Bytes carry a value only where a property compares values: the write that
  produced them in `BufferedWrites`, the commit in `StagedCommit`, the chunk in
  `SwmrAppend`, the element and the append that wrote it in `ExtensibleArray`,
  `FiniteIndex` and `BufferedAppender`, the edits a tree contains in `PagePublication`, the
  number of changes reflected in `SessionHandles`.
* Of the content of the file it opened, a commit of `AggregatedSpace` may return any
  set of bytes except the first, which is the superblock; of what was allocated
  later, any set of whole allocations.
* A synchronization that succeeds makes every earlier write durable, as POSIX has
  it, and one that fails says nothing of any of them. A superblock torn by a loss
  of power is a value of its own in `PagePublication`: such a file does not open,
  and the properties are about the files that do.
* A loss of power leaves, per page or block, any version since the last
  barrier. A write of the superblock or of one field is atomic, as it is
  shorter than a sector.
* Two processes see one file through the operating system. Two threads see one
  engine through its lock, and the atomics of `FileInner` in one global order.

## What the runs check

Every run is listed in `PROJECT.json` with its configuration.

| Run | Bounds | What it shows |
|---|---|---|
| `flat_space` | 7 bytes, threshold 2, lengths 1 to 3, managers of 1 or 2 bytes | each byte has one owner, managers never overwrite what the previous publication refers to |
| `session_space` | paged: pages of 2 bytes, up to 6 bytes, thresholds 1 and 3, lengths 1 and 3; aggregated: 7 bytes, blocks of 2, sizes 1 to 3, 2 reservations a commit | paged: one owner per byte and one type per page, through rollbacks and reopening, and managers placed only in free bytes; aggregated: the bytes stay partitioned between the file, the commit, the windows and the list, also after a rollback, and free space at the end is cut |
| `publication` | generations: 3 ranges, 3 generations; PAGE: 3 roots, 3 edits, 2 failures, 1 crash; gathering: 4 bytes, pages of 3, 3 writes, 2 failures | references reach only recorded storage, confirmed storage has one holder though cancelled tokens survive, an uncertain session changes nothing; the file leads to complete trees, no commit undoes an edit that reached the file, a failed publication can be completed; reads return the last write, every readable address is in the file or pending, the file never falls behind a completed flush |
| `locked_sessions` | opening: 2 processes, plain and page-buffered sessions; appends: one interruption, lossless and lossy pipelines; Extensible Array: 13 chunks of 2 elements, batches of 5 and 20; finite: 3 chunks in 2 pages, batches of 1 and 3, with and without header, 0 or 3 elements at first | locked sessions exclude each other, torn content is marked and refused to readers; every published element is found as it was appended wherever the session dies, the statistics count the blocks, nothing is encoded twice with loss unpermitted |
| `swmr_open_race` | 2 SWMR sessions | a counterexample, see below |
| `split_checksum` | a paged Fixed Array of 3 chunks, one interruption | a counterexample, see below |
| `staged_commit` | 6 blocks, 2 commits, a failure or crash at every step | every crash leaves a whole tree; recorded and reusable space is unreferenced; the commit implements `AtomicCommit` |
| `swmr_append` | 1 inline record, batches of 1 or 2, 3 chunks, 1 crash, both orders of header and index | crashes leave a prefix of the appends; returned appends stay; a reader sees a prefix where the header lies below its index; a reader that goes on refreshing shows every chunk that is not lost |
| `appenders` | claims: 2 handles, a group, a dataset in it, a dataset beside it, 3 staged edits; buffer: elements of 2 bytes, chunks of 2, calls of 3 and 8 bytes, maximum 4 or none, 3 foreign elements, 1 failure | no staged edit blocks a live appender, live appenders have different paths, commits keep their datasets; what an appender accepted is written once and in order or still held, and it is not poisoned without a cause |
| `flush_race` | one element in chunks of 2, a maximum of 2 elements, 2 foreign elements, a file that never fails | a counterexample, see below |
| `handles` | published: 2 writing and 2 reading threads, 2 changes, 2 calls; staged: 2 handles, 4 objects, 3 commits | a handle answers from what had settled when it was asked, and believes no memo that is older; the handle of a published dataset answers, and none answers from the object its dataset was to replace |
| `staged_retarget` | the staged half of the same | a counterexample, see below |

The bounds are the smallest in which the cases the properties are about occur.
Two neighbours to merge, an exact fit and a rest below the threshold need seven
bytes; a commit that reuses what an earlier one freed needs two commits and six
blocks; a join over clean bytes needs a page of three, and one it must not make a byte beyond; a data block beside the
inline record needs two chunks, and an append after a batch across the boundary
three; a memo
left behind needs a relocation and an append. A page bit counted from the wrong
data block goes unnoticed before the second paged block of one super block,
which thirteen chunks reach with one inline record, blocks of one element and
pages of two; the two batches leave and complete partial chunks on the way. A
recovery that itself fails needs two failures, with a root before and one after
it. Three bytes of two-byte elements leave half an element behind. For each property there is a
small change of one definition (a dropped guard, a swapped order, a missing
reset) under which the same run fails, so no property holds for want of cases.

Handles and threads of a kind are interchangeable, and their sets are symmetric in
the runs about them. Deadlock is checked
for commits, SWMR appends and the two strategies of `session_space`, which can
always go on; in the other configurations a session may
reach its bounds, or be stopped for good by an uncertain outcome, and rest.

Fairness is assumed once: `SwmrAppend` has weak fairness on the steps of a
refresh, for a reader that polls, as `docs/guide/swmr.md` tells it to. Nothing
obliges the writer to append, and a crash may take back what was not durable,
which `ReaderCatchesUp` allows for. No other property is a liveness property:
the rest of the code only moves when it is called.

## Where the code and its documentation differ

Four runs end in a counterexample. Each states what a comment says;
`PROJECT.json` quotes it.

* `swmr_open_race`: two SWMR opens check the flags before either raises them,
  and both succeed. A SWMR writer takes no lock, so nothing else keeps the
  second one off.
* `staged_retarget`: a commit that fails before its publication drops what was
  staged and leaves the generation. The next commit, even an empty one, advances
  it, and a handle onto the dropped dataset then answers from the object that
  dataset was to replace.
* `split_checksum`: an append to a Fixed Array writes records and then the checksum
  over them, and the bits of new pages likewise. A flush joins two writes only
  within a page of the gathering, so a session that dies between them leaves an
  index whose checksum fails. The Extensible Array and the object header are
  written with their checksums, as the comment in `image/mod.rs` says of all.
  `AppendsStay` holds for what a reader accepts, and has the checksums hold where
  the two writes are joined.
* `flush_race`: a flush reads the length of the dataset, and an append of another
  handle lands before its write. When that write fails, the growth counts as its
  own: the appender drops elements that were never written, and `unwritten()`
  no longer returns them.

Elsewhere the properties carry a condition, because the code guarantees no
more. What lies outside it:

* `ReaderSeesPrefix` needs the object header below its index. A dataset created
  in an editing session has its header placed last (`edit/dataset.rs`), and one
  refresh can then pair the old index with the new dimension: the new chunk
  shows as missing until the next refresh, where `docs/guide/swmr.md` promises
  "never a torn view".
* `StagedCommit` lets faults come one at a time. A session loads the free space
  of a commit whose process died before its barrier, and does not synchronize
  the file first; if it reuses that space and power is lost, the older
  superblock refers to overwritten blocks.
* `ImageShowsLastWrites` ends when queued writes are discarded: the image keeps its
  length, and addresses that only those writes covered read as zeros.
* `UnwrittenFollowsWritten` leaves out the race of `flush_race`, and a failed write
  after which the length could not be read: the appender then keeps what may
  have been written, as its comments say.
* `TornContentIsMarked` and `ReadersRefuseTornContent` are about sessions that take
  the lock. With locking disabled, or on a file system without locks, a second
  session may take down the mark of the first.
* `AppendersExclude` is about paths. Two hard links of one dataset give two
  appenders, where `appender.rs` says that the session rejects a second one on
  the same dataset.
* `FlushIsNotBlocked` is about staged edits. An edit that is refused, or an empty
  commit, still makes the handle of an appender reached by object reference
  stale, and its flush fails with `StaleHandle`.
* `AnswersAreFresh` counts a change once all before it have returned. An append
  that lands between a commit and its revision increments returns before a
  handle can see it.
* Nothing is claimed of an edit that passes the test for a sealed file while
  `close()` runs. The test precedes the lock, so the edit can be staged after
  the last commit, accepted and never written.
* `PublishedHandleAnswers` leaves out a handle that a commit of another thread
  overtook between the staging of its dataset and `Dataset::pending`: the
  handle is dated after its own publication and reports `StagingWithdrawn`.

## What is proved

`tlapm` checks the proofs; they hold for every value of the constants that
satisfies the assumptions named in the modules: sizes are natural numbers,
lengths are not zero (`FlatSpaceAssumption`, `AggregatesAssumption`, `SequenceAssumption`,
`SessionHandlesAssumption`, `AppenderAssumption`, `GatheringAssumption`), paths are sequences of names
(`AppenderClaimsAssumption`), and the values that stand for no process, no root
and a torn superblock are none of the others (`ProcsAssumption`,
`RootsAssumption`); a file of `StagedCommit` has room for the blocks it starts with
(`StagedCommitAssumption`). The bounds on faults, crashes, edits and calls are constants
like the others, so the theorems are about any number of them.

* `SpaceProofs`, flat strategy: first the free list: freeing, allocating, taking a range and
  releasing a batch keep a canonical list canonical, and change its bytes by
  exactly the bytes asked for. Then `FlatSpaceOwnership` (`TypeOK`,
  `OneOwnerPerByte` and `FreeListCanonical` always hold) and
  `TailPlacementIsSafe`. The three predicates together are inductive. Ownership
  alone is not: that freeing and allocating change the list by exactly the bytes
  asked for needs the list to be canonical, and that cutting the trailing run
  loses nothing needs ownership to cover every byte below the end of allocation.
  Each action's lemma cites the lemma of the list operation it performs.
* `SpaceProofs`, aggregators: `WindowsKeepOneOwner` (`SpaceIsPartitioned`) and
  `CommitsCutFreeTails` (`FreeTailIsCut`), on the same lemmas about the free list.
  The invariant, `AggregatesInv`, adds what a window is: it has handed out bytes,
  its spare is shorter than a block, it ends within the allocation, and the two lie
  apart (`WindowsFit`). That a spare is shorter than a block is needed where a window
  is opened over the spare the other one yields: the new window, at least a block,
  reaches beyond it. A rollback restores the snapshot, so the invariant says of a
  running commit that the snapshot is a sound layout of the published extents
  (`Revertible`), and that the commit's placements reach its end of allocation: once
  they are written the file is as long as its allocation. Releasing the spares at the end, the batch, the inner spares and the trailing
  region is one lemma each over the partition (`TailReleased`, `InnerReleased`,
  `TrailingReleased`, `CutBelow`), which a commit and a close put together.
* `SessionProofs`, PAGE files without persisted free space: `RootsAreComplete`, `CommitsKeepPublishedEdits` and
  `PublicationsAreRepairable`. The three speak of the root the file leads to; a
  barrier moves the file to the root the image holds, and a failed one leaves
  either. `Ahead` says of the image's root that it was complete before its
  superblock was queued and contains whatever the file has led to, and `Phases`
  ties each step of a commit or a recovery to how far the publication has come.
  A commit that begins while a publication is unsettled would break `Ahead`;
  this is why `commit` settles the previous one first.
* `SessionProofs`, immediate appends: `AllocationOwnership`,
  `ReferencedStorageIsRecorded` and `UncertainSessionsStop`. The inductive invariant adds three facts to the
  types. `GenerationsOK`: no token is from a later generation than the one in
  progress, and confirmed ones are at most the confirmed generation. `SpaceOK`:
  the tokens that can still take effect have different ranges, which are
  neither free nor given back. `SnapshotOK`: the snapshot of a running batch is
  the free space plus what the batch drew. The second excludes what a cancelled
  batch leaves behind: its tokens survive, and only their generation tells them
  from the ones that count.
* `SessionProofs`, opening: `LockExcludes` for every kind of session and every locking
  policy, from `Alone` (a session past `acquire_exclusive` that asked for a lock
  holds it). `TornIsMarked` and `ReadersAreRefused` assume plain and
  page-buffered sessions that do not disable locking, and need three more facts:
  the mark of a page-buffered session is durable before it edits (`Marks`),
  content is torn only while such a session edits and still holds the repair,
  or has failed (`Tears`), and what is torn is marked both in the file and on the
  disk (`FileSays`). `Alone` enters where one session would release the mark of
  another.
* `BufferedWritesProofs`, on the lemmas of `GatheredRuns`: `QueuedRunsStaySound`,
  `ImageAlwaysShowsLastWrites` and `FileAlwaysShowsRecentWrites`, for every page
  size, budget and file length and any number of writes and failures. What the
  image shows is checked between operations, and the steps that could spoil it
  are taken while one waits for its flush, so the invariant follows the waiting
  operation (`Waiting`): under a flush, a mode change or a write to the file the
  image shows what it showed before; under a truncation, what will be left of
  that; under a write that is gathered, that write already. Two facts carry
  the steps. No run starts beyond the end of the file (`Image`), so a join never
  writes over a hole; a write starts inside the image or at its end, which is
  why absorbing it keeps this. And the file and the pending runs hold only what
  the history allows (`Recent`): a failed flush puts bytes that were read back
  from the file into a pending run, and a retry writes them again. `GatheredRuns`
  has these arguments as lemmas about given runs and files: what a run over a
  window of others covers (`Refilled`), what issuing a joined run or a part of it
  leaves visible (`Keeps`), what absorbing and cutting do (`Absorbed`, `Cut`).
  `pending_bytes` is the number of bytes held, counted through the cardinality
  of unions and differences (`CountRemoved`, `CountRefilled`).
* `AppendersProofs`: `AppendersAreNotBlocked`, `LiveAppendersExclude` and
  `CommitsKeepClaimedDatasets`, from the invariant that claims are exactly
  those of live appenders, no staged edit blocks one, and two never conflict.
  The step that needs all three is a commit: it marks the session as committed,
  which blocks an appender reached by reference, but such an appender is alone
  and lets nothing be staged, so there is nothing to commit.
  `UnwrittenIsKept` and `PoisoningHasACause` are about the buffer, for any size of
  element, chunk and batch, any maximum and any number of calls. `Holds` says that
  a dataset shows the first elements of the appender once and in order. It is true of
  the dataset and the buffer except while a write has failed and the length was not
  read again; there it is true of some prefix of what was being written, as long
  as the dataset grew unless another append came between (`Written`).
  `Acceptable` says why the engine takes every write of an appender that is alone: what
  is buffered fits the maximum, a call in `settle` can go back to what did, and the
  prefix of a call that may be followed by another ends at a chunk boundary where
  a lossy tail could not be grown. The lemmas under both are about division:
  whole elements of a number of bytes, and lengths brought to a boundary.
* `HandlesProofs`: `AnswersStayFresh` and `MemoStaysFresh`, for any number of
  threads. The properties speak of calls that have returned; what the counters
  order is finer. A change is addressed, and then noted, when its call has
  advanced the address and the content revision. The invariant says that a state
  carrying the live address revision names a header that reflects all that is
  addressed, that one carrying the live content revision reflects all that is
  noted, and, for every reader, that whatever another reader or the memo may
  offer it at or above the revision it began with reflects what had settled
  then. A writer's step is shown to leave these facts in place whichever way it
  goes (`Advances`), and a reader's step to carry them to the state it builds.
  The order of the two loads and of the two increments is used once each: in
  the step that loads the address, and in the one that notes it.
  `PublishedHandlesAnswer` and `ReplacedObjectsStayHidden` are about handles onto
  staged objects, for any number of handles, objects and commits of any outcome. What a
  handle may answer is decided by its generation alone; `HandleOK` says what the
  generation stands for. The object of a handle that no commit overtook is in the
  file only in a later generation than the handle's, and the object it replaces is there
  in a later one only if a failed commit dropped what was staged.
* `SwmrAppendProofs`: `CrashesLeaveAPrefix`, `ReferencesStayWithinEof`,
  `ReturnedAppendsAreKept` and `RefreshShowsAPrefix`, for any size of the index
  block, any batch and any number of crashes. The properties are about what a
  crash may expose and what a pass of the reader has put together; neither is
  inductive. `Sound` says of the file as written that it holds every chunk of the
  log, and that all it refers to, blocks that an interrupted append orphaned
  included, lies within its end of file. `Durable` says the same of every mix of
  pages that may be on the disk under `Always`, and bounds it by the written file.
  `BatchInv`, `BlockInv` and `SyncInv` follow the phases of `apply_ea_append`: what
  of the batch is written, recorded and, after each barrier, durable. `Reading` is
  about the reader alone: the records it has read are those of the log up to the
  dimension it read first, which is where the header must lie below the index.
* `StagedCommitProofs`: `CrashesLeaveIntactFiles`, `RecordedSpaceIsFree`,
  `ReusableSpaceIsFree` and `StagedCommitIsAtomic`, for any number of blocks and
  commits. `Sound` strengthens intactness until it survives an allocation: what
  the superblock refers to and what its managers record was written, with the
  block before each, so that a file never ends inside what the session counts
  on. `FilesInv` says how two versions of the file may differ. Outside
  publication they have one superblock and agree on the blocks it binds
  (`SameTree`); during it they have the same blocks and differ in the superblock
  alone. The barriers keep the two apart, and this is what makes any mix of
  old and new blocks sound (`BlockArrives`). `JobInv` says of a running commit
  that the file with its superblock in place would be sound (`Staged`), and that
  undoing it gives back the old tree; `ContentInv` relates what each version shows to
  `allowed` and `before`. The refinement follows: `Init` maps to `Init`, and each
  action to one step of `AtomicCommit`, with the contents of the issued file as the
  abstract contents (`NextIsAbstract`). Starting a commit is `Begin`, rolling back
  and its barrier are `Refuse`, the last barrier is `Succeed`, an uncertain
  publication, a failed restoration and a death are `LeaveOpen`, and a write that is
  issued is `Appear`.

Only model-checked: `OneOwnerPerByte` and `PagesAreNotMixed` of `PagedSpace`, whose
lists per page class need an ownership argument of their own for each
transition, and whose admission of a batch is a recursive function over the batch; and
`AppendsStay`, `LossHappensOnce` and `StatisticsCountBlocks` of `ExtensibleArray` and
`FiniteIndex`, which are about what sequences and recursive computations yield and
would need induction over data. `ReaderCatchesUp` is liveness under fairness, which the prover
does not handle, nor whatever a recursive definition computes for every input.
Modules with theorems declare no recursive operators.

## What is not modelled

* In flat and paged space, managers shorter than the threshold, which are
  preserved or recycled in place (`edit/tail_recycling.rs`), and the serialization
  of the managers; in aggregated space, sessions that persist their free space,
  and immediate appends through the windows.
* In a commit, reference patching and link counts after the publication, and
  what planning and reclamation compute. A commit frees what the tree it
  replaces used and the new one does not. The in-place patches of counted hard
  links are left out of `PagePublication`.
* In the chunk index of a locked session: the layout of the blocks in bytes,
  overflow checks, the dense writer, and free space other than what the append
  itself retires. Units that nothing refers to are forgotten when a session
  ends, and the write that repeats a page bit already set is not told apart from
  one that is not made. `SwmrAppend` has inline records and one data block; super
  blocks and pages are in `ExtensibleArray`. `FiniteIndex` leaves out bitmaps longer
  than one write, and plans that went stale, which a locked session does not meet.
* With writes gathered until an operation ends, the refusal of
  `recover_page_publication` when the bytes in the file differ cannot be reached
  after a barrier that succeeded: the step is in the model and never taken.
* The chunk cache, the parsed chunk indexes and the metadata cache: each is keyed
  by the revision whose order `SessionHandles` settles, or dropped with it.
* Parsing, encoding, filters, conversion, navigation, the file writer, repack and
  the MATLAB layer. These are nine tenths of the source: sequential functions of
  bytes, without state that two steps share. Their correctness is a question
  about bytes, out of a model checker's reach, which the repository's tests
  answer against fixtures and the reference library. The share of the source
  that the modules cover is small for that reason; of the code that orders
  writes, it is most.

## What could be added

1. `ReclaimPlan`: which blocks a set of staged deletions may free, as a
   reachability computation checked against its definition.
2. `AggregatedSpace` for sessions that persist their free space, and the
   preserved and recycled tails of `FlatSpace` and `PagedSpace`.
3. `ChunkIndexCache`: the parsed index and the chunk cache keyed by revision,
   composed with `SessionHandles`.
4. Proofs: the ownership invariants of `PagedSpace`.
