-------------------------- MODULE BufferedAppender --------------------------
(***************************************************************************)
(* What a buffered appender accepts, writes and keeps (src/appender.rs),   *)
(* beside appends made to the same dataset through another handle          *)
(* (Dataset::append, src/reader/mod.rs) and over the immediate append of   *)
(* the engine (src/edit/append.rs).                                        *)
(*                                                                         *)
(* The bytes an appender accepts are numbered from 0 in the order of the   *)
(* calls; its buffer holds the interval lo..hi-1.  The dataset is the      *)
(* sequence of its elements, each of them by the number of its first byte, *)
(* or Foreign.  Every read of the geometry and every append of the engine  *)
(* takes the session's lock of its own, and other threads run in between.  *)
(***************************************************************************)
EXTENDS Integers, Sequences, FiniteSets

CONSTANTS
    Chunk,        \* chunk_elems
    ElementSize,  \* element_size, in bytes
    FullBatch,    \* full_batch_elems of a bounded session
    Maxima,       \* the finite maximum extents considered
    Unlimited,    \* MaxExtent::Unlimited
    Lengths,      \* lengths of the dataset when the appender is opened
    Submissions,  \* bytes submitted by one call
    MaxBytes,     \* bound: bytes accepted by the appender
    MaxForeign,   \* bound: elements of the dataset that are not the appender's
    MaxFaults     \* bound: failures of the file

\* What the constants must be.
ConstantsOK ==
    /\ Chunk \in Nat \ {0}
    /\ ElementSize \in Nat \ {0}
    /\ FullBatch \in Nat \ {0}
    /\ FullBatch % Chunk = 0
    /\ Maxima \subseteq Nat
    /\ Unlimited \notin Nat
    /\ Lengths \subseteq Nat
    /\ Submissions \subseteq Nat \ {0}

VARIABLES
    elements,   \* the visible elements of the dataset
    setting,    \* the dataset's maximum, whether its filters are lossy, batching, and the policies of the two handles
    session,    \* "open", "uncertain" or "closed"
    buffer,     \* BufferState
    call,       \* the running call of the appender, and the step it is at
    other,      \* the running call of the other handle
    faults,     \* failures of the file so far
    past        \* history the properties refer to

vars == <<elements, setting, session, buffer, call, other, faults, past>>

Foreign == -1
None    == [pc |-> "none", kind |-> "none", mark |-> 0, take |-> 0, before |-> 0]
Resting == [pc |-> "idle", left |-> 0, dim |-> 0]

Dim       == Len(elements)
Finite    == setting.maximum # Unlimited
Available == (buffer.hi - buffer.lo) \div ElementSize
Broken    == (buffer.hi - buffer.lo) % ElementSize # 0
Active    == buffer.life = "active"
Idle      == call.pc = "idle"

(***************************************************************************)
(* past.foreign  the other handle appended since the appender was opened;  *)
(* past.raced    it did since the running write read the length, and the   *)
(*               write failed;                                             *)
(* past.blind    the length could not be read after a failed write;        *)
(* past.promised bytes accepted by the calls that returned.                *)
(***************************************************************************)
Init ==
    /\ \E n \in Lengths : elements = [i \in 1..n |-> Foreign]
    /\ setting \in [maximum : Maxima \cup {Unlimited}, lossy : BOOLEAN, batched : BOOLEAN,
                    mine : {"reject", "allow"}, theirs : {"reject", "allow"}]
    /\ ~setting.lossy => setting.mine = "allow" /\ setting.theirs = "allow"
    /\ Finite => Dim <= setting.maximum
    /\ session = "open"
    /\ buffer = [lo |-> 0, hi |-> 0, life |-> "unopened", mistyped |-> FALSE]
    /\ call = None
    /\ other = Resting
    /\ faults = 0
    /\ past = [foreign |-> FALSE, raced |-> FALSE, blind |-> FALSE, promised |-> 0]

(***************************************************************************)
(* The engine's append: append_inplace_bytes.                              *)
(***************************************************************************)

\* Elements that bring the length to a chunk boundary.
ToBoundary(dim) == (Chunk - (dim % Chunk)) % Chunk

\* The elements of the next batch of an append of n elements at length dim.
BatchTake(dim, n) ==
    IF setting.batched /\ n > ToBoundary(dim) + FullBatch THEN ToBoundary(dim) + FullBatch ELSE n

\* The lengths an append of n elements shows between its batches: all but the first begin at a chunk boundary.
BatchEnds(dim, n) ==
    {dim, dim + n}
        \cup {d \in dim..(dim + n) :
                 setting.batched /\ \E k \in 1..n : d = dim + ToBoundary(dim) + k * FullBatch}

\* A lossy partial tail that the policy protects is not grown.
Protected(dim, policy) == setting.lossy /\ policy = "reject" /\ dim % Chunk # 0

\* What is refused before anything is written.
Refused(n, policy, mistyped) ==
    \/ session # "open"
    \/ mistyped
    \/ Finite /\ Dim + n > setting.maximum
    \/ Protected(Dim, policy)

\* The elements land; a batch whose last barrier failed may show.
Lands(n, items) == elements' = elements \o SubSeq(items, 1, n)

\* A failure of the file stops the batches: the earlier ones stay.  Its outcome may be uncertain.
Fails(n, items) ==
    /\ faults < MaxFaults
    /\ faults' = faults + 1
    /\ \E d \in BatchEnds(Dim, n) : Lands(d - Dim, items)
    /\ session' \in {"open", "uncertain"}

(***************************************************************************)
(* The steps of the appender's calls.                                      *)
(***************************************************************************)

\* A read of the geometry fails with the file or with a session that was closed.
GeometryFails ==
    \/ session = "closed" /\ UNCHANGED faults
    \/ faults < MaxFaults /\ faults' = faults + 1

At(pc) == call' = [call EXCEPT !.pc = pc]

\* The buffer when a call returns: settle takes rejected input back, finish and teardown stop.
Returned(b, ok) ==
    [b EXCEPT !.hi   = IF call.kind = "append" /\ ~ok /\ b.life = "active" THEN call.mark ELSE @,
              !.life = IF call.kind = "finish" THEN "stopped" ELSE @]

\* What the call leaves accepted: what was there, its own input if it succeeded or reached the file.
Promised(b, ok) == IF ok \/ b.life = "poisoned" THEN b.hi ELSE past.promised

Return(b, ok) ==
    /\ buffer' = Returned(b, ok)
    /\ call' = [None EXCEPT !.pc = "idle"]

\* BufferState::new: the geometry is read, then the dataset is claimed.
Open ==
    /\ buffer.life = "unopened"
    /\ session = "open"
    /\ ~Protected(Dim, setting.mine)
    /\ buffer' = [buffer EXCEPT !.life = "opening"]
    /\ UNCHANGED <<elements, setting, session, call, other, faults, past>>

Claim ==
    /\ buffer.life = "opening"
    /\ buffer' = [buffer EXCEPT !.life = "active"]
    /\ call' = [None EXCEPT !.pc = "idle"]
    /\ UNCHANGED <<elements, setting, session, other, faults, past>>

\* check_usable.
Usable == Idle /\ session = "open" /\ Active

\* append and append_raw take the input into the buffer; settle follows.
Accept(bytes, mistyped) ==
    /\ Usable
    /\ buffer.hi + bytes <= MaxBytes
    /\ buffer' = [buffer EXCEPT !.hi = @ + bytes, !.mistyped = @ \/ mistyped]
    /\ call' = [None EXCEPT !.pc = IF Finite THEN "settle" ELSE "chunks", !.kind = "append", !.mark = buffer.hi]
    /\ UNCHANGED <<elements, setting, session, other, faults, past>>

\* Mutant of Exceeds: the published length is not counted.
ExceedsBuffered == Available > setting.maximum

\* More is buffered than the maximum leaves room for, a partial trailing element included.
Exceeds ==
    LET remaining == setting.maximum - Dim
    IN  Available > remaining \/ (Available = remaining /\ Broken)

\* settle.
Settle ==
    /\ call.pc = "settle"
    /\ \/ /\ session # "closed"
          /\ \/ Exceeds /\ Return(buffer, FALSE)
             \/ ~Exceeds /\ At("chunks") /\ UNCHANGED buffer
          /\ UNCHANGED faults
       \/ GeometryFails /\ Return(buffer, FALSE)
    /\ UNCHANGED <<elements, setting, session, other, past>>

\* The longest prefix that ends at a chunk boundary.
Takes == ToBoundary(Dim) + ((Available - ToBoundary(Dim)) \div Chunk) * Chunk

\* write_complete_chunks.
WriteCompleteChunks ==
    /\ call.pc = "chunks"
    /\ \/ /\ Available < Chunk
          /\ Return(buffer, TRUE)
          /\ past' = [past EXCEPT !.promised = buffer.hi]
          /\ UNCHANGED faults
       \/ /\ Available >= Chunk
          /\ session # "closed"
          /\ call' = [call EXCEPT !.pc = "before", !.take = Takes]
          /\ UNCHANGED <<buffer, faults, past>>
       \/ Available >= Chunk /\ GeometryFails /\ Return(buffer, FALSE) /\ UNCHANGED past
    /\ UNCHANGED <<elements, setting, session, other>>

\* A flush that has nothing to write, or a partial trailing element, returns at once.
Flushable == Usable /\ ~Broken /\ Available > 0

\* A flush after which other writes may follow must not leave a lossy tail it could not grow.
Guarded(kind) == setting.lossy /\ setting.mine = "reject" /\ kind = "flush"

\* flush, and the flush of finish and of teardown.
Flush(kind) ==
    /\ Flushable
    /\ call' = [None EXCEPT !.pc = IF Guarded(kind) THEN "guard" ELSE "before", !.kind = kind, !.take = Available]
    /\ UNCHANGED <<elements, setting, session, buffer, other, faults, past>>

FlushGuard ==
    /\ call.pc = "guard"
    /\ \/ /\ session # "closed"
          /\ \/ (Dim + call.take) % Chunk # 0 /\ Return(buffer, FALSE)
             \/ (Dim + call.take) % Chunk = 0 /\ At("before") /\ UNCHANGED buffer
          /\ UNCHANGED faults
       \/ GeometryFails /\ Return(buffer, FALSE)
    /\ UNCHANGED <<elements, setting, session, other, past>>

\* write_prefix: the length before the write.
Before ==
    /\ call.pc = "before"
    /\ \/ /\ session # "closed"
          /\ call' = [call EXCEPT !.pc = "write", !.before = Dim]
          /\ past' = [past EXCEPT !.raced = FALSE]
          /\ UNCHANGED <<buffer, faults>>
       \/ GeometryFails /\ Return(buffer, FALSE) /\ UNCHANGED past
    /\ UNCHANGED <<elements, setting, session, other>>

\* The elements of the prefix, by their first bytes.
HeadElements == [i \in 1..call.take |-> buffer.lo + (i - 1) * ElementSize]

\* drop_front.
Dropped(n) == [buffer EXCEPT !.lo = @ + n * ElementSize]

\* append_prebuilt succeeds.
Write ==
    /\ call.pc = "write"
    /\ ~Refused(call.take, setting.mine, buffer.mistyped)
    /\ Lands(call.take, HeadElements)
    /\ Return(Dropped(call.take), TRUE)
    /\ past' = [past EXCEPT !.promised = Promised(buffer, TRUE), !.raced = FALSE]
    /\ UNCHANGED <<setting, session, other, faults>>

\* append_prebuilt fails: the appender is poisoned.
WriteFails ==
    /\ call.pc = "write"
    /\ \/ Refused(call.take, setting.mine, buffer.mistyped) /\ UNCHANGED <<elements, session, faults>>
       \/ ~Refused(call.take, setting.mine, buffer.mistyped) /\ Fails(call.take, HeadElements)
    /\ buffer' = [buffer EXCEPT !.life = "poisoned"]
    /\ At("landed")
    /\ UNCHANGED <<setting, other, past>>

Least(a, b) == IF a < b THEN a ELSE b

\* Mutant of Landed: a failed write counts as written.
LandedAll == call.take

\* The elements a failed write is taken to have landed.
Landed == IF Dim < call.before THEN 0 ELSE Least(Dim - call.before, call.take)

DropLanded ==
    /\ call.pc = "landed"
    /\ \/ /\ session # "closed"
          /\ Return(Dropped(Landed), FALSE)
          /\ past' = [past EXCEPT !.promised = buffer.hi]
          /\ UNCHANGED faults
       \/ /\ GeometryFails
          /\ Return(Dropped(0), FALSE)
          /\ past' = [past EXCEPT !.promised = buffer.hi, !.blind = TRUE]
    /\ UNCHANGED <<elements, setting, session, other>>

\* finish and Drop where there is nothing to flush or the flush is refused at once, and discard.
Stop ==
    /\ Idle
    /\ buffer.life \in {"active", "poisoned"}
    /\ buffer' = [buffer EXCEPT !.life = "stopped"]
    /\ UNCHANGED <<elements, setting, session, call, other, faults, past>>

(***************************************************************************)
(* The other handle, and the session.                                      *)
(***************************************************************************)

\* Its elements became visible.
Intrudes(landed) ==
    past' = IF landed = 0 THEN past
            ELSE [past EXCEPT !.foreign = @ \/ buffer.life # "unopened",
                              !.raced = @ \/ call.pc \in {"write", "landed"}]

Theirs(n) == [i \in 1..n |-> Foreign]

\* Dataset::append reads the geometry and refuses what exceeds the maximum.
OtherAppend(n) ==
    /\ other.pc = "idle"
    /\ session # "closed"
    /\ Cardinality({i \in 1..Dim : elements[i] = Foreign}) + n <= MaxForeign
    /\ Finite => Dim + n <= setting.maximum
    /\ other' = [pc |-> "append", left |-> n, dim |-> Dim]
    /\ UNCHANGED <<elements, setting, session, buffer, call, faults, past>>

\* append_batches gives the engine a batch at a time; a borrowed encoding is one batch.
OtherBatch ==
    /\ other.pc = "append"
    /\ \E n \in {other.left, BatchTake(other.dim, other.left)} :
        \/ /\ ~Refused(n, setting.theirs, FALSE)
           /\ Lands(n, Theirs(n))
           /\ other' = IF n = other.left THEN Resting ELSE [other EXCEPT !.left = @ - n, !.dim = @ + n]
           /\ Intrudes(n)
           /\ UNCHANGED <<session, faults>>
        \/ /\ Refused(n, setting.theirs, FALSE)
           /\ other' = Resting
           /\ UNCHANGED <<elements, session, faults, past>>
        \/ /\ ~Refused(n, setting.theirs, FALSE)
           /\ Fails(n, Theirs(n))
           /\ other' = Resting
           /\ Intrudes(Len(elements') - Dim)
    /\ UNCHANGED <<setting, buffer, call>>

\* close(), or an edit of another thread whose outcome is unknown.
SessionEnds ==
    /\ \/ session = "open" /\ session' = "uncertain"
       \/ session # "closed" /\ session' = "closed"
    /\ UNCHANGED <<elements, setting, buffer, call, other, faults, past>>

Next ==
    \/ Open
    \/ Claim
    \/ \E bytes \in Submissions, mistyped \in BOOLEAN : Accept(bytes, mistyped)
    \/ Settle
    \/ WriteCompleteChunks
    \/ \E kind \in {"flush", "finish"} : Flush(kind)
    \/ FlushGuard
    \/ Before
    \/ Write
    \/ WriteFails
    \/ DropLanded
    \/ Stop
    \/ \E n \in 1..MaxForeign : OtherAppend(n)
    \/ OtherBatch
    \/ SessionEnds

Spec == Init /\ [][Next]_vars

-----------------------------------------------------------------------------

Own == {i \in 1..Dim : elements[i] # Foreign}

\* The appender's elements in the dataset are the accepted bytes before the buffer, once and in order.
Accounted ==
    /\ buffer.lo % ElementSize = 0
    /\ {elements[i] : i \in Own} = {k * ElementSize : k \in 0..(buffer.lo \div ElementSize - 1)}
    /\ \A i, j \in Own : i < j => elements[i] < elements[j]

(***************************************************************************)
(* Nothing an appender accepted is lost or written twice, through partial  *)
(* writes, failures and rejected input: what unwritten() returns follows   *)
(* the elements in the dataset, and ends with the last accepted byte.      *)
(* This is stated where the length could be read after a failed write, and *)
(* no other append slipped in between the length and the write             *)
(* (BufferState::write_prefix, settle).                                    *)
(***************************************************************************)
UnwrittenFollowsWritten ==
    ~past.raced /\ ~past.blind /\ call.pc # "landed" =>
        Accounted /\ (Idle => buffer.hi = past.promised)

(***************************************************************************)
(* What unwritten()'s documentation says of an appender whose write        *)
(* failed, other handles or not.                                           *)
(***************************************************************************)
UnwrittenIsTheRest == buffer.life = "poisoned" /\ Idle => Accounted

(***************************************************************************)
(* The checks of new, settle, flush and write_complete_chunks together     *)
(* keep every write of the appender acceptable to the engine: one that is  *)
(* alone on its dataset is poisoned by a failure of the file or the        *)
(* session, or by elements of the wrong type, and by nothing else.         *)
(***************************************************************************)
PoisonNeedsCause ==
    buffer.life = "poisoned" => past.foreign \/ faults > 0 \/ session # "open" \/ buffer.mistyped
=============================================================================
