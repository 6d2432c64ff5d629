--------------------------- MODULE BufferedWrites ---------------------------
(***************************************************************************)
(* The write gathering under an editing session (src/image/mod.rs):        *)
(* BufferedWrites with its pending runs, below the two file images.  The   *)
(* image's length and, for MirrorImage, its bytes are `mirror'; HandleImage *)
(* keeps only the length and patches pending runs over what it reads.      *)
(*                                                                         *)
(* A flush issues one joined run per step, because each issue may fail,    *)
(* write a part of its bytes, or be the last one before the process dies.  *)
(* Every write puts a value of its own in all its bytes.  The metadata     *)
(* cache and the batches of fill_zeros are left out.                       *)
(***************************************************************************)
EXTENDS Naturals, Sequences, FiniteSets, FiniteSetsExt

CONSTANTS
    Zero,        \* what a hole reads as
    PageSize,    \* the page a flush joins runs within
    MaxBytes,    \* the byte budget of a buffering mode
    Lengths,     \* the lengths written at once
    InitLen,     \* the length of the file that is opened
    MaxLen,      \* bound: the length of the image
    MaxWrites,   \* bound: the writes made, the n-th with value n
    MaxFailures  \* bound: the failures of the file

ASSUME GatheringAssumption ==
    /\ Zero \notin 0 .. MaxWrites /\ MaxWrites \in Nat /\ MaxFailures \in Nat
    /\ PageSize \in Nat \ {0} /\ MaxBytes \in Nat \ {0}
    /\ Lengths \subseteq Nat \ {0}
    /\ InitLen \in Nat /\ MaxLen \in Nat /\ InitLen <= MaxLen

VARIABLES
    mode,           \* WriteBuffering
    runs,           \* pending writes by start offset
    pendingBytes,   \* pending_bytes, maintained by hand
    fileBytes,      \* the file's bytes
    onDiskLen,      \* its length as far as BufferedWrites knows
    mirror,         \* MirrorImage::data; its length is HandleImage::len
    op,             \* the operation that waits for a flush
    writes, failures,   \* how many there were
    want,           \* history: by address, what a read of the image may return
    recent,         \* history: by address, what the file may hold
    stopped         \* queued writes were discarded, or a truncation failed half way

gatheringVars ==
    <<mode, runs, pendingBytes, fileBytes, onDiskLen, mirror, op, writes, failures, want, recent, stopped>>

Modes == {"Unbuffered", "Operation", "Session"}
Idle  == [kind |-> "idle"]
Addrs == 0 .. (MaxLen - 1)

(***************************************************************************)
(* Runs and bytes.  Offsets count from 0, sequences from 1.                *)
(***************************************************************************)
RunEnd(k)    == k + Len(runs[k])
Covering(a)  == {k \in DOMAIN runs : k <= a /\ a < RunEnd(k)}
Fill(v, n)   == [i \in 1 .. n |-> v]
Without(S)   == [k \in DOMAIN runs \ S |-> runs[k]]

\* The bytes that runs hold.  Runs do not overlap, so it is the sum of their lengths.
Held(r)  == UNION {k .. (k + Len(r[k]) - 1) : k \in DOMAIN r}
Bytes(S) == Cardinality(Held([k \in S |-> runs[k]]))

\* A positioned write; what it leaves out below its offset reads as zeros.
Patch(file, at, bytes) ==
    [i \in 1 .. Max({Len(file), at + Len(bytes)}) |->
        IF i > at /\ i <= at + Len(bytes) THEN bytes[i - at]
        ELSE IF i <= Len(file) THEN file[i] ELSE Zero]

Pending(a) == LET k == CHOOSE x \in Covering(a) : TRUE IN runs[k][a - k + 1]

\* HandleImage::read_at: the file, zeros past its length, and pending runs over both.
View(a) ==
    IF Covering(a) # {} THEN Pending(a)
    ELSE IF a < onDiskLen THEN fileBytes[a + 1] ELSE Zero

GatheringInit ==
    /\ mode = "Unbuffered"
    /\ runs = [k \in {} |-> <<>>]
    /\ pendingBytes = 0
    /\ fileBytes = Fill(0, InitLen)
    /\ onDiskLen = InitLen
    /\ mirror = fileBytes
    /\ op = Idle
    /\ writes = 0 /\ failures = 0
    /\ want = [a \in Addrs |-> IF a < InitLen THEN {fileBytes[a + 1]} ELSE {}]
    /\ recent = want
    /\ stopped = FALSE

(***************************************************************************)
(* absorb: the write and every run it touches or overlaps become one run,  *)
(* with the new bytes over the old.  The paths for a write inside a run    *)
(* and for one that continues a run give the same result.                  *)
(***************************************************************************)
Touched(at, n) == {k \in DOMAIN runs : k <= at + n /\ RunEnd(k) >= at}

Merged(at, bytes, lo, hi) ==
    [i \in 1 .. (hi - lo) |->
        LET a == lo + i - 1
        IN IF a >= at /\ a < at + Len(bytes) THEN bytes[a - at + 1] ELSE Pending(a)]

\* Mutant of Absorb: the bytes of the runs merged away stay counted.
AbsorbCountingTwice(at, bytes) ==
    LET t  == Touched(at, Len(bytes))
        lo == Min({at} \cup t)
        hi == Max({at + Len(bytes)} \cup {RunEnd(k) : k \in t})
    IN /\ runs' = [k \in (DOMAIN runs \ t) \cup {lo} |->
                      IF k = lo THEN Merged(at, bytes, lo, hi) ELSE runs[k]]
       /\ pendingBytes' = pendingBytes + (hi - lo)

Absorb(at, bytes) ==
    LET t  == Touched(at, Len(bytes))
        lo == Min({at} \cup t)
        hi == Max({at + Len(bytes)} \cup {RunEnd(k) : k \in t})
    IN /\ runs' = [k \in (DOMAIN runs \ t) \cup {lo} |->
                      IF k = lo THEN Merged(at, bytes, lo, hi) ELSE runs[k]]
       /\ pendingBytes' = (pendingBytes - Bytes(t)) + (hi - lo)

(***************************************************************************)
(* write_at and append.  The image takes the bytes up once the write is    *)
(* accepted; after an error a read may find them or not.                   *)
(***************************************************************************)
In(a, at, n) == a >= at /\ a < at + n

Accept(at, bytes) ==
    /\ mirror' = Patch(mirror, at, bytes)
    /\ want' = [a \in Addrs |-> IF In(a, at, Len(bytes)) THEN {bytes[1]} ELSE want[a]]

\* The operation fails: the image keeps its length and its mirror.
Fail ==
    /\ failures < MaxFailures
    /\ failures' = failures + 1
    /\ op' = Idle
    /\ want' = IF op.kind \in {"write", "direct"}
               THEN [a \in Addrs |-> IF In(a, op.at, Len(op.bytes)) /\ a < Len(mirror)
                                     THEN want[a] \cup {op.bytes[1]} ELSE want[a]]
               ELSE want
    /\ stopped' = (op.kind = "truncate")
    /\ UNCHANGED <<mode, mirror, writes, recent>>

\* Unbuffered, and writes as large as the budget, go to the file after a flush.
Direct(bytes) == mode = "Unbuffered" \/ Len(bytes) >= MaxBytes

Write(at, bytes) ==
    /\ op = Idle /\ ~stopped
    /\ writes < MaxWrites
    /\ writes' = writes + 1
    /\ at <= Len(mirror)
    /\ at + Len(bytes) <= IF at = Len(mirror) THEN MaxLen ELSE Len(mirror)
    /\ recent' = [a \in Addrs |-> IF In(a, at, Len(bytes)) THEN recent[a] \cup {bytes[1]}
                                  ELSE recent[a]]
    /\ IF Direct(bytes)
       THEN /\ op' = [kind |-> "direct", at |-> at, bytes |-> bytes]
            /\ UNCHANGED <<runs, pendingBytes, mirror, want>>
       ELSE /\ Absorb(at, bytes)
            /\ IF pendingBytes' > MaxBytes
               THEN /\ op' = [kind |-> "write", at |-> at, bytes |-> bytes]
                    /\ UNCHANGED <<mirror, want>>
               ELSE Accept(at, bytes) /\ UNCHANGED op
    /\ UNCHANGED <<mode, fileBytes, onDiskLen, failures, stopped>>

(***************************************************************************)
(* The operations that flush.                                              *)
(***************************************************************************)
SetMode(m) ==
    /\ op = Idle /\ ~stopped
    /\ op' = [kind |-> "mode", mode |-> m]
    /\ UNCHANGED <<mode, runs, pendingBytes, fileBytes, onDiskLen, mirror, writes, failures, want, recent, stopped>>

\* flush, sync_data, sync_all; an ordering barrier of Session mode does nothing.
Barrier ==
    /\ op = Idle /\ ~stopped
    /\ op' = [kind |-> "flush"]
    /\ UNCHANGED <<mode, runs, pendingBytes, fileBytes, onDiskLen, mirror, writes, failures, want, recent, stopped>>

\* discard_from: pending bytes at or past the new length are dropped.
DiscardFrom(n) ==
    LET kept == [k \in {x \in DOMAIN runs : x < n} |->
                    SubSeq(runs[k], 1, Min({Len(runs[k]), n - k}))]
    IN /\ runs' = kept
       /\ pendingBytes' = Cardinality(Held(kept))

\* truncate, set_len: the file is resized, then surviving runs are flushed.
Truncate(n) ==
    /\ op = Idle /\ ~stopped
    /\ n < Len(mirror)
    /\ fileBytes' = IF n <= Len(fileBytes) THEN SubSeq(fileBytes, 1, n)
                    ELSE fileBytes \o Fill(Zero, n - Len(fileBytes))
    /\ DiscardFrom(n)
    /\ onDiskLen' = n
    /\ op' = [kind |-> "truncate", len |-> n]
    /\ recent' = [a \in Addrs |-> IF a < n THEN recent[a] \cup (IF a < onDiskLen THEN {} ELSE {Zero})
                                  ELSE {}]
    /\ UNCHANGED <<mode, mirror, writes, failures, want, stopped>>

(***************************************************************************)
(* flush: the first run is joined with the runs that follow it on the same *)
(* page, the clean bytes between them read back from the file.             *)
(***************************************************************************)
First   == Min(DOMAIN runs)
Prev(k) == Max({i \in DOMAIN runs : i < k})

SamePage(a, b) == a \div PageSize = b \div PageSize

Joined ==
    {k \in DOMAIN runs : \A i \in DOMAIN runs \ {First} :
        i <= k => i <= onDiskLen /\ SamePage(RunEnd(Prev(i)) - 1, i)}

\* Mutant of JoinedBytes: the bytes between two runs are not read back.
JoinedBytesUnread(S) ==
    [i \in 1 .. (RunEnd(Max(S)) - First) |->
        LET a == First + i - 1 IN IF Covering(a) # {} THEN Pending(a) ELSE Zero]

JoinedBytes(S) == [i \in 1 .. (RunEnd(Max(S)) - First) |-> View(First + i - 1)]

FlushStep ==
    /\ op # Idle
    /\ DOMAIN runs # {}
    /\ fileBytes' = Patch(fileBytes, First, JoinedBytes(Joined))
    /\ onDiskLen' = Max({onDiskLen, RunEnd(Max(Joined))})
    /\ runs' = Without(Joined)
    /\ pendingBytes' = pendingBytes - Bytes(Joined)
    /\ UNCHANGED <<mode, mirror, op, writes, failures, want, recent, stopped>>

\* Mutant of Restore: what could not be issued is forgotten.
RestoreNothing(S, T) ==
    /\ runs' = Without(S)
    /\ pendingBytes' = pendingBytes - Bytes(S)

\* restore: of the joined runs S, those in T become one pending run again.
Restore(S, T) ==
    LET bytes == JoinedBytes(T)
    IN /\ runs' = [k \in (DOMAIN runs \ S) \cup {First} \cup (S \ T) |->
                      IF k = First THEN bytes ELSE runs[k]]
       /\ pendingBytes' = (pendingBytes - Bytes(T)) + Len(bytes)

\* The issue fails after `part' bytes reached the file.
IssueFails(part) ==
    /\ op # Idle
    /\ DOMAIN runs # {}
    /\ part < Len(JoinedBytes(Joined))
    /\ fileBytes' = IF part = 0 THEN fileBytes ELSE Patch(fileBytes, First, SubSeq(JoinedBytes(Joined), 1, part))
    /\ Restore(Joined, Joined)
    /\ Fail
    /\ UNCHANGED onDiskLen

\* Reading the gap before run k fails: the runs joined so far are put back.
GapReadFails(k) ==
    /\ op # Idle
    /\ k \in DOMAIN runs
    /\ k # First /\ k \in Joined
    /\ RunEnd(Prev(k)) < k
    /\ Restore({i \in Joined : i < k}, {i \in Joined : i < k})
    /\ Fail
    /\ UNCHANGED <<fileBytes, onDiskLen>>

(***************************************************************************)
(* What follows the flush.                                                 *)
(***************************************************************************)
Flushed == DOMAIN runs = {} /\ op' = Idle /\ UNCHANGED <<runs, pendingBytes, writes, failures, stopped>>

\* From here on the file holds nothing older than what the image shows.
Delivered(w) == recent' = [a \in Addrs |-> IF w[a] = {} THEN recent[a] ELSE w[a]]

WriteDone ==
    /\ op.kind = "write"
    /\ Flushed
    /\ Accept(op.at, op.bytes)
    /\ Delivered(want')
    /\ UNCHANGED <<mode, fileBytes, onDiskLen>>

DirectDone ==
    /\ op.kind = "direct"
    /\ Flushed
    /\ fileBytes' = Patch(fileBytes, op.at, op.bytes)
    /\ onDiskLen' = Max({onDiskLen, op.at + Len(op.bytes)})
    /\ Accept(op.at, op.bytes)
    /\ Delivered(want')
    /\ UNCHANGED mode

DirectFails(part) ==
    /\ op.kind = "direct"
    /\ DOMAIN runs = {}
    /\ part < Len(op.bytes)
    /\ fileBytes' = IF part = 0 THEN fileBytes ELSE Patch(fileBytes, op.at, SubSeq(op.bytes, 1, part))
    /\ Fail
    /\ UNCHANGED <<runs, pendingBytes, onDiskLen>>

FlushDone ==
    /\ op.kind = "flush"
    /\ Flushed
    /\ Delivered(want)
    /\ UNCHANGED <<mode, fileBytes, onDiskLen, mirror, want>>

ModeDone ==
    /\ op.kind = "mode"
    /\ Flushed
    /\ mode' = op.mode
    /\ Delivered(want)
    /\ UNCHANGED <<fileBytes, onDiskLen, mirror, want>>

TruncateDone ==
    /\ op.kind = "truncate"
    /\ Flushed
    /\ mirror' = SubSeq(mirror, 1, op.len)
    /\ want' = [a \in Addrs |-> IF a < op.len THEN want[a] ELSE {}]
    /\ Delivered(want')
    /\ UNCHANGED <<mode, fileBytes, onDiskLen>>

\* discard_pending_writes, after an uncertain publication.
Discard ==
    /\ op = Idle /\ ~stopped
    /\ runs' = Without(DOMAIN runs)
    /\ pendingBytes' = 0
    /\ stopped' = TRUE
    /\ UNCHANGED <<mode, fileBytes, onDiskLen, mirror, op, writes, failures, want, recent>>

GatheringNext ==
    \/ \E at \in 0 .. MaxLen, n \in Lengths : Write(at, Fill(writes + 1, n))
    \/ \E m \in Modes : SetMode(m)
    \/ Barrier
    \/ \E n \in Addrs : Truncate(n)
    \/ FlushStep
    \/ \E part \in Addrs : IssueFails(part) \/ DirectFails(part)
    \/ \E k \in Addrs : GapReadFails(k)
    \/ WriteDone \/ DirectDone \/ FlushDone \/ ModeDone \/ TruncateDone
    \/ Discard

GatheringSpec == GatheringInit /\ [][GatheringNext]_gatheringVars

(***************************************************************************)
(* Properties.                                                             *)
(***************************************************************************)

(***************************************************************************)
(* Types, and what invariants_hold asserts: runs are not empty, neither    *)
(* overlap nor touch, and pending_bytes is their total length; unbuffered  *)
(* writes leave nothing pending.                                           *)
(***************************************************************************)
QueuedRunsAreSound ==
    /\ mode \in Modes
    /\ \A k \in DOMAIN runs : k \in Addrs /\ runs[k] # <<>>
    /\ \A j, k \in DOMAIN runs : j < k => RunEnd(j) < k
    /\ pendingBytes = Bytes(DOMAIN runs)
    /\ mode = "Unbuffered" => DOMAIN runs = {}
    /\ onDiskLen <= Len(fileBytes)

(***************************************************************************)
(* Between two operations a read returns the last accepted write of each   *)
(* byte, or that of a later failed one, from either kind of image: an      *)
(* error of a flush "never means they are gone" (BufferedWrites::flush).   *)
(* The byte is in the file or pending: addresses past the file "are        *)
(* covered by the pending writes that created them" (HandleImage::read_at, *)
(* whose debug assertion says the same).  After a discard it is not so.    *)
(***************************************************************************)
ImageShowsLastWrites ==
    op = Idle /\ ~stopped =>
        \A a \in 0 .. (Len(mirror) - 1) :
            /\ View(a) \in want[a] /\ mirror[a + 1] \in want[a]
            /\ a < onDiskLen \/ Covering(a) # {}

(***************************************************************************)
(* The file holds nothing older than the last completed flush: neither the *)
(* order in which runs are issued, nor a join that reads clean bytes back, *)
(* nor a retry brings back a value that a barrier had replaced.            *)
(***************************************************************************)
FileShowsRecentWrites ==
    \A a \in 0 .. (Min({Len(mirror), onDiskLen}) - 1) : fileBytes[a + 1] \in recent[a]
=============================================================================
