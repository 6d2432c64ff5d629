------------------------------ MODULE Extents ------------------------------
(***************************************************************************)
(* Nonempty half-open intervals of stored addresses                        *)
(* (crates/hdf5-pure-space/src/extent.rs).  An extent is a record with its *)
(* first byte and one past its last byte.                                  *)
(***************************************************************************)
EXTENDS Integers

\* Extent::between, with the empty interval excluded by the set.
Extent == {e \in [start : Nat, end : Nat] : e.start < e.end}

\* Extent::new(start, len) for a nonzero length.
ExtentAt(start, len) == [start |-> start, end |-> start + len]

ExtentLen(e) == e.end - e.start

\* The addresses an extent occupies, and those a set of extents occupies.
BytesOf(e) == e.start .. (e.end - 1)
Bytes(list) == UNION {BytesOf(e) : e \in list}

\* A set with its elements listed: TLC would keep a union or a difference as an expression.
Listed(bytes) == {b : b \in bytes}

\* NonEmptyRange::intersection is nonempty.
Overlaps(a, b) == a.start < b.end /\ b.start < a.end

\* Extent::adjoins: the extents touch without overlapping.
AdjoinsExtent(a, b) == a.end = b.start \/ b.end = a.start

PairwiseDisjoint(list) == \A a, b \in list : a = b \/ ~Overlaps(a, b)
=============================================================================
