---------------------------- MODULE SpaceProofs -----------------------------
(***************************************************************************)
(* The space of a session: who owns its bytes under the flat and under the *)
(* aggregating strategy.                                                   *)
(***************************************************************************)
EXTENDS FlatSpace, AggregatedSpace, WellFoundedInduction, TLAPS

(***************************************************************************)
(* What the free-list operators preserve, for every list and every extent, *)
(* and from it the ownership of bytes under the flat strategy, for every   *)
(* file length, request length and threshold.  OneOwnerPerByte is          *)
(* inductive together with the types and the canonical shape of the list.  *)
(***************************************************************************)

(***************************************************************************)
(* The free list.                                                          *)
(***************************************************************************)
\* A byte belongs to a list when one of its extents holds it.
LEMMA BytesMember ==
    ASSUME NEW list \in SUBSET Extent, NEW x
    PROVE  x \in Bytes(list) <=> \E e \in list : x \in Int /\ e.start <= x /\ x < e.end
  BY DEF Bytes, BytesOf, Extent

\* Extents that share no byte do not overlap, and the converse.
LEMMA DisjointBytes ==
    ASSUME NEW a \in Extent, NEW b \in Extent
    PROVE  BytesOf(a) \cap BytesOf(b) = {} <=> ~Overlaps(a, b)
  <1>1. ASSUME Overlaps(a, b) PROVE BytesOf(a) \cap BytesOf(b) # {}
    <2>1. CASE a.start <= b.start
      <3>1. b.start \in BytesOf(a) \cap BytesOf(b)
        BY <1>1, <2>1 DEF Overlaps, BytesOf, Extent
      <3> QED BY <3>1, Zenon
    <2>2. CASE b.start < a.start
      <3>1. a.start \in BytesOf(a) \cap BytesOf(b)
        BY <1>1, <2>2 DEF Overlaps, BytesOf, Extent
      <3> QED BY <3>1, Zenon
    <2> QED BY <2>1, <2>2 DEF Extent
  <1>2. ASSUME ~Overlaps(a, b) PROVE BytesOf(a) \cap BytesOf(b) = {}
    BY <1>2 DEF Overlaps, BytesOf, Extent
  <1> QED BY <1>1, <1>2, Zenon

\* An extent disjoint from a list's bytes overlaps none of its regions.
LEMMA DisjointFromList ==
    ASSUME NEW list \in SUBSET Extent, NEW e \in Extent,
           BytesOf(e) \cap Bytes(list) = {}
    PROVE  \A r \in list : r.end <= e.start \/ e.end <= r.start
  <1> SUFFICES ASSUME NEW r \in list
               PROVE  r.end <= e.start \/ e.end <= r.start
    BY Zenon
  <1>1. BytesOf(e) \cap BytesOf(r) = {}
    BY Zenon DEF Bytes
  <1>2. ~Overlaps(e, r)
    BY <1>1, DisjointBytes, Zenon
  <1> QED BY <1>2 DEF Overlaps, Extent

(***************************************************************************)
(* FreeList::free keeps the list canonical and adds exactly the extent's   *)
(* bytes, for every canonical list and every extent that is not free yet.  *)
(***************************************************************************)
THEOREM FreePreservesList ==
    ASSUME NEW list \in SUBSET Extent, Canonical(list),
           NEW e \in Extent, BytesOf(e) \cap Bytes(list) = {}
    PROVE  /\ Free(list, e) \subseteq Extent
           /\ Canonical(Free(list, e))
           /\ Bytes(Free(list, e)) = Bytes(list) \cup BytesOf(e)
  <1> DEFINE run   == {r \in list : r.end >= e.start /\ r.start <= e.end}
             below == {r \in run : r.start < e.start}
             above == {r \in run : r.end > e.end}
             ms == IF below = {} THEN e.start ELSE (CHOOSE r \in below : TRUE).start
             me == IF above = {} THEN e.end ELSE (CHOOSE r \in above : TRUE).end
             merged == [start |-> ms, end |-> me]
  <1>1. Free(list, e) = (list \ run) \cup {merged}
    BY Zenon DEF Free
  <1>2. \A r \in list : r.end <= e.start \/ e.end <= r.start
    BY DisjointFromList, Zenon
  <1>3. \/ below = {} /\ ms = e.start
        \/ \E b \in list : b.end = e.start /\ b.start < e.start /\ ms = b.start /\ below = {b}
    <2>1. CASE below = {}
      BY <2>1, Zenon
    <2>2. CASE below # {}
      <3> DEFINE b == CHOOSE r \in below : TRUE
      <3>1. b \in below
        BY <2>2, Zenon
      <3>2. b \in list /\ b.end = e.start /\ b.start < e.start /\ ms = b.start
        BY <3>1, <2>2, <1>2 DEF Extent
      <3>3. \A q \in below : q = b
        BY <3>1, <3>2, <1>2 DEF Canonical, Extent
      <3> QED BY Zenon, <3>1, <3>2, <3>3
    <2> QED BY <2>1, <2>2, Zenon
  <1>4. \/ above = {} /\ me = e.end
        \/ \E a \in list : a.start = e.end /\ a.end > e.end /\ me = a.end /\ above = {a}
    <2>1. CASE above = {}
      BY <2>1, Zenon
    <2>2. CASE above # {}
      <3> DEFINE a == CHOOSE r \in above : TRUE
      <3>1. a \in above
        BY <2>2, Zenon
      <3>2. a \in list /\ a.start = e.end /\ a.end > e.end /\ me = a.end
        BY <3>1, <2>2, <1>2, SMTT(30) DEF Extent
      <3>3. \A q \in above : q = a
        BY <3>1, <3>2, <1>2 DEF Canonical, Extent
      <3> QED BY Zenon, <3>1, <3>2, <3>3
    <2> QED BY <2>1, <2>2, Zenon
  <1>5. run = below \cup above
    BY <1>2 DEF Extent
  <1> HIDE DEF ms, me, below, above, run
  <1>6. ms \in Nat /\ me \in Nat /\ ms <= e.start /\ e.end <= me
    BY <1>3, <1>4 DEF Extent
  <1>7. merged \in Extent
    BY <1>6 DEF Extent
  <1>8. \A r \in list \ run : r.end < ms \/ me < r.start
    <2> SUFFICES ASSUME NEW r \in list, r \notin run
                 PROVE  r.end < ms \/ me < r.start
      BY Zenon
    <2>1. r.end < e.start \/ e.end < r.start
      BY DEF run, Extent
    <2>2. r.end < e.start => r.end < ms
      BY <1>3, <1>5 DEF Canonical, Extent
    <2>3. e.end < r.start => me < r.start
      BY <1>4, <1>5 DEF Canonical, Extent
    <2> QED BY <2>1, <2>2, <2>3, Zenon
  <1>9. Canonical(Free(list, e))
    BY <1>1, <1>8 DEF Canonical
  <1>10. BytesOf(merged) = BytesOf(e) \cup Bytes(run)
    <2>1. Bytes(run) = Bytes(below) \cup Bytes(above)
      BY <1>5 DEF Bytes
    <2>2. Bytes(below) = ms .. (e.start - 1)
      <3>1. CASE below = {} /\ ms = e.start
        BY <3>1 DEF Bytes, Extent
      <3>2. ASSUME NEW b \in list, b.end = e.start, ms = b.start, below = {b}
            PROVE  Bytes(below) = ms .. (e.start - 1)
        <4>1. Bytes({b}) = BytesOf(b)
          BY Zenon DEF Bytes
        <4> QED BY <4>1, <3>2, Zenon DEF BytesOf
      <3> QED BY <1>3, <3>1, <3>2, Zenon
    <2>3. Bytes(above) = e.end .. (me - 1)
      <3>1. CASE above = {} /\ me = e.end
        BY <3>1 DEF Bytes, Extent
      <3>2. ASSUME NEW a \in list, a.start = e.end, me = a.end, above = {a}
            PROVE  Bytes(above) = e.end .. (me - 1)
        <4>1. Bytes({a}) = BytesOf(a)
          BY Zenon DEF Bytes
        <4> QED BY <4>1, <3>2, Zenon DEF BytesOf
      <3> QED BY <1>4, <3>1, <3>2, Zenon
    <2>4. BytesOf(merged) = ms .. (me - 1)
      BY Zenon DEF BytesOf
    <2>5. BytesOf(e) = e.start .. (e.end - 1)
      BY Zenon DEF BytesOf
    <2> QED BY <2>1, <2>2, <2>3, <2>4, <2>5, <1>6, SMTT(30) DEF Extent
  <1>11. Bytes(list) = Bytes(list \ run) \cup Bytes(run)
    BY SMTT(30) DEF Bytes, run
  <1>12. Bytes(Free(list, e)) = Bytes(list \ run) \cup BytesOf(merged)
    BY <1>1, SMTT(30) DEF Bytes
  <1> QED BY <1>1, <1>7, <1>9, <1>10, <1>11, <1>12, Zenon

(***************************************************************************)
(* FreeList::alloc hands out bytes that were free, removes exactly those,  *)
(* and keeps the list canonical.                                           *)
(***************************************************************************)
THEOREM AllocPreservesList ==
    ASSUME NEW list \in SUBSET Extent, Canonical(list),
           NEW len \in Nat \ {0}, NEW r \in list, len <= ExtentLen(r)
    PROVE  /\ ExtentAt(r.start, len) \in Extent
           /\ AllocFrom(list, r, len) \subseteq Extent
           /\ Canonical(AllocFrom(list, r, len))
           /\ BytesOf(ExtentAt(r.start, len)) \subseteq Bytes(list)
           /\ Bytes(AllocFrom(list, r, len)) = Bytes(list) \ BytesOf(ExtentAt(r.start, len))
  <1> DEFINE rest == [start |-> r.start + len, end |-> r.end]
             keep == {x \in {rest} : x.start < x.end}
  <1>1. ExtentAt(r.start, len) \in Extent
    BY DEF ExtentAt, Extent
  <1>2. AllocFrom(list, r, len) = (list \ {r}) \cup keep
    BY Zenon DEF AllocFrom
  <1>3. r.start + len <= r.end /\ r.start \in Nat /\ r.end \in Nat
    BY DEF ExtentLen, Extent
  <1>4. keep \subseteq Extent
    BY <1>3 DEF Extent
  <1>5. Canonical(AllocFrom(list, r, len))
    BY <1>2, <1>3 DEF Canonical, Extent
  <1>6. BytesOf(ExtentAt(r.start, len)) = r.start .. (r.start + len - 1)
    BY <1>3 DEF ExtentAt, BytesOf
  <1>7. BytesOf(r) = r.start .. (r.end - 1) /\ BytesOf(r) \subseteq Bytes(list)
    BY Zenon DEF BytesOf, Bytes
  <1>8. Bytes(keep) = (r.start + len) .. (r.end - 1)
    <2>1. CASE r.start + len < r.end
      <3>1. keep = {rest}
        BY <2>1
      <3>2. Bytes({rest}) = BytesOf(rest)
        BY Zenon DEF Bytes
      <3> QED BY Zenon, <3>1, <3>2 DEF BytesOf
    <2>2. CASE r.start + len = r.end
      <3>1. keep = {}
        BY <2>2, <1>3
      <3> HIDE DEF keep
      <3> QED BY <3>1, <2>2, <1>3 DEF Bytes
    <2> QED BY <1>3, <2>1, <2>2
  <1>9. Bytes(list) = Bytes(list \ {r}) \cup BytesOf(r)
    BY Zenon DEF Bytes
  <1>10. Bytes(list \ {r}) \cap BytesOf(r) = {}
    <2> SUFFICES ASSUME NEW q \in list \ {r}
                 PROVE  BytesOf(q) \cap BytesOf(r) = {}
      BY Zenon DEF Bytes
    <2>1. ~Overlaps(q, r)
      BY DEF Canonical, Overlaps, Extent
    <2> QED BY <2>1, DisjointBytes, Zenon
  <1>11. Bytes(AllocFrom(list, r, len)) = Bytes(list \ {r}) \cup Bytes(keep)
    BY <1>2, Zenon DEF Bytes
  <1> HIDE DEF keep, rest
  <1>12. Bytes(AllocFrom(list, r, len)) = Bytes(list) \ BytesOf(ExtentAt(r.start, len))
    <2>1. /\ Bytes(keep) \cup BytesOf(ExtentAt(r.start, len)) = BytesOf(r)
          /\ Bytes(keep) \cap BytesOf(ExtentAt(r.start, len)) = {}
      BY <1>3, <1>6, <1>7, <1>8, SMTT(30)
    <2> QED BY <2>1, <1>9, <1>10, <1>11, Zenon
  <1>13. BytesOf(ExtentAt(r.start, len)) \subseteq Bytes(list)
    BY <1>3, <1>6, <1>7, SMTT(30)
  <1> QED BY <1>1, <1>2, <1>4, <1>5, <1>12, <1>13, Zenon

\* FreeList::take_range removes exactly the range's bytes and keeps the list canonical.
THEOREM TakeRangePreservesList ==
    ASSUME NEW list \in SUBSET Extent, Canonical(list), NEW e \in Extent
    PROVE  /\ TakeRange(list, e) \subseteq Extent
           /\ Canonical(TakeRange(list, e))
           /\ Bytes(TakeRange(list, e)) = Bytes(list) \ BytesOf(e)
  <1> DEFINE apart == {r \in list : ~Overlaps(r, e)}
             low   == {q \in list : Overlaps(q, e) /\ q.start < e.start}
             high  == {q \in list : Overlaps(q, e) /\ q.end > e.end}
             lows  == {[start |-> r.start, end |-> e.start] : r \in low}
             highs == {[start |-> e.end, end |-> r.end] : r \in high}
  <1>1. TakeRange(list, e) = apart \cup lows \cup highs
    BY Zenon DEF TakeRange
  <1>2. TakeRange(list, e) \subseteq Extent
    BY <1>1 DEF Extent
  <1>3. Canonical(TakeRange(list, e))
    <2> SUFFICES ASSUME NEW x \in apart \cup lows \cup highs,
                        NEW y \in apart \cup lows \cup highs
                 PROVE  x = y \/ x.end < y.start \/ y.end < x.start
      BY <1>1, Zenon DEF Canonical
    <2>0. /\ x \in apart \/ (\E r \in low : x = [start |-> r.start, end |-> e.start])
                         \/ (\E r \in high : x = [start |-> e.end, end |-> r.end])
          /\ y \in apart \/ (\E r \in low : y = [start |-> r.start, end |-> e.start])
                         \/ (\E r \in high : y = [start |-> e.end, end |-> r.end])
      BY Zenon
    <2>1. CASE x \in apart
      <3>1. CASE y \in apart
        BY <2>1, <3>1, Zenon DEF Canonical
      <3>2. ASSUME NEW q \in low, y = [start |-> q.start, end |-> e.start]
            PROVE  x.end < y.start \/ y.end < x.start
        BY <2>1, <3>2 DEF Canonical, Overlaps, Extent
      <3>3. ASSUME NEW q \in high, y = [start |-> e.end, end |-> q.end]
            PROVE  x.end < y.start \/ y.end < x.start
        BY <2>1, <3>3, SMTT(30) DEF Canonical, Overlaps, Extent
      <3> QED BY <2>0, <3>1, <3>2, <3>3, Zenon
    <2>2. ASSUME NEW r \in low, x = [start |-> r.start, end |-> e.start]
          PROVE  x = y \/ x.end < y.start \/ y.end < x.start
      <3>1. CASE y \in apart
        BY <2>2, <3>1 DEF Canonical, Overlaps, Extent
      <3>2. ASSUME NEW q \in low, y = [start |-> q.start, end |-> e.start]
            PROVE  x = y
        BY <2>2, <3>2 DEF Canonical, Overlaps, Extent
      <3>3. ASSUME NEW q \in high, y = [start |-> e.end, end |-> q.end]
            PROVE  x.end < y.start
        BY <2>2, <3>3, Zenon DEF Extent
      <3> QED BY <2>0, <3>1, <3>2, <3>3, Zenon
    <2>3. ASSUME NEW r \in high, x = [start |-> e.end, end |-> r.end]
          PROVE  x = y \/ x.end < y.start \/ y.end < x.start
      <3>1. CASE y \in apart
        BY <2>3, <3>1 DEF Canonical, Overlaps, Extent
      <3>2. ASSUME NEW q \in low, y = [start |-> q.start, end |-> e.start]
            PROVE  y.end < x.start
        BY <2>3, <3>2, Zenon DEF Extent
      <3>3. ASSUME NEW q \in high, y = [start |-> e.end, end |-> q.end]
            PROVE  x = y
        BY <2>3, <3>3 DEF Canonical, Overlaps, Extent
      <3> QED BY <2>0, <3>1, <3>2, <3>3, Zenon
    <2> QED BY <2>0, <2>1, <2>2, <2>3, Zenon
  <1>4. Bytes(TakeRange(list, e)) \subseteq Bytes(list) \ BytesOf(e)
    <2> SUFFICES ASSUME NEW y \in apart \cup lows \cup highs, NEW x \in BytesOf(y)
                 PROVE  x \in Bytes(list) /\ x \notin BytesOf(e)
      BY <1>1, Zenon DEF Bytes
    <2>1. CASE y \in apart
      BY <2>1 DEF Bytes, BytesOf, Overlaps, Extent
    <2>2. ASSUME NEW r \in low, y = [start |-> r.start, end |-> e.start]
          PROVE  x \in BytesOf(r) /\ x \notin BytesOf(e)
      BY <2>2 DEF BytesOf, Overlaps, Extent
    <2>3. ASSUME NEW r \in high, y = [start |-> e.end, end |-> r.end]
          PROVE  x \in BytesOf(r) /\ x \notin BytesOf(e)
      BY <2>3 DEF BytesOf, Overlaps, Extent
    <2> QED BY <2>1, <2>2, <2>3, Zenon DEF Bytes
  <1>5. Bytes(list) \ BytesOf(e) \subseteq Bytes(TakeRange(list, e))
    <2> SUFFICES ASSUME NEW r \in list, NEW x \in BytesOf(r), x \notin BytesOf(e)
                 PROVE  \E y \in TakeRange(list, e) : x \in BytesOf(y)
      BY DEF Bytes
    <2>1. CASE ~Overlaps(r, e)
      BY <2>1, <1>1, Zenon
    <2>2. CASE Overlaps(r, e) /\ x < e.start
      <3> DEFINE y == [start |-> r.start, end |-> e.start]
      <3>1. r \in low /\ x \in BytesOf(y)
        BY <2>2 DEF BytesOf, Extent
      <3> QED BY <3>1, <1>1, Zenon
    <2>3. CASE Overlaps(r, e) /\ x >= e.end
      <3> DEFINE y == [start |-> e.end, end |-> r.end]
      <3>1. r \in high /\ x \in BytesOf(y)
        BY <2>3 DEF BytesOf, Extent
      <3> QED BY <3>1, <1>1, Zenon
    <2> QED BY <2>1, <2>2, <2>3 DEF BytesOf, Extent
  <1> QED BY <1>2, <1>3, <1>4, <1>5, Zenon

\* A nonempty set of natural numbers has a least element.
LEMMA LeastNat ==
    ASSUME NEW T \in SUBSET Nat, T # {}
    PROVE  \E m \in T : \A y \in T : m <= y
  <1> DEFINE Less == {ss \in Nat \X Nat : ss[1] < ss[2]}
  <1>1. OpToRel(<, Nat) = Less
    BY Zenon DEF OpToRel
  <1>2. IsWellFoundedOn(Less, Nat)
    BY <1>1, NatLessThanWellFounded, Zenon
  <1> HIDE DEF Less
  <1>3. PICK m \in T : \A y \in T : ~(<<y, m>> \in Less)
    BY <1>2, WFMin, Zenon
  <1>4. ASSUME NEW y \in T PROVE m <= y
    <2>1. SUFFICES ASSUME y < m PROVE FALSE
      OBVIOUS
    <2>2. <<y, m>> \in Nat \X Nat /\ <<y, m>>[1] = y /\ <<y, m>>[2] = m
      BY Zenon
    <2>3. <<y, m>> \in Less
      BY <2>1, <2>2, Zenon DEF Less
    <2> QED BY <2>3, <1>3, Zenon
  <1> QED BY <1>4, Zenon

(***************************************************************************)
(* FreeList::from_sorted keeps the bytes of its input and builds a         *)
(* canonical list, for every bounded set of extents.                       *)
(***************************************************************************)
THEOREM CoalescePreservesBytes ==
    ASSUME NEW list \in SUBSET Extent, NEW bound \in Nat,
           \A e \in list : e.end <= bound
    PROVE  /\ Coalesce(list) \subseteq Extent
           /\ Canonical(Coalesce(list))
           /\ Bytes(Coalesce(list)) = Bytes(list)
  <1>1. \A x \in Coalesce(list) :
           /\ x \in Extent
           /\ BytesOf(x) \subseteq Bytes(list)
           /\ (x.start - 1) \notin Bytes(list)
           /\ x.end \notin Bytes(list)
    BY Zenon DEF Coalesce, Extent
  <1>2. Canonical(Coalesce(list))
    <2> SUFFICES ASSUME NEW x \in Coalesce(list), NEW y \in Coalesce(list),
                        ~(x.end < y.start), ~(y.end < x.start)
                 PROVE  x = y
      BY Zenon DEF Canonical
    <2>0. /\ x \in Extent /\ y \in Extent
          /\ x.start \in Nat /\ x.end \in Nat /\ y.start \in Nat /\ y.end \in Nat
          /\ x.start < x.end /\ y.start < y.end
      BY <1>1, Zenon DEF Extent
    <2>1. /\ x.end \notin BytesOf(y) /\ (x.start - 1) \notin BytesOf(y)
          /\ y.end \notin BytesOf(x) /\ (y.start - 1) \notin BytesOf(x)
      BY <1>1, Zenon
    <2>2. x.end = y.end /\ x.start = y.start
      BY <2>0, <2>1 DEF BytesOf
    <2> QED BY <2>0, <2>2 DEF Extent
  <1>3. ASSUME NEW p \in Bytes(list)
        PROVE  \E x \in Coalesce(list) : p \in BytesOf(x)
    <2>1. PICK e \in list : p \in Int /\ e.start <= p /\ p < e.end
      BY BytesMember, Zenon
    <2>a. p \in Nat
      BY <2>1 DEF Extent
    <2> DEFINE Lows  == {i \in Nat : /\ i <= p /\ i .. p \subseteq Bytes(list)
                                     /\ \E a \in list : a.start = i}
               Highs == {i \in Nat : \E b \in list : /\ b.end > p /\ bound - b.end = i
                                                     /\ p .. (b.end - 1) \subseteq Bytes(list)}
    <2>2. e.start \in Lows
      <3>1. e.start .. p \subseteq BytesOf(e)
        BY <2>1, <2>a DEF BytesOf, Extent
      <3>2. BytesOf(e) \subseteq Bytes(list)
        BY Zenon DEF Bytes
      <3> QED BY <3>1, <3>2, <2>1, Zenon DEF Extent
    <2>3. (bound - e.end) \in Highs
      <3>1. p .. (e.end - 1) \subseteq BytesOf(e)
        BY <2>1, <2>a DEF BytesOf, Extent
      <3>2. BytesOf(e) \subseteq Bytes(list)
        BY Zenon DEF Bytes
      <3> QED BY <3>1, <3>2, <2>1 DEF Extent
    <2>4. PICK m \in Lows : \A i \in Lows : m <= i
      BY Zenon, <2>2, LeastNat
    <2>5. PICK h \in Highs : \A i \in Highs : h <= i
      BY Zenon, <2>3, LeastNat
    <2>6. PICK a \in list : a.start = m
      BY <2>4, Zenon
    <2>7. PICK b \in list : b.end > p /\ bound - b.end = h /\ p .. (b.end - 1) \subseteq Bytes(list)
      BY <2>5, Zenon
    <2>8. m \in Nat /\ m <= p /\ m .. p \subseteq Bytes(list)
      BY <2>4, Zenon
    <2>9. (m - 1) \notin Bytes(list)
      <3> SUFFICES ASSUME (m - 1) \in Bytes(list) PROVE FALSE
        BY Zenon
      <3>1. PICK q \in list : q.start <= m - 1 /\ m - 1 < q.end
        BY BytesMember, Zenon
      <3>2. q.start .. p \subseteq Bytes(list)
        <4>1. \A i \in q.start .. p : i \in BytesOf(q) \/ i \in m .. p
          BY <3>1, <2>8, <2>a DEF BytesOf, Extent
        <4>2. BytesOf(q) \subseteq Bytes(list)
          BY Zenon DEF Bytes
        <4> QED BY <4>1, <4>2, <2>8, Zenon
      <3>3. q.start \in Lows
        BY <3>1, <3>2, <2>8, <2>a DEF Extent
      <3> QED BY <3>1, <3>3, <2>4, <2>8 DEF Extent
    <2>10. b.end \notin Bytes(list)
      <3> SUFFICES ASSUME b.end \in Bytes(list) PROVE FALSE
        BY Zenon
      <3>1. PICK q \in list : q.start <= b.end /\ b.end < q.end
        BY BytesMember, Zenon
      <3>2. p .. (q.end - 1) \subseteq Bytes(list)
        <4>1. \A i \in p .. (q.end - 1) : i \in BytesOf(q) \/ i \in p .. (b.end - 1)
          BY <3>1, <2>a DEF BytesOf, Extent
        <4>2. BytesOf(q) \subseteq Bytes(list)
          BY Zenon DEF Bytes
        <4> QED BY <4>1, <4>2, <2>7, Zenon
      <3>3. (bound - q.end) \in Highs
        BY <3>1, <3>2, <2>7, <2>a DEF Extent
      <3> QED BY <3>1, <3>3, <2>5, <2>7 DEF Extent
    <2> DEFINE x == [start |-> a.start, end |-> b.end]
    <2>11. BytesOf(x) \subseteq Bytes(list) /\ p \in BytesOf(x) /\ x.start < x.end
      <3>1. BytesOf(x) = m .. (b.end - 1)
        BY <2>6, Zenon DEF BytesOf
      <3>2. \A i \in m .. (b.end - 1) : i \in m .. p \/ i \in p .. (b.end - 1)
        BY <2>8, <2>a DEF Extent
      <3>3. m < b.end /\ p \in m .. (b.end - 1)
        BY <2>7, <2>8, <2>a DEF Extent
      <3> QED BY <3>1, <3>2, <3>3, <2>6, <2>7, <2>8, Zenon
    <2>12. x \in Coalesce(list)
      BY <2>6, <2>9, <2>10, <2>11, Zenon DEF Coalesce
    <2> QED BY <2>11, <2>12, Zenon
  <1>4. Bytes(Coalesce(list)) \subseteq Bytes(list)
    BY <1>1, Zenon DEF Bytes
  <1>5. Bytes(list) \subseteq Bytes(Coalesce(list))
    BY <1>3, Zenon DEF Bytes
  <1> QED BY <1>1, <1>2, <1>4, <1>5, Zenon

(***************************************************************************)
(* FreeList::release_batch records exactly the admitted extents' bytes     *)
(* beside those already free, and keeps the list canonical.                *)
(***************************************************************************)
THEOREM ReleaseBatchPreservesList ==
    ASSUME NEW list \in SUBSET Extent, NEW batch \in SUBSET Extent,
           NEW threshold \in Nat, NEW bound \in Nat,
           \A e \in list \cup batch : e.end <= bound
    PROVE  /\ ReleaseBatch(list, threshold, batch) \subseteq Extent
           /\ Canonical(ReleaseBatch(list, threshold, batch))
           /\ Bytes(ReleaseBatch(list, threshold, batch))
                = Bytes(list) \cup Bytes(Admitted(list, threshold, batch))
           /\ Bytes(batch) = Bytes(Admitted(list, threshold, batch))
                               \cup Bytes(Dropped(list, threshold, batch))
           /\ Dropped(list, threshold, batch) \subseteq batch
           /\ Admitted(list, threshold, batch) \subseteq batch
           /\ Admitted(list, threshold, batch) \cap Dropped(list, threshold, batch) = {}
  <1> DEFINE adm == Admitted(list, threshold, batch)
  <1>1. adm \subseteq batch
    BY Zenon DEF Admitted
  <1>2. /\ ReleaseBatch(list, threshold, batch) \subseteq Extent
        /\ Canonical(ReleaseBatch(list, threshold, batch))
        /\ Bytes(ReleaseBatch(list, threshold, batch)) = Bytes(list \cup adm)
    <2>1. list \cup adm \in SUBSET Extent /\ \A e \in list \cup adm : e.end <= bound
      BY <1>1, Zenon
    <2> HIDE DEF adm
    <2>2. /\ Coalesce(list \cup adm) \subseteq Extent
          /\ Canonical(Coalesce(list \cup adm))
          /\ Bytes(Coalesce(list \cup adm)) = Bytes(list \cup adm)
      BY <2>1, CoalescePreservesBytes, Zenon
    <2> QED BY Zenon, <2>2 DEF ReleaseBatch, adm
  <1>3. Bytes(list \cup adm) = Bytes(list) \cup Bytes(adm)
    BY Zenon DEF Bytes
  <1>4. Bytes(batch) = Bytes(adm) \cup Bytes(batch \ adm)
    BY <1>1, Zenon DEF Bytes
  <1> QED BY Zenon, <1>1, <1>2, <1>3, <1>4 DEF Dropped

(***************************************************************************)
(* The flat strategy.                                                      *)
(***************************************************************************)
FlatInv == TypeOK /\ OneOwnerPerByte /\ FreeListCanonical

\* Removing some of a list of disjoint extents removes exactly their bytes.
LEMMA DisjointRemoval ==
    ASSUME NEW list \in SUBSET Extent, PairwiseDisjoint(list), NEW batch \in SUBSET list
    PROVE  /\ Bytes(list \ batch) = Bytes(list) \ Bytes(batch)
           /\ Bytes(batch) \subseteq Bytes(list)
           /\ PairwiseDisjoint(list \ batch)
           /\ PairwiseDisjoint(batch)
  <1>1. ASSUME NEW a \in list \ batch, NEW b \in batch
        PROVE  BytesOf(a) \cap BytesOf(b) = {}
    <2>1. ~Overlaps(a, b)
      BY Zenon DEF PairwiseDisjoint
    <2> QED BY <2>1, DisjointBytes, Zenon
  <1>2. Bytes(list) = Bytes(list \ batch) \cup Bytes(batch)
    BY Zenon DEF Bytes
  <1>3. Bytes(list \ batch) \cap Bytes(batch) = {}
    BY <1>1 DEF Bytes
  <1> QED BY <1>2, <1>3, Zenon DEF PairwiseDisjoint

\* One extent's bytes are those of the singleton list.
LEMMA SingletonBytes == ASSUME NEW e PROVE Bytes({e}) = BytesOf(e)
  BY Zenon DEF Bytes

\* Adding an extent to disjoint ones whose bytes it avoids keeps them disjoint.
LEMMA DisjointInsertion ==
    ASSUME NEW list \in SUBSET Extent, PairwiseDisjoint(list),
           NEW e \in Extent, BytesOf(e) \cap Bytes(list) = {}
    PROVE  /\ PairwiseDisjoint(list \cup {e})
           /\ Bytes(list \cup {e}) = Bytes(list) \cup BytesOf(e)
  <1>1. \A r \in list : r.end <= e.start \/ e.end <= r.start
    BY DisjointFromList, Zenon
  <1> QED BY <1>1 DEF PairwiseDisjoint, Overlaps, Bytes, Extent

\* Under the invariant, every extent the session knows of ends by the end of allocation.
LEMMA EndsByEoa ==
    ASSUME FlatInv
    PROVE  \A e \in regions \cup live \cup tail : e.end <= eoa
  <1> SUFFICES ASSUME NEW e \in regions \cup live \cup tail PROVE e.end <= eoa
    BY Zenon
  <1>1. e \in Extent
    BY Zenon DEF FlatInv, TypeOK
  <1>2. (e.end - 1) \in BytesOf(e)
    BY <1>1 DEF BytesOf, Extent
  <1>3. BytesOf(e) \subseteq 0 .. (eoa - 1)
    BY DEF FlatInv, OneOwnerPerByte, Bytes
  <1> QED BY <1>1, <1>2, <1>3 DEF FlatInv, TypeOK, Extent

\* The opened file satisfies the invariant.
LEMMA FlatInitEstablishes == Init => FlatInv
  <1> SUFFICES ASSUME Init PROVE FlatInv
    BY Zenon
  <1> USE FlatSpaceAssumption
  <1>1. TypeOK
    BY DEF Init, TypeOK, ExtentAt, Extent
  <1>2. FreeListCanonical
    BY Zenon DEF Init, FreeListCanonical, Canonical
  <1>3. Bytes(live) = 0 .. (eoa - 1)
    <2>1. Bytes(live) = BytesOf(ExtentAt(0, InitEoa))
      BY SingletonBytes, Zenon DEF Init
    <2> QED BY <2>1 DEF Init, ExtentAt, BytesOf
  <1>4. Bytes(tail) = {} /\ Bytes(regions) = {} /\ lost = {}
    BY Zenon DEF Init, Bytes
  <1>5. PairwiseDisjoint(live \cup tail)
    BY Zenon DEF Init, PairwiseDisjoint
  <1>6. OneOwnerPerByte
    BY <1>3, <1>4, <1>5, Zenon DEF OneOwnerPerByte
  <1> QED BY <1>1, <1>2, <1>6, Zenon DEF FlatInv

\* A reservation from the free list keeps every byte's single owner.
LEMMA AllocateStep ==
    ASSUME FlatInv, NEW len \in Lengths, Allocate(len)
    PROVE  FlatInv'
  <1> USE FlatSpaceAssumption
  <1>0. len \in Nat \ {0}
    BY Zenon
  <1>1. PICK r \in regions : /\ BestFit(regions, len, r)
                             /\ regions' = AllocFrom(regions, r, len)
                             /\ live' = live \cup {ExtentAt(r.start, len)}
                             /\ UNCHANGED <<eoa, tail, lost, persist>>
    BY Zenon DEF Allocate
  <1> DEFINE e == ExtentAt(r.start, len)
  <1>2. regions \in SUBSET Extent /\ Canonical(regions) /\ len <= ExtentLen(r)
    BY <1>0, <1>1, Zenon DEF FlatInv, TypeOK, FreeListCanonical, BestFit, Fits, ExtentLen, Extent
  <1>3. /\ e \in Extent
        /\ regions' \subseteq Extent
        /\ Canonical(regions')
        /\ BytesOf(e) \subseteq Bytes(regions)
        /\ Bytes(regions') = Bytes(regions) \ BytesOf(e)
    BY <1>0, <1>1, <1>2, AllocPreservesList, Zenon
  <1> HIDE DEF e
  <1>4. live' \cup tail' = (live \cup tail) \cup {e} /\ live' = live \cup {e}
    BY <1>1, Zenon DEF e
  <1>5. Bytes(live \cup tail) = Bytes(live) \cup Bytes(tail)
    BY Zenon DEF Bytes
  <1>6. BytesOf(e) \cap Bytes(live \cup tail) = {}
    BY Zenon, <1>3, <1>5 DEF FlatInv, OneOwnerPerByte
  <1>7. PairwiseDisjoint(live' \cup tail')
    BY Zenon, <1>3, <1>4, <1>6, DisjointInsertion DEF FlatInv, TypeOK, OneOwnerPerByte
  <1>8. Bytes(live') = Bytes(live) \cup BytesOf(e)
    BY <1>4, Zenon DEF Bytes
  <1>9. OneOwnerPerByte'
    BY Zenon, <1>1, <1>3, <1>7, <1>8 DEF FlatInv, OneOwnerPerByte
  <1>10. TypeOK'
    BY <1>1, <1>3, <1>4, Zenon DEF FlatInv, TypeOK
  <1> QED BY <1>3, <1>9, <1>10, Zenon DEF FlatInv, FreeListCanonical

\* So does an allocation at the end of allocation.
LEMMA AppendStep ==
    ASSUME FlatInv, NEW len \in Lengths, AppendAtEoa(len)
    PROVE  FlatInv'
  <1> USE FlatSpaceAssumption
  <1> DEFINE e == ExtentAt(eoa, len)
  <1>1. e \in Extent /\ BytesOf(e) = eoa .. (eoa' - 1) /\ eoa' \in Nat /\ eoa < eoa'
    BY DEF AppendAtEoa, FlatInv, TypeOK, ExtentAt, BytesOf, Extent
  <1> HIDE DEF e
  <1>2. live' = live \cup {e} /\ live' \cup tail' = (live \cup tail) \cup {e}
    BY Zenon DEF AppendAtEoa, e
  <1>3. Bytes(live \cup tail) = Bytes(live) \cup Bytes(tail)
    BY Zenon DEF Bytes
  <1>4. BytesOf(e) \cap (Bytes(live) \cup Bytes(tail) \cup Bytes(regions) \cup lost) = {}
    BY <1>1 DEF FlatInv, TypeOK, OneOwnerPerByte
  <1>5. PairwiseDisjoint(live' \cup tail')
    <2>1. BytesOf(e) \cap Bytes(live \cup tail) = {}
      BY Zenon, <1>3, <1>4
    <2>2. live \cup tail \in SUBSET Extent /\ PairwiseDisjoint(live \cup tail)
      BY Zenon DEF FlatInv, TypeOK, OneOwnerPerByte
    <2> QED BY Zenon, <1>1, <1>2, <2>1, <2>2, DisjointInsertion
  <1>6. Bytes(live') = Bytes(live) \cup BytesOf(e)
    BY <1>2 DEF Bytes
  <1>7. 0 .. (eoa' - 1) = (0 .. (eoa - 1)) \cup BytesOf(e)
    BY <1>1, SMTT(30) DEF FlatInv, TypeOK
  <1>8. regions' = regions /\ tail' = tail /\ lost' = lost /\ persist' = persist
    BY Zenon DEF AppendAtEoa
  <1>9. OneOwnerPerByte'
    BY <1>4, <1>5, <1>6, <1>7, <1>8, Zenon DEF FlatInv, OneOwnerPerByte
  <1> QED BY <1>1, <1>2, <1>8, <1>9, Zenon DEF FlatInv, TypeOK, FreeListCanonical

\* Under the invariant, a batch of live extents can be removed from the live ones.
LEMMA BatchRemoval ==
    ASSUME FlatInv, NEW batch \in SUBSET live
    PROVE  /\ Bytes(live \ batch) = Bytes(live) \ Bytes(batch)
           /\ Bytes(batch) \subseteq Bytes(live)
           /\ PairwiseDisjoint((live \ batch) \cup tail)
           /\ PairwiseDisjoint(live \ batch)
           /\ PairwiseDisjoint(batch)
           /\ PairwiseDisjoint(batch \cup tail)
  <1>1. live \in SUBSET Extent /\ PairwiseDisjoint(live)
    BY Zenon DEF FlatInv, TypeOK, OneOwnerPerByte, PairwiseDisjoint
  <1>2. PairwiseDisjoint((live \ batch) \cup tail) /\ PairwiseDisjoint(batch \cup tail)
    BY Zenon DEF FlatInv, OneOwnerPerByte, PairwiseDisjoint
  <1> QED BY <1>1, <1>2, DisjointRemoval, Zenon

\* A returned reservation goes from the live bytes to the free ones.
LEMMA ReturnStep ==
    ASSUME FlatInv, NEW e \in live, ReturnAllocation(e)
    PROVE  FlatInv'
  <1>1. e \in Extent /\ {e} \in SUBSET live
    BY Zenon DEF FlatInv, TypeOK
  <1>2. /\ Bytes(live \ {e}) = Bytes(live) \ BytesOf(e)
        /\ BytesOf(e) \subseteq Bytes(live)
        /\ PairwiseDisjoint((live \ {e}) \cup tail)
    BY Zenon, <1>1, BatchRemoval, SingletonBytes
  <1>3. /\ regions' = Free(regions, e) /\ live' = live \ {e}
        /\ UNCHANGED <<eoa, tail, lost, persist>>
    BY Zenon DEF ReturnAllocation
  <1>4. regions \in SUBSET Extent /\ Canonical(regions) /\ BytesOf(e) \cap Bytes(regions) = {}
    BY <1>2, Zenon DEF FlatInv, TypeOK, OneOwnerPerByte, FreeListCanonical
  <1>5. /\ regions' \subseteq Extent
        /\ Canonical(regions')
        /\ Bytes(regions') = Bytes(regions) \cup BytesOf(e)
    BY <1>1, <1>3, <1>4, FreePreservesList, Zenon
  <1>6. OneOwnerPerByte'
    BY Zenon, <1>2, <1>3, <1>5 DEF FlatInv, OneOwnerPerByte
  <1> QED BY <1>3, <1>5, <1>6, Zenon DEF FlatInv, TypeOK, FreeListCanonical

\* A retired extent goes to the free bytes or, below the threshold, to the lost ones.
LEMMA RecordStep ==
    ASSUME FlatInv, NEW e \in live, RecordFreed(e)
    PROVE  FlatInv'
  <1>1. e \in Extent /\ {e} \in SUBSET live
    BY Zenon DEF FlatInv, TypeOK
  <1>2. /\ Bytes(live \ {e}) = Bytes(live) \ BytesOf(e)
        /\ BytesOf(e) \subseteq Bytes(live)
        /\ PairwiseDisjoint((live \ {e}) \cup tail)
    BY <1>1, BatchRemoval, SingletonBytes, Zenon
  <1>3. live' = live \ {e} /\ UNCHANGED <<eoa, tail, persist>>
    BY Zenon DEF RecordFreed
  <1>4. regions \in SUBSET Extent /\ Canonical(regions) /\ BytesOf(e) \cap Bytes(regions) = {}
    BY <1>2, Zenon DEF FlatInv, TypeOK, OneOwnerPerByte, FreeListCanonical
  <1>5. CASE Admits(regions, Threshold, e)
    <2>1. regions' = Free(regions, e) /\ lost' = lost
      BY <1>5, Zenon DEF RecordFreed, Release
    <2>2. /\ regions' \subseteq Extent
          /\ Canonical(regions')
          /\ Bytes(regions') = Bytes(regions) \cup BytesOf(e)
      BY <1>1, <1>4, <2>1, FreePreservesList, Zenon
    <2>3. OneOwnerPerByte'
      BY <1>2, <1>3, <2>1, <2>2, Zenon DEF FlatInv, OneOwnerPerByte
    <2> QED BY <1>3, <2>1, <2>2, <2>3, Zenon DEF FlatInv, TypeOK, FreeListCanonical
  <1>6. CASE ~Admits(regions, Threshold, e)
    <2>1. regions' = regions /\ lost' = lost \cup BytesOf(e)
      BY <1>6, Zenon DEF RecordFreed, Release
    <2>2. BytesOf(e) \subseteq Nat
      BY <1>1 DEF BytesOf, Extent
    <2>3. OneOwnerPerByte'
      BY <1>2, <1>3, <2>1, Zenon DEF FlatInv, OneOwnerPerByte
    <2> QED BY Zenon, <1>3, <2>1, <2>2, <2>3 DEF FlatInv, TypeOK, FreeListCanonical
  <1> QED BY <1>5, <1>6, Zenon

(***************************************************************************)
(* Cutting the file over bytes that are free or lost leaves the owners of  *)
(* the remaining bytes as they were.                                       *)
(***************************************************************************)
LEMMA CutPartition ==
    ASSUME NEW owned, NEW free, NEW gone, NEW e \in Nat, NEW cut \in Nat, cut <= e,
           owned \cap free = {}, gone \cap (owned \cup free) = {},
           owned \cup free \cup gone = 0 .. (e - 1),
           owned \cap (cut .. (e - 1)) = {}
    PROVE  /\ owned \cup (free \ (cut .. (e - 1))) \cup {x \in gone : x < cut} = 0 .. (cut - 1)
           /\ owned \cap (free \ (cut .. (e - 1))) = {}
           /\ {x \in gone : x < cut} \cap (owned \cup (free \ (cut .. (e - 1)))) = {}
  <1>1. \A x \in owned \cup free \cup gone : x \in Int /\ 0 <= x /\ x < e
    OBVIOUS
  <1>2. \A x \in 0 .. (cut - 1) : x \in owned \cup free \cup gone /\ x < cut
    OBVIOUS
  <1>3. \A x \in owned : x < cut
    BY <1>1
  <1>4. \A x \in free \ (cut .. (e - 1)) : x < cut
    BY <1>1
  <1> QED BY <1>1, <1>2, <1>3, <1>4

(***************************************************************************)
(* The dropped extents above `mid' end the file, and they are gone.        *)
(***************************************************************************)
LEMMA DroppedCutBounds ==
    ASSUME NEW dropped \in SUBSET Extent, NEW e \in Nat, \A d \in dropped : d.end <= e,
           NEW mid, DroppedCut(dropped, e, mid)
    PROVE  mid \in Nat /\ mid <= e /\ mid .. (e - 1) \subseteq Bytes(dropped)
  BY DEF DroppedCut, Extent

\* Every extent of `list' ends by `e'.
EndBy(list, e) == \A x \in list : x.end <= e

(***************************************************************************)
(* What a batch of disjoint returns does to the bytes: the admitted ones   *)
(* are free beside `list', the dropped ones are gone, and nothing else     *)
(* changes.                                                                *)
(***************************************************************************)
Releases(list, threshold, returns) ==
    LET post    == ReleaseBatch(list, threshold, returns)
        dropped == Dropped(list, threshold, returns)
    IN /\ post \in SUBSET Extent
       /\ Canonical(post)
       /\ PairwiseDisjoint(post)
       /\ dropped \subseteq returns
       /\ Bytes(dropped) \subseteq Bytes(returns)
       /\ Bytes(dropped) \subseteq Nat
       /\ Bytes(post) = Bytes(list) \cup (Bytes(returns) \ Bytes(dropped))

\* So it is for every list and disjoint returns with a common end.
LEMMA BatchReleases ==
    ASSUME NEW list \in SUBSET Extent, NEW returns \in SUBSET Extent,
           PairwiseDisjoint(returns), NEW e \in Nat, NEW threshold \in Nat,
           EndBy(list, e), EndBy(returns, e)
    PROVE  Releases(list, threshold, returns)
  <1> DEFINE post    == ReleaseBatch(list, threshold, returns)
             dropped == Dropped(list, threshold, returns)
             adm     == Admitted(list, threshold, returns)
  <1>0. \A x \in list \cup returns : x.end <= e
    BY Zenon DEF EndBy
  <1>1. /\ post \subseteq Extent
        /\ Canonical(post)
        /\ Bytes(post) = Bytes(list) \cup Bytes(adm)
        /\ Bytes(returns) = Bytes(adm) \cup Bytes(dropped)
        /\ dropped \subseteq returns
        /\ adm \subseteq returns
        /\ adm \cap dropped = {}
    BY <1>0, ReleaseBatchPreservesList, Zenon
  <1>2. PairwiseDisjoint(post)
    BY <1>1, SMTT(30) DEF Canonical, PairwiseDisjoint, Overlaps, Extent
  <1> HIDE DEF post, dropped, adm
  <1>3. returns \ dropped = adm
    BY <1>1, Zenon DEF adm, dropped, Dropped
  <1>4. Bytes(adm) = Bytes(returns) \ Bytes(dropped)
    BY <1>1, <1>3, DisjointRemoval, Zenon
  <1>5. Bytes(dropped) \subseteq Nat
    BY <1>1, SMTT(30) DEF Bytes, BytesOf, Extent
  <1>6. Bytes(dropped) \subseteq Bytes(returns)
    BY <1>1, Zenon
  <1>7. Bytes(post) = Bytes(list) \cup (Bytes(returns) \ Bytes(dropped))
    BY <1>1, <1>4, Zenon
  <1> QED BY <1>1, <1>2, <1>5, <1>6, <1>7, Zenon DEF post, dropped, Releases

\* The same under the threshold of the flat strategy.
LEMMA BatchBytes ==
    ASSUME NEW list \in SUBSET Extent, NEW returns \in SUBSET Extent,
           PairwiseDisjoint(returns), NEW e \in Nat,
           \A x \in list \cup returns : x.end <= e
    PROVE  LET post    == ReleaseBatch(list, Threshold, returns)
               dropped == Dropped(list, Threshold, returns)
           IN /\ post \in SUBSET Extent
              /\ Canonical(post)
              /\ PairwiseDisjoint(post)
              /\ dropped \in SUBSET Extent
              /\ \A d \in dropped : d.end <= e
              /\ Bytes(dropped) \subseteq Bytes(returns)
              /\ Bytes(dropped) \subseteq Nat
              /\ Bytes(post) = Bytes(list) \cup (Bytes(returns) \ Bytes(dropped))
  <1>1. EndBy(list, e) /\ EndBy(returns, e) /\ Threshold \in Nat
    BY FlatSpaceAssumption, Zenon DEF EndBy
  <1>2. Releases(list, Threshold, returns)
    BY <1>1, BatchReleases, Zenon
  <1> QED BY <1>2, Zenon DEF Releases

\* A non-persisting commit's returns, and the truncation that follows them.
LEMMA ReleaseFreedStep ==
    ASSUME FlatInv, NEW batch \in SUBSET live, ReleaseFreed(batch)
    PROVE  FlatInv'
  <1> DEFINE post    == ReleaseBatch(regions, Threshold, batch)
             dropped == Dropped(regions, Threshold, batch)
             rest    == live \ batch
  <1>1. PICK mid, cut : /\ DroppedCut(dropped, eoa, mid)
                        /\ TrailingCut(post, mid, cut)
                        /\ regions' = post \ TrailingRegion(post, mid)
                        /\ eoa' = cut
                        /\ lost' = {x \in lost \cup Bytes(dropped) : x < cut}
    BY Zenon DEF ReleaseFreed
  <1>2. live' = rest /\ tail' = tail /\ persist' = persist
    BY Zenon DEF ReleaseFreed
  <1>3. /\ regions \in SUBSET Extent /\ batch \in SUBSET Extent /\ eoa \in Nat
        /\ \A x \in regions \cup batch : x.end <= eoa
    BY EndsByEoa, Zenon DEF FlatInv, TypeOK
  <1>4. /\ Bytes(rest) = Bytes(live) \ Bytes(batch)
        /\ Bytes(batch) \subseteq Bytes(live)
        /\ PairwiseDisjoint(rest \cup tail)
        /\ PairwiseDisjoint(batch)
    BY Zenon, BatchRemoval
  <1>5. /\ post \in SUBSET Extent
        /\ Canonical(post)
        /\ PairwiseDisjoint(post)
        /\ dropped \in SUBSET Extent
        /\ \A d \in dropped : d.end <= eoa
        /\ Bytes(dropped) \subseteq Bytes(batch)
        /\ Bytes(dropped) \subseteq Nat
        /\ Bytes(post) = Bytes(regions) \cup (Bytes(batch) \ Bytes(dropped))
    BY <1>3, <1>4, BatchBytes, Zenon
  <1> HIDE DEF post, dropped, rest
  <1>6. mid \in Nat /\ mid <= eoa /\ mid .. (eoa - 1) \subseteq Bytes(dropped)
    BY <1>1, <1>3, <1>5, DroppedCutBounds, Zenon
  <1> DEFINE owned == Bytes(rest) \cup Bytes(tail)
             gone  == lost \cup Bytes(dropped)
  <1>7. /\ owned \cap Bytes(post) = {}
        /\ gone \cap (owned \cup Bytes(post)) = {}
        /\ owned \cup Bytes(post) \cup gone = 0 .. (eoa - 1)
    BY <1>4, <1>5, Zenon DEF FlatInv, OneOwnerPerByte
  <1>8. /\ cut \in Nat /\ cut <= mid
        /\ regions' \subseteq post
        /\ Bytes(regions') = Bytes(post) \ (cut .. (eoa - 1))
        /\ owned \cap (cut .. (eoa - 1)) = {}
    <2>0. Bytes(post) \cap (mid .. (eoa - 1)) = {} /\ owned \cap (mid .. (eoa - 1)) = {}
      BY <1>6, <1>7, Zenon
    <2>1. CASE TrailingRegion(post, mid) = {} /\ cut = mid
      BY <2>0, <2>1, <1>1, <1>6, SMTT(30)
    <2>2. ASSUME NEW r \in TrailingRegion(post, mid), cut = r.start
          PROVE  /\ cut \in Nat /\ cut <= mid
                 /\ Bytes(regions') = Bytes(post) \ (cut .. (eoa - 1))
                 /\ owned \cap (cut .. (eoa - 1)) = {}
      <3>1. r \in post /\ r \in Extent /\ r.end = mid /\ cut \in Nat /\ cut <= mid
        BY <2>2, <1>5 DEF TrailingRegion, Extent
      <3>2. TrailingRegion(post, mid) = {r}
        BY <3>1, <1>5 DEF TrailingRegion, Canonical, Extent
      <3>3. BytesOf(r) = cut .. (mid - 1) /\ BytesOf(r) \subseteq Bytes(post)
        BY <3>1, <2>2, Zenon DEF BytesOf, Bytes
      <3>4. Bytes(regions') = Bytes(post) \ BytesOf(r)
        BY <3>1, <3>2, <1>1, <1>5, DisjointRemoval, SingletonBytes
      <3>5. cut .. (eoa - 1) = (cut .. (mid - 1)) \cup (mid .. (eoa - 1))
        BY <3>1, <1>3, <1>6
      <3>6. owned \cap BytesOf(r) = {}
        BY <3>3, <1>7, Zenon
      <3> QED BY <3>1, <3>3, <3>4, <3>5, <3>6, <2>0, Zenon
    <2> QED BY Zenon, <1>1, <2>1, <2>2 DEF TrailingCut
  <1> HIDE DEF owned, gone
  <1>9. /\ owned \cup Bytes(regions') \cup {x \in gone : x < cut} = 0 .. (cut - 1)
        /\ owned \cap Bytes(regions') = {}
        /\ {x \in gone : x < cut} \cap (owned \cup Bytes(regions')) = {}
    <2>1. eoa \in Nat /\ mid \in Nat /\ cut \in Nat /\ cut <= mid /\ mid <= eoa
      BY <1>3, <1>6, <1>8, Zenon
    <2>2. cut <= eoa
      BY <2>1
    <2> QED BY <2>1, <2>2, <1>7, <1>8, CutPartition, SMTT(30)
  <1>10. Bytes(rest) \cap Bytes(tail) = {}
    BY <1>4, Zenon DEF FlatInv, OneOwnerPerByte
  <1>11. OneOwnerPerByte'
    BY Zenon, <1>1, <1>2, <1>4, <1>9, <1>10 DEF OneOwnerPerByte, owned, gone
  <1>12. Canonical(regions')
    BY <1>5, <1>8, Zenon DEF Canonical
  <1>13. TypeOK'
    BY Zenon, <1>1, <1>2, <1>5, <1>8 DEF FlatInv, TypeOK, rest
  <1> QED BY <1>11, <1>12, <1>13, Zenon DEF FlatInv, FreeListCanonical

\* The bytes of the returns of a publication: some live ones and the old managers.
LEMMA PublicationReturns ==
    ASSUME FlatInv, NEW batch \in SUBSET live
    PROVE  /\ Bytes(batch \cup tail) = Bytes(batch) \cup Bytes(tail)
           /\ batch \cup tail \in SUBSET Extent
           /\ PairwiseDisjoint(batch \cup tail)
           /\ Bytes(live \ batch) = Bytes(live) \ Bytes(batch)
           /\ Bytes(batch) \subseteq Bytes(live)
           /\ PairwiseDisjoint(live \ batch)
           /\ \A x \in regions \cup batch \cup tail : x.end <= eoa
  <1>1. Bytes(batch \cup tail) = Bytes(batch) \cup Bytes(tail)
    BY Zenon DEF Bytes
  <1> QED BY Zenon, <1>1, BatchRemoval, EndsByEoa DEF FlatInv, TypeOK

\* The managers are placed at the end of allocation.
LEMMA PublishAppendingStep ==
    ASSUME FlatInv, NEW batch \in SUBSET live, NEW len \in TailLengths,
           PublishAppendingTail(batch, len)
    PROVE  FlatInv'
  <1> USE FlatSpaceAssumption
  <1> DEFINE returns == batch \cup tail
             dropped == Dropped(regions, Threshold, returns)
             e       == ExtentAt(eoa, len)
  <1>1. /\ regions' = ReleaseBatch(regions, Threshold, returns)
        /\ lost' = lost \cup Bytes(dropped)
        /\ tail' = {e} /\ eoa' = eoa + len /\ live' = live \ batch /\ persist' = persist
    BY Zenon DEF PublishAppendingTail
  <1>2. e \in Extent /\ BytesOf(e) = eoa .. (eoa' - 1) /\ eoa' \in Nat /\ eoa < eoa' /\ eoa \in Nat
    BY <1>1 DEF FlatInv, TypeOK, ExtentAt, BytesOf, Extent
  <1> HIDE DEF e
  <1>3. /\ regions' \in SUBSET Extent /\ Canonical(regions')
        /\ Bytes(dropped) \subseteq Bytes(returns) /\ Bytes(dropped) \subseteq Nat
        /\ Bytes(regions') = Bytes(regions) \cup (Bytes(returns) \ Bytes(dropped))
    <2>1. regions \in SUBSET Extent /\ eoa \in Nat
      BY Zenon DEF FlatInv, TypeOK
    <2>2. \A x \in regions \cup returns : x.end <= eoa
      BY Zenon, PublicationReturns
    <2>3. returns \in SUBSET Extent /\ PairwiseDisjoint(returns)
      BY Zenon, PublicationReturns
    <2> HIDE DEF returns
    <2> QED BY <1>1, <2>1, <2>2, <2>3, BatchBytes, Zenon
  <1>4. /\ Bytes(returns) = Bytes(batch) \cup Bytes(tail)
        /\ Bytes(live') = Bytes(live) \ Bytes(batch)
        /\ Bytes(batch) \subseteq Bytes(live)
        /\ PairwiseDisjoint(live')
    BY Zenon, <1>1, PublicationReturns
  <1>5. Bytes(tail') = BytesOf(e)
    BY <1>1, SingletonBytes, Zenon
  <1> HIDE DEF returns, dropped
  <1>6. /\ Bytes(live') \cap Bytes(regions') = {}
        /\ lost' \cap (Bytes(live') \cup Bytes(regions')) = {}
        /\ Bytes(live') \cup Bytes(regions') \cup lost' = 0 .. (eoa - 1)
    BY Zenon, <1>1, <1>3, <1>4 DEF FlatInv, OneOwnerPerByte
  <1>7. BytesOf(e) \cap (0 .. (eoa - 1)) = {}
    <2>1. \A x \in eoa .. (eoa' - 1) : x \notin 0 .. (eoa - 1)
      BY <1>2
    <2> QED BY Zenon, <1>2, <2>1
  <1>8. 0 .. (eoa' - 1) = (0 .. (eoa - 1)) \cup BytesOf(e)
    BY <1>2
  <1>9. PairwiseDisjoint(live' \cup tail')
    <2>1. live' \in SUBSET Extent /\ BytesOf(e) \cap Bytes(live') = {}
      BY <1>1, <1>6, <1>7, Zenon DEF FlatInv, TypeOK
    <2> QED BY Zenon, <1>1, <1>2, <1>4, <2>1, DisjointInsertion
  <1>10. OneOwnerPerByte'
    BY <1>5, <1>6, <1>7, <1>8, <1>9 DEF OneOwnerPerByte
  <1>11. TypeOK'
    BY Zenon, <1>1, <1>2, <1>3 DEF FlatInv, TypeOK
  <1> QED BY <1>3, <1>10, <1>11, Zenon DEF FlatInv, FreeListCanonical

\* The managers are placed in space that was free before, and the trailing run is cut.
LEMMA PublishTailStep ==
    ASSUME FlatInv, NEW batch \in SUBSET live, NEW len \in TailLengths,
           NEW r \in regions, len <= ExtentLen(r), PublishTailIn(r, batch, len)
    PROVE  FlatInv'
  <1> USE FlatSpaceAssumption
  <1> DEFINE keep    == ReserveTails * len
             e       == ExtentAt(r.start, len)
             kept    == AllocFrom(regions, r, len)
             returns == batch \cup tail
             post    == ReleaseBatch(kept, Threshold, returns)
             dropped == Dropped(kept, Threshold, returns)
             rest    == live \ batch
  <1>1. tail' = {e} /\ live' = rest /\ persist' = persist
    BY Zenon DEF PublishTailIn
  <1>2. PICK mid, cut : /\ DroppedCut(dropped, eoa, mid)
                        /\ TrailingRunCut(post, mid, keep, cut)
                        /\ regions' = IF cut < mid
                                      THEN TakeRange(post, [start |-> cut, end |-> mid])
                                      ELSE post
                        /\ eoa' = cut
                        /\ lost' = {x \in lost \cup Bytes(dropped) : x < cut}
    BY Zenon DEF PublishTailIn, TailSource
  <1>3. keep \in Nat /\ keep > 0 /\ len \in Nat \ {0}
    OBVIOUS
  <1> HIDE DEF keep
  <1>4. /\ regions \in SUBSET Extent /\ Canonical(regions) /\ len <= ExtentLen(r) /\ eoa \in Nat
    BY <1>1, <1>3, Zenon DEF FlatInv, TypeOK, FreeListCanonical, BestFit, Fits, ExtentLen, Extent
  <1>5. /\ e \in Extent /\ kept \in SUBSET Extent /\ Canonical(kept)
        /\ BytesOf(e) \subseteq Bytes(regions)
        /\ Bytes(kept) = Bytes(regions) \ BytesOf(e)
    BY <1>3, <1>4, AllocPreservesList, Zenon
  <1>6. /\ Bytes(returns) = Bytes(batch) \cup Bytes(tail)
        /\ returns \in SUBSET Extent
        /\ PairwiseDisjoint(returns)
        /\ Bytes(rest) = Bytes(live) \ Bytes(batch)
        /\ Bytes(batch) \subseteq Bytes(live)
        /\ PairwiseDisjoint(rest)
        /\ \A x \in regions \cup returns : x.end <= eoa
    BY Zenon, PublicationReturns
  <1>7. \A x \in kept \cup returns : x.end <= eoa
    <2>1. \A x \in kept : x \in regions \/ x.end = r.end
      BY SMTT(30) DEF AllocFrom
    <2> QED BY <1>6, <2>1, Zenon
  <1> HIDE DEF e, kept, returns, rest
  <1>8. /\ post \in SUBSET Extent
        /\ Canonical(post)
        /\ dropped \in SUBSET Extent
        /\ \A d \in dropped : d.end <= eoa
        /\ Bytes(dropped) \subseteq Bytes(returns)
        /\ Bytes(dropped) \subseteq Nat
        /\ Bytes(post) = Bytes(kept) \cup (Bytes(returns) \ Bytes(dropped))
    BY <1>4, <1>5, <1>6, <1>7, BatchBytes, Zenon
  <1> HIDE DEF post, dropped
  <1>9. mid \in Nat /\ mid <= eoa /\ mid .. (eoa - 1) \subseteq Bytes(dropped)
    BY <1>2, <1>4, <1>8, DroppedCutBounds, Zenon
  <1> DEFINE owned == Bytes(rest) \cup BytesOf(e)
             gone  == lost \cup Bytes(dropped)
  <1>10. /\ Bytes(rest) \cap BytesOf(e) = {}
         /\ owned \cap Bytes(post) = {}
         /\ gone \cap (owned \cup Bytes(post)) = {}
         /\ owned \cup Bytes(post) \cup gone = 0 .. (eoa - 1)
    BY <1>5, <1>6, <1>8, SMTT(30) DEF FlatInv, OneOwnerPerByte
  <1>11. /\ cut \in Nat /\ cut <= mid
         /\ regions' \subseteq Extent /\ Canonical(regions')
         /\ Bytes(regions') = Bytes(post) \ (cut .. (eoa - 1))
         /\ owned \cap (cut .. (eoa - 1)) = {}
    <2>0. Bytes(post) \cap (mid .. (eoa - 1)) = {} /\ owned \cap (mid .. (eoa - 1)) = {}
      BY <1>9, <1>10, Zenon
    <2>1. CASE cut = mid
      <3>1. regions' = post
        BY <2>1, <1>2, <1>9, SMTT(30)
      <3> QED BY <2>0, <2>1, <3>1, <1>8, <1>9, SMTT(30)
    <2>2. ASSUME NEW q \in TrailingRegion(post, mid), ExtentLen(q) >= 2 * keep,
                 cut = q.start + keep
          PROVE  /\ cut \in Nat /\ cut <= mid
                 /\ regions' \subseteq Extent /\ Canonical(regions')
                 /\ Bytes(regions') = Bytes(post) \ (cut .. (eoa - 1))
                 /\ owned \cap (cut .. (eoa - 1)) = {}
      <3>1. q \in post /\ q.end = mid /\ cut \in Nat /\ cut < mid /\ q.start < cut
        BY <2>2, <1>3, <1>8 DEF TrailingRegion, ExtentLen, Extent
      <3> DEFINE x == [start |-> cut, end |-> mid]
      <3>2. x \in Extent /\ BytesOf(x) = cut .. (mid - 1)
        BY <3>1, <1>9, Zenon DEF Extent, BytesOf
      <3>3. regions' = TakeRange(post, x)
        BY <3>1, <1>2, Zenon
      <3> HIDE DEF x
      <3>4. /\ regions' \subseteq Extent /\ Canonical(regions')
            /\ Bytes(regions') = Bytes(post) \ BytesOf(x)
        BY Zenon, <3>2, <3>3, <1>8, TakeRangePreservesList
      <3>5. BytesOf(x) \subseteq Bytes(post)
        <4>1. BytesOf(x) \subseteq BytesOf(q)
          BY <3>1, <3>2, <1>8, SMTT(30) DEF BytesOf, Extent
        <4>2. BytesOf(q) \subseteq Bytes(post)
          BY <3>1, Zenon DEF Bytes
        <4> QED BY <4>1, <4>2, Zenon
      <3>6. cut .. (eoa - 1) = (cut .. (mid - 1)) \cup (mid .. (eoa - 1))
        BY <3>1, <1>4, <1>9, SMTT(30)
      <3>7. owned \cap BytesOf(x) = {}
        BY <3>5, <1>10, Zenon
      <3>8. cut <= mid
        BY <3>1, <1>9, SMTT(30)
      <3> QED BY <3>1, <3>2, <3>4, <3>6, <3>7, <3>8, <2>0, Zenon
    <2> QED BY <1>2, <2>1, <2>2, Zenon DEF TrailingRunCut
  <1> HIDE DEF owned, gone
  <1>12. /\ owned \cup Bytes(regions') \cup {x \in gone : x < cut} = 0 .. (cut - 1)
         /\ owned \cap Bytes(regions') = {}
         /\ {x \in gone : x < cut} \cap (owned \cup Bytes(regions')) = {}
    <2>1. cut <= eoa
      BY <1>4, <1>9, <1>11
    <2> QED BY <2>1, <1>4, <1>10, <1>11, CutPartition
  <1>13. Bytes(tail') = BytesOf(e)
    BY <1>1, SingletonBytes, Zenon
  <1>14. PairwiseDisjoint(live' \cup tail')
    <2>1. rest \in SUBSET Extent
      BY Zenon DEF FlatInv, TypeOK, rest
    <2> QED BY Zenon, <1>1, <1>5, <1>6, <1>10, <2>1, DisjointInsertion
  <1>15. OneOwnerPerByte'
    BY <1>1, <1>2, <1>10, <1>12, <1>13, <1>14, Zenon DEF OneOwnerPerByte, owned, gone
  <1>16. TypeOK'
    BY Zenon, <1>1, <1>2, <1>5, <1>8, <1>11 DEF FlatInv, TypeOK, rest
  <1> QED BY <1>11, <1>15, <1>16, Zenon DEF FlatInv, FreeListCanonical

\* A best fit among regions of the free list is one of them and long enough.
LEMMA BestFitFits ==
    ASSUME NEW list, NEW sub \in SUBSET list, NEW len, NEW r, BestFit(sub, len, r)
    PROVE  r \in list /\ ExtentLen(r) >= len
  BY Zenon DEF BestFit, Fits

LEMMA PublishReusingStep ==
    ASSUME FlatInv, NEW batch \in SUBSET live, NEW len \in TailLengths,
           PublishReusingTail(batch, len)
    PROVE  FlatInv'
  <1>1. PICK r : BestFit(regions, len, r) /\ PublishTailIn(r, batch, len)
    BY Zenon DEF PublishReusingTail, TailSource
  <1>2. r \in regions /\ ExtentLen(r) >= len
    BY <1>1, BestFitFits, Zenon
  <1>3. len <= ExtentLen(r)
    BY <1>2, FlatSpaceAssumption, Zenon DEF FlatInv, TypeOK, Extent, ExtentLen
  <1> QED BY <1>1, <1>2, <1>3, PublishTailStep, Zenon

LEMMA ShrinkStep ==
    ASSUME FlatInv, NEW len \in TailLengths, ShrinkToTrailingFreeRun(len)
    PROVE  FlatInv'
  <1>1. PICK t \in tail, r \in regions :
               /\ BestFit(Below(regions, len, t.start), len, r)
               /\ PublishTailIn(r, {}, len)
    BY Zenon DEF ShrinkToTrailingFreeRun, TailSource, Below
  <1>2. Below(regions, len, t.start) \in SUBSET regions
    BY Zenon DEF Below
  <1>3. r \in regions /\ ExtentLen(r) >= len
    BY <1>1, <1>2, BestFitFits, Zenon
  <1>4. len <= ExtentLen(r)
    BY <1>3, FlatSpaceAssumption, Zenon DEF FlatInv, TypeOK, Extent, ExtentLen
  <1> QED BY <1>1, <1>3, <1>4, PublishTailStep, Zenon

\* Every step of the session preserves the invariant.
LEMMA FlatNextPreserves == FlatInv /\ [Next]_vars => FlatInv'
  <1> SUFFICES ASSUME FlatInv, [Next]_vars PROVE FlatInv'
    BY Zenon
  <1>1. CASE UNCHANGED vars
    BY <1>1, Zenon DEF vars, FlatInv, TypeOK, OneOwnerPerByte, FreeListCanonical
  <1>2. ASSUME NEW len \in Lengths, Allocate(len) PROVE FlatInv'
    BY <1>2, AllocateStep, Zenon
  <1>3. ASSUME NEW len \in Lengths, AppendAtEoa(len) PROVE FlatInv'
    BY <1>3, AppendStep, Zenon
  <1>4. ASSUME NEW e \in live, ReturnAllocation(e) PROVE FlatInv'
    BY <1>4, ReturnStep, Zenon
  <1>5. ASSUME NEW e \in live, RecordFreed(e) PROVE FlatInv'
    BY <1>5, RecordStep, Zenon
  <1>6. ASSUME NEW batch \in SUBSET live, ReleaseFreed(batch) PROVE FlatInv'
    BY <1>6, ReleaseFreedStep, Zenon
  <1>7. ASSUME NEW batch \in SUBSET live, NEW len \in TailLengths, PublishReusingTail(batch, len)
        PROVE  FlatInv'
    BY <1>7, PublishReusingStep, Zenon
  <1>8. ASSUME NEW batch \in SUBSET live, NEW len \in TailLengths, PublishAppendingTail(batch, len)
        PROVE  FlatInv'
    BY <1>8, PublishAppendingStep, Zenon
  <1>9. ASSUME NEW len \in TailLengths, ShrinkToTrailingFreeRun(len) PROVE FlatInv'
    BY <1>9, ShrinkStep, Zenon
  <1> QED BY <1>1, <1>2, <1>3, <1>4, <1>5, <1>6, <1>7, <1>8, <1>9, Zenon DEF Next

(***************************************************************************)
(* In every session over the flat strategy, every byte below the end of    *)
(* allocation has exactly one owner, and the free list stays canonical.    *)
(***************************************************************************)
THEOREM FlatSpaceOwnership == Spec => [](TypeOK /\ OneOwnerPerByte /\ FreeListCanonical)
  <1>1. FlatInv /\ [Next]_vars => FlatInv'
    BY FlatNextPreserves, Zenon
  <1>2. Init => FlatInv
    BY FlatInitEstablishes, Zenon
  <1> QED BY <1>1, <1>2, PTL DEF Spec, FlatInv

(***************************************************************************)
(* No publication places the managers' tail on bytes that the state it     *)
(* replaces refers to, so the tail can be written before the superblock    *)
(* that publishes it.                                                      *)
(***************************************************************************)
THEOREM TailPlacementIsSafe == Spec => TailAvoidsReferencedBytes
  <1> DEFINE Avoids == tail' # tail => Bytes(tail') \cap (Bytes(live) \cup Bytes(tail)) = {}
  <1>1. ASSUME FlatInv, [Next]_vars PROVE [Avoids]_vars
    <2> USE FlatSpaceAssumption
    <2>1. CASE tail' = tail
      BY <2>1, Zenon
    <2>2. ASSUME NEW len \in TailLengths, NEW r \in regions, ExtentLen(r) >= len,
                 tail' = {ExtentAt(r.start, len)}
          PROVE  Avoids
      <3>1. /\ regions \in SUBSET Extent /\ Canonical(regions)
            /\ len <= ExtentLen(r) /\ len \in Nat \ {0}
        BY <1>1, <2>2, Zenon DEF FlatInv, TypeOK, FreeListCanonical, ExtentLen, Extent
      <3>2. BytesOf(ExtentAt(r.start, len)) \subseteq Bytes(regions)
        BY <3>1, AllocPreservesList, Zenon
      <3>3. Bytes(tail') = BytesOf(ExtentAt(r.start, len))
        BY <2>2, SingletonBytes, Zenon
      <3> QED BY <1>1, <3>2, <3>3, Zenon DEF FlatInv, OneOwnerPerByte
    <2>2a. ASSUME NEW batch \in SUBSET live, NEW len \in TailLengths, PublishReusingTail(batch, len)
           PROVE  Avoids
      <3>1. PICK r : BestFit(regions, len, r) /\ tail' = {ExtentAt(r.start, len)}
        BY <2>2a, Zenon DEF PublishReusingTail, PublishTailIn, TailSource
      <3> QED BY ZenonT(30), <2>2, <3>1, BestFitFits
    <2>2b. ASSUME NEW len \in TailLengths, ShrinkToTrailingFreeRun(len)
           PROVE  Avoids
      <3>1. PICK t \in tail, r \in regions :
                   /\ BestFit(Below(regions, len, t.start), len, r)
                   /\ tail' = {ExtentAt(r.start, len)}
        BY Zenon, <2>2b DEF ShrinkToTrailingFreeRun, PublishTailIn, TailSource, Below
      <3>2. Below(regions, len, t.start) \in SUBSET regions
        BY Zenon DEF Below
      <3> QED BY <2>2, <3>1, <3>2, BestFitFits, SMTT(30)
    <2>3. ASSUME NEW batch \in SUBSET live, NEW len \in TailLengths, PublishAppendingTail(batch, len)
          PROVE  Avoids
      <3>1. tail' = {ExtentAt(eoa, len)} /\ eoa \in Nat /\ len \in Nat
        BY <1>1, <2>3, Zenon DEF PublishAppendingTail, FlatInv, TypeOK
      <3>2. Bytes(tail') = BytesOf(ExtentAt(eoa, len))
        BY <3>1, SingletonBytes, Zenon
      <3>3. \A x \in BytesOf(ExtentAt(eoa, len)) : x \notin 0 .. (eoa - 1)
        BY <3>1, SMTT(30) DEF BytesOf, ExtentAt
      <3> QED BY <1>1, <3>2, <3>3, Zenon DEF FlatInv, OneOwnerPerByte
    <2>4. CASE UNCHANGED vars
      BY <2>4, Zenon DEF vars
    <2> QED
      BY <1>1, <2>1, <2>2a, <2>2b, <2>3, <2>4, Zenon
         DEF Next, Allocate, AppendAtEoa, ReturnAllocation, RecordFreed, ReleaseFreed
  <1>2. FlatInv /\ [Next]_vars => FlatInv'
    BY FlatNextPreserves, Zenon
  <1>3. Init => FlatInv
    BY FlatInitEstablishes, Zenon
  <1> QED BY <1>1, <1>2, <1>3, PTL DEF Spec, TailAvoidsReferencedBytes

(***************************************************************************)
(* The aggregating strategy.  A window that was opened has handed out      *)
(* bytes, its spare is shorter than a block, and the two windows lie apart *)
(* below the end of allocation: so the spare a window yields is shorter    *)
(* than what is built over it.                                             *)
(***************************************************************************)
Window == [start : Nat, cursor : Nat, end : Nat]

WindowFits(w, e) ==
    /\ w \in Window
    /\ w = NoWindow \/ w.start < w.cursor
    /\ w.cursor <= w.end
    /\ w.end - w.cursor < Block
    /\ w.end <= e

Apart(w, v) == w.end <= v.start \/ v.end <= w.start

WindowsFit(ws, e) ==
    /\ ws \in [WindowClasses -> Window]
    /\ WindowFits(ws["metadata"], e)
    /\ WindowFits(ws["raw"], e)
    /\ Apart(ws["metadata"], ws["raw"])

\* The bytes below `e' belong to the used extents, the spares, the list, or nobody.
Shares(used, spare, free, gone, e) ==
    /\ used \cap spare = {} /\ used \cap free = {} /\ spare \cap free = {}
    /\ gone \cap (used \cup spare \cup free) = {}
    /\ used \cup spare \cup free \cup gone = 0 .. (e - 1)

Layout(used, ws, list, gone, e) ==
    /\ e \in Nat
    /\ list \in SUBSET Extent
    /\ Canonical(list)
    /\ WindowsFit(ws, e)
    /\ Shares(used, Bytes(Spare(ws)), Bytes(list), gone, e)

\* No free region ends the file, or ends where the unused space at its end begins.
TailIsCut(ws, list, e) == \A r \in list : r.end # Tail(ws, e)

\* Between commits, and while one is running: then the snapshot is such a state too.
Settled ==
    /\ fresh = {}
    /\ allocEnd <= length
    /\ TailIsCut(windows, sections, allocEnd)

Revertible ==
    /\ Layout(Bytes(extents), snapshot.windows, snapshot.regions, snapshot.lost, snapshot.eoa)
    /\ ~tracked => snapshot.regions = {}
    /\ TailIsCut(snapshot.windows, snapshot.regions, snapshot.eoa)
    /\ snapshot.eoa <= length
    /\ allocEnd <= MaxOf(snapshot.eoa, reach)

AggregatesInv ==
    /\ tracked \in BOOLEAN /\ running \in BOOLEAN
    /\ length \in Nat /\ reach \in Nat
    /\ extents \in SUBSET Extent /\ fresh \in SUBSET Extent
    /\ PairwiseDisjoint(extents \cup fresh) /\ extents \cap fresh = {}
    /\ Layout(Bytes(extents \cup fresh), windows, sections, wasted, allocEnd)
    /\ ~tracked => sections = {}
    /\ ~running => Settled
    /\ running => Revertible

Gap(w) == w.cursor .. (w.end - 1)

Clear(a, b) == a \cap b = {}

Splits(whole, a, b) == whole = a \cup b /\ Clear(a, b)

\* The spare of one window, as extents and as bytes.
LEMMA UnusedBytes ==
    ASSUME NEW w \in Window
    PROVE  /\ Unused(w) \in SUBSET Extent
           /\ Bytes(Unused(w)) = Gap(w)
           /\ Unused(w) # {} <=> w.cursor < w.end
           /\ \A x \in Unused(w) : x.start = w.cursor /\ x.end = w.end
           /\ \A x \in Unused(w), y \in Unused(w) : x = y
  <1> DEFINE x == [start |-> w.cursor, end |-> w.end]
  <1>1. w.cursor \in Nat /\ w.end \in Nat
    BY DEF Window
  <1>2. x.start = w.cursor /\ x.end = w.end /\ (x.start < x.end => x \in Extent)
    BY <1>1 DEF Extent
  <1>3. BytesOf(x) = Gap(w)
    BY <1>2, Zenon DEF BytesOf, Gap
  <1>4. Unused(w) = {y \in {x} : y.start < y.end}
    BY Zenon DEF Unused
  <1> HIDE DEF x
  <1>5. CASE x.start < x.end
    <2>1. Unused(w) = {x}
      BY <1>4, <1>5, Zenon
    <2> QED BY <2>1, <1>2, <1>3, <1>5, SingletonBytes, Zenon
  <1>6. CASE ~(x.start < x.end)
    <2>1. Unused(w) = {}
      BY <1>4, <1>6, Zenon
    <2>2. Gap(w) = {}
      BY <1>1, <1>2, <1>6 DEF Gap
    <2> QED BY <2>1, <2>2, <1>2, <1>6, Zenon DEF Bytes
  <1> QED BY <1>5, <1>6, Zenon

\* What is spare is the unused part of either window.
LEMMA SpareOfBoth ==
    ASSUME NEW ws
    PROVE  Spare(ws) = Unused(ws["metadata"]) \cup Unused(ws["raw"])
  BY Zenon DEF Spare, WindowClasses

\* The spares of two windows that fit are disjoint extents below the end of allocation.
LEMMA SpareBytes ==
    ASSUME NEW ws, NEW e \in Nat, WindowsFit(ws, e)
    PROVE  /\ Spare(ws) \in SUBSET Extent
           /\ PairwiseDisjoint(Spare(ws))
           /\ Splits(Bytes(Spare(ws)), Gap(ws["metadata"]), Gap(ws["raw"]))
           /\ \A x \in Spare(ws) : x.end <= e
  <1> DEFINE m == ws["metadata"]
             r == ws["raw"]
  <1>1. /\ WindowFits(m, e) /\ WindowFits(r, e) /\ Apart(m, r)
        /\ m \in Window /\ r \in Window
    BY Zenon DEF WindowsFit, WindowFits
  <1>2. Spare(ws) = Unused(m) \cup Unused(r)
    BY SpareOfBoth, Zenon
  <1> HIDE DEF m, r
  <1>3. /\ m.start \in Nat /\ m.cursor \in Nat /\ m.end \in Nat
        /\ r.start \in Nat /\ r.cursor \in Nat /\ r.end \in Nat
        /\ m.start <= m.cursor /\ m.cursor <= m.end /\ m.end <= e
        /\ r.start <= r.cursor /\ r.cursor <= r.end /\ r.end <= e
        /\ m.end <= r.start \/ r.end <= m.start
    BY <1>1 DEF WindowFits, Apart, Window, NoWindow
  <1>4. /\ Unused(m) \in SUBSET Extent /\ Bytes(Unused(m)) = Gap(m)
        /\ \A x \in Unused(m) : x.start = m.cursor /\ x.end = m.end
        /\ \A x \in Unused(m), y \in Unused(m) : x = y
    BY <1>1, UnusedBytes, Zenon
  <1>5. /\ Unused(r) \in SUBSET Extent /\ Bytes(Unused(r)) = Gap(r)
        /\ \A x \in Unused(r) : x.start = r.cursor /\ x.end = r.end
        /\ \A x \in Unused(r), y \in Unused(r) : x = y
    BY <1>1, UnusedBytes, Zenon
  <1>6. Bytes(Spare(ws)) = Gap(m) \cup Gap(r)
    BY <1>2, <1>4, <1>5, Zenon DEF Bytes
  <1>7. Gap(m) \cap Gap(r) = {}
    BY <1>3 DEF Gap
  <1>8. \A x \in Unused(m), y \in Unused(r) : ~Overlaps(x, y) /\ ~Overlaps(y, x)
    BY <1>3, <1>4, <1>5 DEF Overlaps
  <1>9. PairwiseDisjoint(Spare(ws))
    BY <1>2, <1>4, <1>5, <1>8, Zenon DEF PairwiseDisjoint
  <1>10. \A x \in Spare(ws) : x.end <= e
    BY <1>2, <1>3, <1>4, <1>5, Zenon
  <1> QED BY <1>2, <1>4, <1>5, <1>6, <1>7, <1>9, <1>10, Zenon DEF m, r, Splits, Clear

\* Where the spare of one window begins, when it ends the file.
LEMMA TailCutValue ==
    ASSUME NEW w \in Window, NEW e
    PROVE  TailCut(w, e) = IF w.cursor < w.end /\ w.end = e THEN w.cursor ELSE e
  BY UnusedBytes, Zenon DEF TailCut

\* A class without a window has no spare, wherever the file ends.
LEMMA NoWindowFits ==
    ASSUME NEW e \in Nat
    PROVE  WindowFits(NoWindow, e) /\ Gap(NoWindow) = {} /\ NoWindow.end = 0 /\ NoWindow.start = 0
  BY AggregatesAssumption DEF WindowFits, NoWindow, Window, Gap

\* Nor have two, and the file ends where it did.
LEMMA NoWindowsFit ==
    ASSUME NEW e \in Nat
    PROVE  WindowsFit(NoWindows, e) /\ Spare(NoWindows) = {} /\ Tail(NoWindows, e) = e
  <1>1. NoWindows["metadata"] = NoWindow /\ NoWindows["raw"] = NoWindow
    BY Zenon DEF NoWindows, WindowClasses
  <1>2. NoWindow \in Window /\ WindowFits(NoWindow, e) /\ NoWindow.start = 0 /\ NoWindow.end = 0
    BY NoWindowFits, Zenon DEF WindowFits
  <1>3. NoWindows \in [WindowClasses -> Window]
    BY <1>2, Zenon DEF NoWindows
  <1>4. Apart(NoWindow, NoWindow)
    BY <1>2 DEF Apart
  <1>5. Unused(NoWindow) = {}
    BY DEF Unused, NoWindow
  <1>6. TailCut(NoWindow, e) = e
    BY <1>5, Zenon DEF TailCut
  <1> QED BY <1>1, <1>2, <1>3, <1>4, <1>5, <1>6, SpareOfBoth, Zenon DEF WindowsFit, Tail

\* A window that fits below one end fits below a later one.
LEMMA FitsAbove ==
    ASSUME NEW w, NEW e \in Nat, WindowFits(w, e), NEW f \in Nat, e <= f
    PROVE  WindowFits(w, f)
  <1>1. w \in Window /\ w.end \in Nat /\ w.end <= e
    BY DEF WindowFits, Window
  <1>2. w.end <= f
    BY <1>1
  <1> QED BY <1>2, Zenon DEF WindowFits

\* What fitting says of the fields of a window.
LEMMA FitsNumbers ==
    ASSUME NEW w, NEW e \in Nat, WindowFits(w, e)
    PROVE  /\ w \in Window /\ w.start \in Nat /\ w.cursor \in Nat /\ w.end \in Nat
           /\ w.start < w.cursor \/ (w.start = 0 /\ w.end = 0)
           /\ w.start <= w.cursor /\ w.cursor <= w.end
           /\ w.end - w.cursor < Block /\ w.end <= e
  BY SMTT(30) DEF WindowFits, Window, NoWindow

\* Windows that fit below an end fit below a larger one.
LEMMA FitsHigher ==
    ASSUME NEW ws, NEW e \in Nat, WindowsFit(ws, e), NEW f \in Nat, e <= f
    PROVE  WindowsFit(ws, f)
  BY FitsAbove, Zenon DEF WindowsFit

\* One window, whichever its class, and the other.
LEMMA WindowsPair ==
    ASSUME NEW ws, NEW e \in Nat, WindowsFit(ws, e), NEW class \in WindowClasses
    PROVE  /\ OtherClass(class) \in WindowClasses
           /\ WindowFits(ws[class], e) /\ WindowFits(ws[OtherClass(class)], e)
           /\ Apart(ws[class], ws[OtherClass(class)])
           /\ Splits(Bytes(Spare(ws)), Gap(ws[class]), Gap(ws[OtherClass(class)]))
  <1>1. /\ Splits(Bytes(Spare(ws)), Gap(ws["metadata"]), Gap(ws["raw"]))
        /\ Splits(Bytes(Spare(ws)), Gap(ws["raw"]), Gap(ws["metadata"]))
    <2>1. Splits(Bytes(Spare(ws)), Gap(ws["metadata"]), Gap(ws["raw"]))
      BY SpareBytes, Zenon
    <2> QED BY <2>1, Zenon DEF Splits, Clear
  <1>2. /\ WindowFits(ws["metadata"], e) /\ WindowFits(ws["raw"], e)
        /\ Apart(ws["metadata"], ws["raw"]) /\ Apart(ws["raw"], ws["metadata"])
    BY Zenon DEF WindowsFit, Apart
  <1>3. CASE class = "metadata"
    <2>1. OtherClass(class) = "raw"
      BY <1>3, Zenon DEF OtherClass
    <2> QED BY <1>1, <1>2, <1>3, <2>1, Zenon DEF WindowClasses
  <1>4. CASE class = "raw"
    <2>1. OtherClass(class) = "metadata"
      BY <1>4, Zenon DEF OtherClass
    <2> QED BY <1>1, <1>2, <1>4, <2>1, Zenon DEF WindowClasses
  <1> QED BY <1>3, <1>4, Zenon DEF WindowClasses

\* Replacing one window by another that fits beside the other one.
LEMMA WindowsUpdate ==
    ASSUME NEW ws \in [WindowClasses -> Window], NEW e \in Nat, NEW class \in WindowClasses, NEW w,
           WindowFits(w, e), WindowFits(ws[OtherClass(class)], e), Apart(w, ws[OtherClass(class)])
    PROVE  /\ WindowsFit([ws EXCEPT ![class] = w], e)
           /\ Splits(Bytes(Spare([ws EXCEPT ![class] = w])), Gap(w), Gap(ws[OtherClass(class)]))
           /\ [ws EXCEPT ![class] = w][OtherClass(class)] = ws[OtherClass(class)]
  <1> DEFINE new == [ws EXCEPT ![class] = w]
  <1>1. w \in Window
    BY Zenon DEF WindowFits
  <1>2. new \in [WindowClasses -> Window] /\ new[class] = w
    BY <1>1, Zenon
  <1>3. Apart(ws[OtherClass(class)], w)
    BY Zenon DEF Apart
  <1>4. CASE class = "metadata"
    <2>1. OtherClass(class) = "raw"
      BY <1>4, Zenon DEF OtherClass
    <2>2. new["metadata"] = w /\ new["raw"] = ws["raw"]
      BY <1>4, Zenon DEF WindowClasses
    <2>3. WindowsFit(new, e)
      BY <1>2, <2>1, <2>2, Zenon DEF WindowsFit
    <2> HIDE DEF new
    <2>4. Splits(Bytes(Spare(new)), Gap(new["metadata"]), Gap(new["raw"]))
      BY <2>3, SpareBytes, Zenon
    <2>5. Splits(Bytes(Spare(new)), Gap(new["raw"]), Gap(new["metadata"]))
      BY <2>4, Zenon DEF Splits, Clear
    <2> QED BY <2>1, <2>2, <2>3, <2>4, <2>5, Zenon DEF new
  <1>5. CASE class = "raw"
    <2>1. OtherClass(class) = "metadata"
      BY <1>5, Zenon DEF OtherClass
    <2>2. new["raw"] = w /\ new["metadata"] = ws["metadata"]
      BY <1>5, Zenon DEF WindowClasses
    <2>3. WindowsFit(new, e)
      BY <1>2, <1>3, <2>1, <2>2, Zenon DEF WindowsFit
    <2> HIDE DEF new
    <2>4. Splits(Bytes(Spare(new)), Gap(new["metadata"]), Gap(new["raw"]))
      BY <2>3, SpareBytes, Zenon
    <2>5. Splits(Bytes(Spare(new)), Gap(new["raw"]), Gap(new["metadata"]))
      BY <2>4, Zenon DEF Splits, Clear
    <2> QED BY <2>1, <2>2, <2>3, <2>4, <2>5, Zenon DEF new
  <1> QED BY <1>4, <1>5, Zenon DEF WindowClasses

(***************************************************************************)
(* ClassicAggregators::release_tail: the bytes above the cut are the spare *)
(* of a window that ended the file, and the remaining windows end below.   *)
(***************************************************************************)
LEMMA TailReleased ==
    ASSUME NEW ws, NEW e \in Nat, WindowsFit(ws, e)
    PROVE  /\ Tail(ws, e) \in Nat /\ Tail(ws, e) <= e
           /\ WindowsFit(ReleaseTail(ws, e), Tail(ws, e))
           /\ Splits(Bytes(Spare(ws)), Bytes(Spare(ReleaseTail(ws, e))), Tail(ws, e) .. (e - 1))
  <1> DEFINE m   == ws["metadata"]
             r   == ws["raw"]
             mid == TailCut(m, e)
             rel == ReleaseTail(ws, e)
             mm  == IF mid < e THEN NoWindow ELSE m
             rr  == IF TailCut(r, mid) < mid THEN NoWindow ELSE r
  <1>1. /\ WindowFits(m, e) /\ WindowFits(r, e) /\ Apart(m, r)
        /\ m \in Window /\ r \in Window
    BY Zenon DEF WindowsFit, WindowFits
  <1>2. Bytes(Spare(ws)) = Gap(m) \cup Gap(r)
    BY SpareBytes, Zenon DEF Splits
  <1>3. Tail(ws, e) = TailCut(r, mid)
    BY Zenon DEF Tail
  <1>4. rel["metadata"] = mm /\ rel["raw"] = rr /\ rel = [class \in WindowClasses |-> rel[class]]
    BY DEF ReleaseTail, WindowClasses
  <1> HIDE DEF rel, m, r
  <1>5. /\ m.start \in Nat /\ m.cursor \in Nat /\ m.end \in Nat
        /\ r.start \in Nat /\ r.cursor \in Nat /\ r.end \in Nat
        /\ m.start <= m.cursor /\ m.cursor <= m.end /\ m.end <= e
        /\ r.start <= r.cursor /\ r.cursor <= r.end /\ r.end <= e
        /\ m.end <= r.start \/ r.end <= m.start
        /\ m.cursor < m.end => m.start < m.cursor
        /\ r.cursor < r.end => r.start < r.cursor
        /\ r.start < r.cursor \/ r.end = 0
        /\ m.start < m.cursor \/ m.end = 0
    BY <1>1 DEF WindowFits, Apart, Window, NoWindow
  <1>6. /\ mid = IF m.cursor < m.end /\ m.end = e THEN m.cursor ELSE e
        /\ TailCut(r, mid) = IF r.cursor < r.end /\ r.end = mid THEN r.cursor ELSE mid
    BY <1>1, TailCutValue, Zenon
  <1>7. ASSUME NEW t \in Nat, Tail(ws, e) = t, t <= e, NEW a, NEW b, mm = a, rr = b,
               WindowFits(a, t), WindowFits(b, t), Apart(a, b),
               Gap(m) \cup Gap(r) = Gap(a) \cup Gap(b) \cup (t .. (e - 1))
        PROVE  /\ WindowsFit(rel, t)
               /\ Splits(Bytes(Spare(ws)), Bytes(Spare(rel)), t .. (e - 1))
    <2>1. rel["metadata"] = a /\ rel["raw"] = b
      BY <1>4, <1>7, Zenon
    <2>2. a \in Window /\ b \in Window
      BY <1>7, Zenon DEF WindowFits
    <2>3. rel \in [WindowClasses -> Window]
      BY <1>4, <2>1, <2>2, SMT DEF WindowClasses
    <2>4. WindowsFit(rel, t)
      BY <1>7, <2>1, <2>3, Zenon DEF WindowsFit
    <2>5. Bytes(Spare(rel)) = Gap(a) \cup Gap(b)
      BY <2>1, <2>4, SpareBytes, Zenon DEF Splits
    <2>6. (Gap(a) \cup Gap(b)) \cap (t .. (e - 1)) = {}
      BY <1>7, <2>2 DEF WindowFits, Gap, Window
    <2> QED BY <1>2, <1>7, <2>4, <2>5, <2>6, Zenon DEF Splits, Clear
  <1>8. CASE m.cursor < m.end /\ m.end = e
    <2>1. mid = m.cursor /\ m.cursor < e /\ r.end <= m.start /\ m.start < m.cursor
      BY <1>5, <1>6, <1>8
    <2>2. TailCut(r, mid) = m.cursor
      BY <1>5, <1>6, <2>1
    <2>3. mm = NoWindow /\ rr = r
      BY <2>1, <2>2, <1>5
    <2>4. WindowFits(NoWindow, m.cursor) /\ NoWindow.end = 0 /\ Gap(NoWindow) = {}
      BY <1>5, NoWindowFits, Zenon
    <2>5. WindowFits(r, m.cursor) /\ Apart(NoWindow, r)
      BY <1>1, <1>5, <2>1, <2>4 DEF WindowFits, Apart
    <2>6. Gap(m) = m.cursor .. (e - 1)
      BY <1>8, Zenon DEF Gap
    <2>7. Tail(ws, e) = m.cursor /\ m.cursor \in Nat /\ m.cursor <= e
      BY <1>3, <1>5, <1>8, <2>2
    <2>8. Gap(m) \cup Gap(r) = Gap(NoWindow) \cup Gap(r) \cup (m.cursor .. (e - 1))
      BY <2>4, <2>6, Zenon
    <2> HIDE DEF mm, rr
    <2>9. /\ WindowsFit(rel, m.cursor)
          /\ Splits(Bytes(Spare(ws)), Bytes(Spare(rel)), m.cursor .. (e - 1))
      BY <1>7, <2>3, <2>4, <2>5, <2>7, <2>8, Zenon
    <2> QED BY <2>7, <2>9, Zenon DEF rel
  <1>9. CASE ~(m.cursor < m.end /\ m.end = e) /\ r.cursor < r.end /\ r.end = e
    <2>1. mid = e /\ TailCut(r, mid) = r.cursor /\ r.cursor < e /\ m.end <= r.start /\ r.start < r.cursor
      BY <1>5, <1>6, <1>9
    <2>3. mm = m /\ rr = NoWindow
      BY <2>1, <1>5
    <2>4. WindowFits(NoWindow, r.cursor) /\ NoWindow.end = 0 /\ Gap(NoWindow) = {}
      BY <1>5, NoWindowFits, Zenon
    <2>5. WindowFits(m, r.cursor) /\ Apart(m, NoWindow)
      BY <1>1, <1>5, <2>1, <2>4 DEF WindowFits, Apart
    <2>6. Gap(r) = r.cursor .. (e - 1)
      BY <1>9, Zenon DEF Gap
    <2>7. Tail(ws, e) = r.cursor /\ r.cursor \in Nat /\ r.cursor <= e
      BY <1>3, <1>5, <1>9, <2>1
    <2>8. Gap(m) \cup Gap(r) = Gap(m) \cup Gap(NoWindow) \cup (r.cursor .. (e - 1))
      BY <2>4, <2>6, Zenon
    <2> HIDE DEF mm, rr
    <2>9. /\ WindowsFit(rel, r.cursor)
          /\ Splits(Bytes(Spare(ws)), Bytes(Spare(rel)), r.cursor .. (e - 1))
      BY <1>7, <2>3, <2>4, <2>5, <2>7, <2>8, Zenon
    <2> QED BY <2>7, <2>9, Zenon DEF rel
  <1>10. CASE ~(m.cursor < m.end /\ m.end = e) /\ ~(r.cursor < r.end /\ r.end = e)
    <2>1. mid = e /\ TailCut(r, mid) = e
      BY <1>6, <1>10, Zenon
    <2>3. mm = m /\ rr = r
      BY <2>1
    <2>7. Tail(ws, e) = e /\ e <= e /\ e .. (e - 1) = {}
      BY <1>3, <2>1
    <2>8. Gap(m) \cup Gap(r) = Gap(m) \cup Gap(r) \cup (e .. (e - 1))
      BY <2>7, Zenon
    <2> HIDE DEF mm, rr
    <2>9. /\ WindowsFit(rel, e)
          /\ Splits(Bytes(Spare(ws)), Bytes(Spare(rel)), e .. (e - 1))
      BY <1>1, <1>7, <2>3, <2>7, <2>8, Zenon
    <2> QED BY <2>7, <2>9, Zenon DEF rel
  <1> QED BY <1>8, <1>9, <1>10, Zenon

\* Extents whose bytes lie below an end end by it.
LEMMA EndsBelow ==
    ASSUME NEW list \in SUBSET Extent, NEW e \in Nat, Bytes(list) \subseteq 0 .. (e - 1)
    PROVE  \A x \in list : x.end <= e
  <1> SUFFICES ASSUME NEW x \in list PROVE x.end <= e
    BY Zenon
  <1>1. x \in Extent
    BY Zenon
  <1>2. (x.end - 1) \in BytesOf(x)
    BY <1>1 DEF BytesOf, Extent
  <1>3. (x.end - 1) \in 0 .. (e - 1)
    BY <1>2, Zenon DEF Bytes
  <1> QED BY <1>1, <1>3 DEF Extent

\* What a rolled-back commit wrote beyond the end of allocation is nobody's.
LEMMA SharesGrow ==
    ASSUME NEW used, NEW spare, NEW free, NEW gone, NEW e \in Nat, NEW f \in Nat, e <= f,
           Shares(used, spare, free, gone, e)
    PROVE  Shares(used, spare, free, gone \cup (e .. (f - 1)), f)
  <1>1. \A x \in used \cup spare \cup free \cup gone : x \in Int /\ 0 <= x /\ x < e
    BY DEF Shares
  <1>2. (used \cup spare \cup free) \cap (e .. (f - 1)) = {}
    BY <1>1
  <1>3. 0 .. (f - 1) = (0 .. (e - 1)) \cup (e .. (f - 1))
    OBVIOUS
  <1> QED BY <1>2, <1>3, Zenon DEF Shares

\* The file grows over the spare that ended it, and what is built there is used.
LEMMA SharesOver ==
    ASSUME NEW used, NEW spare, NEW rest, NEW free, NEW gone,
           NEW e \in Nat, NEW base \in Nat, NEW f \in Nat, base <= e, e <= f,
           Shares(used, spare, free, gone, e), Splits(spare, rest, base .. (e - 1))
    PROVE  /\ Shares(used \cup (base .. (f - 1)), rest, free, gone, f)
           /\ Clear(used, base .. (f - 1))
  <1>1. \A x \in used \cup spare \cup free \cup gone : x \in Int /\ 0 <= x /\ x < e
    BY DEF Shares
  <1>2. (used \cup spare \cup free \cup gone) \cap (e .. (f - 1)) = {}
    BY <1>1
  <1>3. 0 .. (f - 1) = (0 .. (e - 1)) \cup (e .. (f - 1)) /\ base .. (f - 1) = (base .. (e - 1)) \cup (e .. (f - 1))
    OBVIOUS
  <1> QED BY <1>2, <1>3, Zenon DEF Shares, Splits, Clear

\* Of what is built, a part is handed out and the rest joins the spare.
LEMMA SharesSplit ==
    ASSUME NEW used, NEW spare, NEW free, NEW gone, NEW e, NEW joined, NEW out, NEW left, NEW spare2,
           Shares(used \cup joined, spare, free, gone, e), Clear(used, joined),
           Splits(joined, out, left), Splits(spare2, left, spare)
    PROVE  Shares(used \cup out, spare2, free, gone, e) /\ Clear(used, out)
  BY Zenon DEF Shares, Splits, Clear

\* A part of a spare is handed out.
LEMMA SharesTake ==
    ASSUME NEW used, NEW spare, NEW mine, NEW other, NEW free, NEW gone, NEW e,
           NEW out, NEW left, NEW spare2,
           Shares(used, spare, free, gone, e), Splits(spare, mine, other),
           Splits(mine, out, left), Splits(spare2, left, other)
    PROVE  Shares(used \cup out, spare2, free, gone, e) /\ Clear(used, out)
  BY Zenon DEF Shares, Splits, Clear

\* A spare is abandoned to the list, or to nobody.
Given(free2, gone2, free, gone, mine) ==
    free2 \cup gone2 = free \cup gone \cup mine /\ Clear(free2, gone2)

\* The other spare, and the bytes in use, are as they were.
LEMMA SharesAbandon ==
    ASSUME NEW used, NEW spare, NEW mine, NEW other, NEW free, NEW gone, NEW e, NEW free2, NEW gone2,
           Shares(used, spare, free, gone, e), Splits(spare, mine, other),
           Given(free2, gone2, free, gone, mine)
    PROVE  Shares(used, other, free2, gone2, e)
  BY Zenon DEF Shares, Splits, Clear, Given

\* A best fit of the list is handed out.
LEMMA SharesReuse ==
    ASSUME NEW used, NEW spare, NEW free, NEW gone, NEW e, NEW out, NEW left,
           Shares(used, spare, free, gone, e), Splits(free, out, left)
    PROVE  Shares(used \cup out, spare, left, gone, e) /\ Clear(used, out)
  BY Zenon DEF Shares, Splits, Clear

\* The opened file satisfies the invariant.
LEMMA AggregatesInitEstablishes == AggregatesInit => AggregatesInv
  <1> SUFFICES ASSUME AggregatesInit PROVE AggregatesInv
    BY Zenon
  <1> USE AggregatesAssumption
  <1>1. allocEnd \in Nat /\ length \in Nat /\ reach \in Nat /\ allocEnd <= length
    BY DEF AggregatesInit
  <1> DEFINE first == {ExtentAt(x, 1) : x \in 0 .. (AggregateEoa - 1)}
  <1>2. first \in SUBSET Extent
    BY DEF ExtentAt, Extent
  <1>3. Bytes(first) = 0 .. (AggregateEoa - 1)
    <2>1. ASSUME NEW x \in 0 .. (AggregateEoa - 1) PROVE BytesOf(ExtentAt(x, 1)) = {x}
      BY DEF ExtentAt, BytesOf
    <2>2. \A y : y \in Bytes(first) <=> \E x \in 0 .. (AggregateEoa - 1) : y \in BytesOf(ExtentAt(x, 1))
      BY Zenon DEF Bytes
    <2> HIDE DEF first
    <2>3. ASSUME NEW y PROVE y \in Bytes(first) <=> y \in 0 .. (AggregateEoa - 1)
      BY <2>1, <2>2
    <2> QED BY <2>3, Zenon
  <1>4. PairwiseDisjoint(first)
    <2>1. ASSUME NEW x \in 0 .. (AggregateEoa - 1), NEW y \in 0 .. (AggregateEoa - 1), x # y
          PROVE  ~Overlaps(ExtentAt(x, 1), ExtentAt(y, 1))
      BY <2>1 DEF ExtentAt, Overlaps
    <2> QED BY <2>1, Zenon DEF PairwiseDisjoint
  <1> HIDE DEF first
  <1>5. /\ extents \in SUBSET Extent /\ PairwiseDisjoint(extents)
        /\ Bytes(extents) = 0 .. (allocEnd - 1)
        /\ extents \cup fresh = extents /\ fresh = {}
        /\ extents \cap fresh = {}
    <2>1. extents = first /\ fresh = {} /\ allocEnd = AggregateEoa
      BY Zenon DEF AggregatesInit, first
    <2> QED BY <1>2, <1>3, <1>4, <2>1, Zenon
  <1>6. WindowsFit(windows, allocEnd) /\ Spare(windows) = {}
    BY <1>1, NoWindowsFit, Zenon DEF AggregatesInit
  <1>7. Bytes(Spare(windows)) = {} /\ Bytes(sections) = {} /\ wasted = {} /\ sections = {}
    BY <1>6, Zenon DEF Bytes, AggregatesInit
  <1>8. Shares(Bytes(extents), Bytes(Spare(windows)), Bytes(sections), wasted, allocEnd)
    BY <1>5, <1>7, Zenon DEF Shares
  <1>9. Layout(Bytes(extents \cup fresh), windows, sections, wasted, allocEnd)
    BY <1>1, <1>5, <1>6, <1>7, <1>8, Zenon DEF Layout, Canonical
  <1>10. Settled
    BY <1>1, <1>5, <1>7, Zenon DEF Settled, TailIsCut
  <1>11. tracked \in BOOLEAN /\ running = FALSE
    BY Zenon DEF AggregatesInit
  <1> QED BY <1>1, <1>5, <1>7, <1>9, <1>10, <1>11, Zenon DEF AggregatesInv

\* Beyond the windows nothing unused ends the file.
LEMMA TailAbove ==
    ASSUME NEW ws, NEW e \in Nat, WindowsFit(ws, e), NEW f \in Nat, e < f
    PROVE  Tail(ws, f) = f
  <1>1. ASSUME NEW w, WindowFits(w, e) PROVE TailCut(w, f) = f
    <2>1. w \in Window /\ w.end # f
      BY <1>1 DEF WindowFits, Window
    <2> QED BY <2>1, Zenon DEF TailCut
  <1> QED BY <1>1, Zenon DEF Tail, WindowsFit

\* synchronize_aggregates and the snapshot.
LEMMA BeginCommitStep == AggregatesInv /\ BeginCommit => AggregatesInv'
  <1> SUFFICES ASSUME AggregatesInv, BeginCommit PROVE AggregatesInv'
    BY Zenon
  <1>1. /\ allocEnd \in Nat /\ length \in Nat /\ allocEnd <= length /\ fresh = {}
        /\ sections \in SUBSET Extent /\ Canonical(sections) /\ WindowsFit(windows, allocEnd)
        /\ TailIsCut(windows, sections, allocEnd)
        /\ Shares(Bytes(extents), Bytes(Spare(windows)), Bytes(sections), wasted, allocEnd)
        /\ extents \cup fresh = extents
    <2>1. ~running /\ Settled
      BY Zenon DEF BeginCommit, AggregatesInv
    <2>2. extents \cup fresh = extents
      BY <2>1, Zenon DEF Settled
    <2> QED BY <2>1, <2>2, Zenon DEF AggregatesInv, Settled, Layout
  <1>2. Synchronized = length
    BY <1>1 DEF Synchronized, MaxOf
  <1>3. Orphaned = wasted \cup (allocEnd .. (length - 1))
    BY <1>2, Zenon DEF Orphaned, Listed
  <1>4. Layout(Bytes(extents), windows, sections, Orphaned, length)
    BY <1>1, <1>3, SharesGrow, FitsHigher, Zenon DEF Layout
  <1>5. TailIsCut(windows, sections, length)
    <2>1. CASE allocEnd = length
      BY <1>1, <2>1, Zenon
    <2>2. CASE allocEnd < length
      <3>1. Tail(windows, length) = length
        BY <1>1, <2>2, TailAbove, Zenon
      <3>2. Bytes(sections) \subseteq 0 .. (allocEnd - 1)
        BY <1>1, Zenon DEF Shares
      <3>3. \A r \in sections : r.end <= allocEnd
        BY <1>1, <3>2, EndsBelow, Zenon
      <3>4. \A r \in sections : r.end # length
        BY <1>1, <2>2, <3>3 DEF Extent
      <3> QED BY <3>1, <3>4, Zenon DEF TailIsCut
    <2> QED BY <1>1, <2>1, <2>2
  <1>6. /\ snapshot'.windows = windows /\ snapshot'.regions = sections
        /\ snapshot'.eoa = length /\ snapshot'.lost = Orphaned
    BY <1>2 DEF BeginCommit
  <1>7. /\ running' = TRUE /\ tracked' = tracked /\ allocEnd' = length /\ wasted' = Orphaned
        /\ windows' = windows /\ sections' = sections /\ length' = length /\ reach' = reach
        /\ extents' = extents /\ fresh' = fresh
    BY <1>2, Zenon DEF BeginCommit
  <1>8. length <= MaxOf(length, reach)
    BY <1>1 DEF MaxOf, AggregatesInv
  <1>9. length <= length
    BY <1>1
  <1>10. Revertible'
    BY <1>4, <1>5, <1>6, <1>7, <1>8, <1>9, Zenon DEF Revertible, AggregatesInv
  <1>11. Layout(Bytes(extents \cup fresh), windows, sections, wasted, allocEnd)'
    BY <1>1, <1>4, <1>7, Zenon
  <1> QED BY <1>7, <1>10, <1>11, Zenon DEF AggregatesInv

(***************************************************************************)
(* What every reservation keeps, whichever part of the file it comes from. *)
(***************************************************************************)
LEMMA ReservedStep ==
    ASSUME AggregatesInv, running, NEW x \in Extent,
           Clear(Bytes(extents \cup fresh), BytesOf(x)),
           fresh' = fresh \cup {x},
           tracked' = tracked, running' = running, length' = length, extents' = extents,
           snapshot' = snapshot, reach' \in Nat,
           ~tracked => sections' = {},
           allocEnd' <= MaxOf(snapshot.eoa, reach'),
           Layout(Bytes(extents \cup fresh) \cup BytesOf(x), windows', sections', wasted', allocEnd')
    PROVE  AggregatesInv'
  <1>1. /\ extents \cup fresh \in SUBSET Extent /\ PairwiseDisjoint(extents \cup fresh)
        /\ extents \cap fresh = {} /\ Revertible /\ extents \in SUBSET Extent /\ fresh \in SUBSET Extent
        /\ tracked \in BOOLEAN /\ running \in BOOLEAN /\ length \in Nat
    BY Zenon DEF AggregatesInv
  <1>2. /\ PairwiseDisjoint((extents \cup fresh) \cup {x})
        /\ Bytes((extents \cup fresh) \cup {x}) = Bytes(extents \cup fresh) \cup BytesOf(x)
    <2>1. BytesOf(x) \cap Bytes(extents \cup fresh) = {}
      BY Zenon DEF Clear
    <2> QED BY <1>1, <2>1, DisjointInsertion, Zenon
  <1>3. x \notin extents
    <2>1. x.start \in BytesOf(x)
      BY DEF BytesOf, Extent
    <2> QED BY <2>1, Zenon DEF Bytes, Clear
  <1>4. (extents \cup fresh)' = (extents \cup fresh) \cup {x}
    BY Zenon
  <1>5. extents' \cap fresh' = {} /\ fresh' \in SUBSET Extent /\ extents' \in SUBSET Extent
    BY <1>1, <1>3, Zenon
  <1>6. Revertible'
    BY <1>1, Zenon DEF Revertible
  <1>7. Layout(Bytes(extents \cup fresh), windows, sections, wasted, allocEnd)'
    BY <1>2, <1>4, Zenon
  <1>8. PairwiseDisjoint(extents \cup fresh)'
    BY <1>2, <1>4, Zenon
  <1> QED BY <1>1, <1>5, <1>6, <1>7, <1>8, Zenon DEF AggregatesInv

\* reserve_one, from the free list.
LEMMA ReserveFreeStep ==
    ASSUME AggregatesInv, NEW size \in Sizes, ReserveFree(size)
    PROVE  AggregatesInv'
  <1>1. PICK r \in sections : /\ BestFit(sections, size, r)
                              /\ sections' = AllocFrom(sections, r, size)
                              /\ fresh' = fresh \cup {ExtentAt(r.start, size)}
    BY Zenon DEF ReserveFree
  <1> DEFINE x == ExtentAt(r.start, size)
             used == Bytes(extents \cup fresh)
  <1>2. size \in Nat \ {0}
    BY AggregatesAssumption, Zenon
  <1>3. /\ sections \in SUBSET Extent /\ Canonical(sections) /\ WindowsFit(windows, allocEnd) /\ allocEnd \in Nat
        /\ Shares(used, Bytes(Spare(windows)), Bytes(sections), wasted, allocEnd)
        /\ reach \in Nat
    BY Zenon DEF AggregatesInv, Layout
  <1>4. r \in sections /\ ExtentLen(r) >= size
    BY <1>1, BestFitFits, Zenon
  <1>5. size <= ExtentLen(r)
    BY <1>2, <1>3, <1>4 DEF ExtentLen, Extent
  <1>6. /\ x \in Extent
        /\ AllocFrom(sections, r, size) \subseteq Extent
        /\ Canonical(AllocFrom(sections, r, size))
        /\ BytesOf(x) \subseteq Bytes(sections)
        /\ Bytes(AllocFrom(sections, r, size)) = Bytes(sections) \ BytesOf(x)
    BY <1>2, <1>3, <1>4, <1>5, AllocPreservesList, Zenon
  <1> HIDE DEF x, used
  <1>7. /\ Shares(used \cup BytesOf(x), Bytes(Spare(windows)), Bytes(sections'), wasted, allocEnd)
        /\ Clear(used, BytesOf(x))
    <2>1. Splits(Bytes(sections), BytesOf(x), Bytes(sections'))
      BY <1>1, <1>6, Zenon DEF Splits, Clear
    <2> QED BY <1>3, <2>1, SharesReuse, Zenon
  <1>8. /\ windows' = windows /\ wasted' = wasted /\ allocEnd' = allocEnd /\ reach' = reach
        /\ tracked' = tracked /\ running' = running /\ length' = length /\ extents' = extents
        /\ snapshot' = snapshot /\ running /\ tracked
    BY Zenon DEF ReserveFree, Reserving
  <1>9. Layout(used \cup BytesOf(x), windows', sections', wasted', allocEnd')
    BY <1>1, <1>3, <1>6, <1>7, <1>8, Zenon DEF Layout
  <1>10. allocEnd' <= MaxOf(snapshot.eoa, reach')
    BY <1>8, Zenon DEF AggregatesInv, Revertible
  <1>11. Clear(used, BytesOf(x)) /\ fresh' = fresh \cup {x}
    BY <1>1, <1>7, Zenon DEF x
  <1> QED BY <1>3, <1>6, <1>8, <1>9, <1>10, <1>11, ReservedStep, Zenon DEF used

\* reserve_with: a reservation from the aggregates, placed at `at' below the new end.
LEMMA AggregatedStep ==
    ASSUME AggregatesInv, NEW at \in Nat, NEW size \in Sizes, NEW ws, NEW end \in Nat,
           Aggregated(at, size, ws, end),
           Clear(Bytes(extents \cup fresh), at .. (at + size - 1)),
           ~tracked => sections' = {},
           Layout(Bytes(extents \cup fresh) \cup (at .. (at + size - 1)), ws, sections', wasted', end)
    PROVE  AggregatesInv'
  <1> DEFINE x == ExtentAt(at, size)
  <1>1. size \in Nat \ {0}
    BY AggregatesAssumption, Zenon
  <1>2. x \in Extent /\ BytesOf(x) = at .. (at + size - 1)
    BY <1>1 DEF ExtentAt, Extent, BytesOf
  <1>3. /\ running /\ windows' = ws /\ allocEnd' = end /\ reach' = MaxOf(reach, end)
        /\ fresh' = fresh \cup {x}
        /\ tracked' = tracked /\ running' = running /\ length' = length /\ extents' = extents
        /\ snapshot' = snapshot
    BY Zenon DEF Aggregated, Reserving, PlacementEnd
  <1>4. reach \in Nat /\ snapshot.eoa \in Nat
    BY <1>3, Zenon DEF AggregatesInv, Revertible, Layout
  <1>5. reach' \in Nat /\ end <= reach'
    BY <1>3, <1>4 DEF MaxOf
  <1>6. end <= MaxOf(snapshot.eoa, reach')
    BY <1>4, <1>5 DEF MaxOf
  <1>7. /\ Clear(Bytes(extents \cup fresh), BytesOf(x))
        /\ Layout(Bytes(extents \cup fresh) \cup BytesOf(x), windows', sections', wasted', allocEnd')
    BY <1>2, <1>3, Zenon
  <1>8. allocEnd' <= MaxOf(snapshot.eoa, reach')
    BY <1>3, <1>6, Zenon
  <1> HIDE DEF x
  <1> QED BY <1>2, <1>3, <1>5, <1>7, <1>8, ReservedStep, Zenon

\* The parts of the invariant a reservation from a window of `class' uses.
LEMMA ReservingFacts ==
    ASSUME AggregatesInv, NEW class \in WindowClasses
    PROVE  /\ allocEnd \in Nat /\ sections \in SUBSET Extent /\ Canonical(sections)
           /\ windows \in [WindowClasses -> Window] /\ WindowsFit(windows, allocEnd)
           /\ WindowFits(windows[class], allocEnd)
           /\ WindowFits(windows[OtherClass(class)], allocEnd)
           /\ Apart(windows[class], windows[OtherClass(class)])
           /\ Splits(Bytes(Spare(windows)), Gap(windows[class]), Gap(windows[OtherClass(class)]))
           /\ Shares(Bytes(extents \cup fresh), Bytes(Spare(windows)), Bytes(sections), wasted, allocEnd)
           /\ ~tracked => sections = {}
  <1>1. /\ allocEnd \in Nat /\ sections \in SUBSET Extent /\ Canonical(sections)
        /\ windows \in [WindowClasses -> Window] /\ WindowsFit(windows, allocEnd)
        /\ Shares(Bytes(extents \cup fresh), Bytes(Spare(windows)), Bytes(sections), wasted, allocEnd)
        /\ ~tracked => sections = {}
    BY Zenon DEF AggregatesInv, Layout, WindowsFit
  <1> QED BY <1>1, WindowsPair, Zenon

\* Aggregate::take.
LEMMA TakeSpareStep ==
    ASSUME AggregatesInv, NEW size \in Sizes, NEW class \in WindowClasses, TakeSpare(size, class)
    PROVE  AggregatesInv'
  <1> DEFINE w    == windows[class]
             v    == windows[OtherClass(class)]
             new  == [w EXCEPT !.cursor = w.cursor + size]
             ws   == [windows EXCEPT ![class] = new]
             used == Bytes(extents \cup fresh)
             out  == w.cursor .. (w.cursor + size - 1)
  <1>1. size \in Nat \ {0}
    BY AggregatesAssumption, Zenon
  <1>2. /\ allocEnd \in Nat /\ sections \in SUBSET Extent /\ Canonical(sections)
        /\ windows \in [WindowClasses -> Window]
        /\ WindowFits(w, allocEnd) /\ WindowFits(v, allocEnd) /\ Apart(w, v)
        /\ Splits(Bytes(Spare(windows)), Gap(w), Gap(v))
        /\ Shares(used, Bytes(Spare(windows)), Bytes(sections), wasted, allocEnd)
        /\ ~tracked => sections = {}
    BY ReservingFacts, Zenon
  <1>3. /\ HasRoom(w, size) /\ Aggregated(w.cursor, size, ws, allocEnd)
        /\ sections' = sections /\ wasted' = wasted
    BY Zenon DEF TakeSpare
  <1> HIDE DEF used
  <1>4. /\ WindowFits(new, allocEnd) /\ Apart(new, v) /\ w.cursor \in Nat
        /\ Splits(Gap(w), out, Gap(new))
    <2>1. /\ w \in Window /\ w.start \in Nat /\ w.cursor \in Nat /\ w.end \in Nat /\ w.end - w.cursor >= size
          /\ w.start <= w.cursor /\ w.end - w.cursor < Block /\ w.end <= allocEnd
      BY <1>2, <1>3 DEF WindowFits, Window, HasRoom, NoWindow
    <2>2. new \in Window /\ new.start = w.start /\ new.end = w.end /\ new.cursor = w.cursor + size
      BY <1>1, <2>1 DEF Window
    <2> HIDE DEF new, w
    <2>3. WindowFits(new, allocEnd)
      BY <1>1, <1>2, <2>1, <2>2, AggregatesAssumption DEF WindowFits
    <2>4. Apart(new, v)
      BY <1>2, <2>2, Zenon DEF Apart
    <2>5. Gap(w) = out \cup Gap(new) /\ out \cap Gap(new) = {}
      BY <1>1, <2>1, <2>2 DEF Gap
    <2> QED BY <2>1, <2>3, <2>4, <2>5, Zenon DEF Splits, Clear
  <1> HIDE DEF w, v, new, out
  <1>5. WindowsFit(ws, allocEnd) /\ Splits(Bytes(Spare(ws)), Gap(new), Gap(v))
    BY <1>2, <1>4, WindowsUpdate, Zenon DEF v
  <1>6. Shares(used \cup out, Bytes(Spare(ws)), Bytes(sections), wasted, allocEnd) /\ Clear(used, out)
    BY <1>2, <1>4, <1>5, SharesTake, Zenon
  <1> HIDE DEF ws
  <1>7. Layout(used \cup out, ws, sections', wasted', allocEnd) /\ (~tracked => sections' = {})
    BY <1>2, <1>3, <1>5, <1>6, Zenon DEF Layout
  <1> QED BY <1>2, <1>3, <1>4, <1>6, <1>7, AggregatedStep, Zenon DEF used, out

\* A window that ends the file grows.
LEMMA ExtendWindowStep ==
    ASSUME AggregatesInv, NEW size \in Sizes, NEW class \in WindowClasses, ExtendWindow(size, class)
    PROVE  AggregatesInv'
  <1> DEFINE w    == windows[class]
             v    == windows[OtherClass(class)]
             end  == allocEnd + MaxOf(size, Block)
             new  == [start |-> w.start, cursor |-> w.cursor + size, end |-> end]
             ws   == [windows EXCEPT ![class] = new]
             used == Bytes(extents \cup fresh)
             out  == w.cursor .. (w.cursor + size - 1)
  <1>1. size \in Nat \ {0} /\ Block \in Nat \ {0}
    BY AggregatesAssumption, Zenon
  <1>2. /\ allocEnd \in Nat /\ sections \in SUBSET Extent /\ Canonical(sections)
        /\ windows \in [WindowClasses -> Window]
        /\ WindowFits(w, allocEnd) /\ WindowFits(v, allocEnd) /\ Apart(w, v)
        /\ Splits(Bytes(Spare(windows)), Gap(w), Gap(v))
        /\ Shares(used, Bytes(Spare(windows)), Bytes(sections), wasted, allocEnd)
        /\ ~tracked => sections = {}
    BY ReservingFacts, Zenon
  <1>3. /\ ~HasRoom(w, size) /\ w.end = allocEnd /\ Aggregated(w.cursor, size, ws, end)
        /\ sections' = sections /\ wasted' = wasted
    BY Zenon DEF ExtendWindow
  <1> HIDE DEF used
  <1>4. /\ end \in Nat /\ allocEnd <= end /\ allocEnd + size <= end /\ allocEnd + Block <= end
        /\ end = allocEnd + size \/ end = allocEnd + Block
    BY <1>1, <1>2 DEF MaxOf
  <1> HIDE DEF end
  <1>5. /\ WindowFits(new, end) /\ WindowFits(v, end) /\ Apart(new, v) /\ w.cursor \in Nat /\ w.cursor <= allocEnd
        /\ Splits(w.cursor .. (end - 1), out, Gap(new))
    <2>0. /\ WindowFits(w, allocEnd) /\ WindowFits(v, allocEnd) /\ Apart(w, v) /\ ~HasRoom(w, size)
          /\ w.end = allocEnd /\ allocEnd \in Nat /\ size \in Nat
      BY <1>1, <1>2, <1>3, Zenon
    <2>1. /\ w \in Window /\ w.start \in Nat /\ w.cursor \in Nat /\ w.end \in Nat /\ w.end - w.cursor < size
          /\ w.start <= w.cursor /\ w.cursor <= w.end /\ w.end - w.cursor < Block
          /\ w.start < w.cursor \/ (w.start = 0 /\ w.end = 0)
      <3>1. /\ w \in Window /\ w.start \in Nat /\ w.cursor \in Nat /\ w.end \in Nat
            /\ w.start <= w.cursor /\ w.cursor <= w.end /\ w.end - w.cursor < Block
            /\ w.start < w.cursor \/ (w.start = 0 /\ w.end = 0)
        BY <2>0, FitsNumbers, Zenon
      <3>2. w.end - w.cursor < size
        BY <2>0, <3>1, SMTT(30) DEF HasRoom
      <3> QED BY <3>1, <3>2, Zenon
    <2>2. new \in Window /\ new.start = w.start /\ new.end = end /\ new.cursor = w.cursor + size
      BY <2>0, <1>4, <2>1, SMTT(30) DEF Window
    <2>3. /\ v.start \in Nat /\ v.cursor \in Nat /\ v.end \in Nat /\ v.end <= allocEnd
          /\ v.start < v.cursor \/ (v.start = 0 /\ v.end = 0)
          /\ v.cursor <= v.end /\ (w.end <= v.start \/ v.end <= w.start)
      BY <2>0, FitsNumbers, Zenon DEF Apart
    <2> HIDE DEF new, w, v
    <2>4. v.end <= w.start
      BY <1>2, <1>3, <2>1, <2>3
    <2>5. WindowFits(new, end)
      BY <1>1, <1>2, <1>3, <1>4, <2>1, <2>2 DEF WindowFits
    <2>6. WindowFits(v, end)
      BY <1>2, <1>4, <2>3 DEF WindowFits
    <2>7. Apart(new, v)
      BY <2>2, <2>4, Zenon DEF Apart
    <2>8. w.cursor .. (end - 1) = out \cup Gap(new) /\ out \cap Gap(new) = {}
      BY <1>1, <1>2, <1>3, <1>4, <2>1, <2>2, SMTT(30) DEF Gap
    <2>9. w.cursor <= allocEnd
      BY <1>3, <2>1
    <2> QED BY <2>1, <2>5, <2>6, <2>7, <2>8, <2>9, Zenon DEF Splits, Clear
  <1>6. Splits(Bytes(Spare(windows)), Gap(v), w.cursor .. (allocEnd - 1))
    BY <1>2, <1>3, Zenon DEF Splits, Clear, Gap
  <1> HIDE DEF w, v, new, out
  <1>7. WindowsFit(ws, end) /\ Splits(Bytes(Spare(ws)), Gap(new), Gap(v))
    BY <1>2, <1>4, <1>5, WindowsUpdate, Zenon DEF v
  <1> HIDE DEF ws
  <1>8. /\ Shares(used \cup (w.cursor .. (end - 1)), Gap(v), Bytes(sections), wasted, end)
        /\ Clear(used, w.cursor .. (end - 1))
    BY <1>2, <1>4, <1>5, <1>6, SharesOver, Zenon
  <1>9. Shares(used \cup out, Bytes(Spare(ws)), Bytes(sections), wasted, end) /\ Clear(used, out)
    <2>1. PICK joined : joined = w.cursor .. (end - 1)
      BY Zenon
    <2>2. Splits(joined, out, Gap(new)) /\ Splits(Bytes(Spare(ws)), Gap(new), Gap(v))
      BY <1>5, <1>7, <2>1, Zenon
    <2>3. Shares(used \cup joined, Gap(v), Bytes(sections), wasted, end) /\ Clear(used, joined)
      BY <1>8, <2>1, Zenon
    <2> QED BY <2>2, <2>3, SharesSplit, Zenon
  <1>10. Layout(used \cup out, ws, sections', wasted', end) /\ (~tracked => sections' = {})
    BY <1>2, <1>3, <1>4, <1>7, <1>9, Zenon DEF Layout
  <1> QED BY <1>3, <1>4, <1>5, <1>9, <1>10, AggregatedStep, Zenon DEF used, out

(***************************************************************************)
(* Where an allocation at the end of the file begins: at the end, or below *)
(* the other window's spare, which is shorter than a block.                *)
(***************************************************************************)
LEMMA BaseOfEnd ==
    ASSUME AggregatesInv, NEW class \in WindowClasses
    PROVE  /\ Base(class) \in Nat /\ Base(class) <= allocEnd /\ allocEnd < Base(class) + Block
           /\ WindowsFit(Rest(class), allocEnd)
           /\ Rest(class) \in [WindowClasses -> Window]
           /\ Rest(class)[class] = windows[class]
           /\ Rest(class)[OtherClass(class)].end <= Base(class)
           /\ Splits(Bytes(Spare(windows)), Bytes(Spare(Rest(class))), Base(class) .. (allocEnd - 1))
  <1> DEFINE other == OtherClass(class)
             w     == windows[class]
             v     == windows[other]
  <1>1. /\ allocEnd \in Nat /\ windows \in [WindowClasses -> Window]
        /\ WindowsFit(windows, allocEnd)
        /\ WindowFits(w, allocEnd) /\ WindowFits(v, allocEnd) /\ Apart(w, v)
        /\ Splits(Bytes(Spare(windows)), Gap(w), Gap(v))
    BY ReservingFacts, Zenon
  <1>2. other \in WindowClasses /\ OtherClass(other) = class /\ other # class
    BY Zenon DEF OtherClass, WindowClasses
  <1>3. CASE Yields(v)
    <2>1. Base(class) = v.cursor /\ Rest(class) = [windows EXCEPT ![other] = NoWindow]
      BY <1>3, Zenon DEF Base, Rest
    <2>2. v.end = allocEnd /\ v.cursor \in Nat /\ v.cursor < allocEnd /\ allocEnd - v.cursor < Block
      BY <1>1, <1>3, Zenon DEF Yields, WindowFits, Window
    <2>3. v.cursor <= allocEnd /\ allocEnd < v.cursor + Block /\ 0 <= v.cursor
      BY <1>1, <2>2, AggregatesAssumption
    <2>4. /\ WindowFits(NoWindow, allocEnd) /\ NoWindow.end = 0 /\ NoWindow.start = 0
          /\ Gap(NoWindow) = {} /\ NoWindow \in Window
      BY <1>1, NoWindowFits, Zenon DEF WindowFits
    <2>5. Apart(NoWindow, w)
      BY <1>1, <2>4 DEF Apart, WindowFits, Window
    <2>6. windows[OtherClass(other)] = w
      BY <1>2, Zenon
    <2>7. WindowFits(windows[OtherClass(other)], allocEnd) /\ Apart(NoWindow, windows[OtherClass(other)])
      BY <1>1, <2>5, <2>6, Zenon
    <2>8. /\ WindowsFit(Rest(class), allocEnd)
          /\ Splits(Bytes(Spare(Rest(class))), Gap(NoWindow), Gap(w))
      <3> HIDE DEF other, w
      <3>1. /\ WindowsFit([windows EXCEPT ![other] = NoWindow], allocEnd)
            /\ Splits(Bytes(Spare([windows EXCEPT ![other] = NoWindow])), Gap(NoWindow), Gap(windows[OtherClass(other)]))
        BY <1>1, <1>2, <2>4, <2>7, WindowsUpdate, Zenon
      <3> QED BY <2>1, <2>6, <3>1, Zenon
    <2>9. Rest(class)[class] = w /\ Rest(class)[other] = NoWindow /\ Rest(class) \in [WindowClasses -> Window]
      BY <1>1, <1>2, <2>1, <2>4, Zenon
    <2>10. Splits(Bytes(Spare(windows)), Bytes(Spare(Rest(class))), v.cursor .. (allocEnd - 1))
      BY <1>1, <2>2, <2>4, <2>8, Zenon DEF Splits, Clear, Gap
    <2> QED BY <2>1, <2>2, <2>3, <2>4, <2>8, <2>9, <2>10, Zenon
  <1>4. CASE ~Yields(v)
    <2>1. Base(class) = allocEnd /\ Rest(class) = windows
      BY <1>4, Zenon DEF Base, Rest
    <2>2. v.end <= allocEnd
      BY <1>1, Zenon DEF WindowFits
    <2>3. allocEnd <= allocEnd /\ allocEnd < allocEnd + Block /\ allocEnd .. (allocEnd - 1) = {}
      BY <1>1, AggregatesAssumption
    <2>4. Splits(Bytes(Spare(windows)), Bytes(Spare(windows)), allocEnd .. (allocEnd - 1))
      BY <2>3, Zenon DEF Splits, Clear
    <2> QED BY <1>1, <2>1, <2>2, <2>3, <2>4, Zenon
  <1> QED BY <1>3, <1>4, Zenon

\* An allocation of a block or more is made at the end of the file.
LEMMA AppendLargeStep ==
    ASSUME AggregatesInv, NEW size \in Sizes, NEW class \in WindowClasses, AppendLarge(size, class)
    PROVE  AggregatesInv'
  <1> DEFINE base == Base(class)
             rest == Rest(class)
             end  == base + size
             used == Bytes(extents \cup fresh)
  <1>1. /\ size \in Nat /\ size >= Block /\ Aggregated(base, size, rest, end)
        /\ sections' = sections /\ wasted' = wasted /\ Block \in Nat
    BY AggregatesAssumption, Zenon DEF AppendLarge
  <1>2. /\ base \in Nat /\ base <= allocEnd /\ allocEnd < base + Block
        /\ WindowsFit(rest, allocEnd)
        /\ Splits(Bytes(Spare(windows)), Bytes(Spare(rest)), base .. (allocEnd - 1))
    BY BaseOfEnd, Zenon
  <1>3. /\ allocEnd \in Nat /\ sections \in SUBSET Extent /\ Canonical(sections)
        /\ Shares(used, Bytes(Spare(windows)), Bytes(sections), wasted, allocEnd)
        /\ ~tracked => sections = {}
    BY ReservingFacts, Zenon
  <1> HIDE DEF base, rest, used
  <1>4. end \in Nat /\ allocEnd <= end
    BY <1>1, <1>2, <1>3
  <1>5. base .. (base + size - 1) = base .. (end - 1)
    BY <1>1, <1>2
  <1> HIDE DEF end
  <1>6. WindowsFit(rest, end)
    BY <1>2, <1>3, <1>4, FitsHigher, Zenon
  <1>7. /\ Shares(used \cup (base .. (end - 1)), Bytes(Spare(rest)), Bytes(sections), wasted, end)
        /\ Clear(used, base .. (end - 1))
    BY <1>2, <1>3, <1>4, SharesOver, Zenon
  <1>8. /\ Layout(used \cup (base .. (base + size - 1)), rest, sections', wasted', end)
        /\ Clear(used, base .. (base + size - 1))
        /\ ~tracked => sections' = {}
    BY <1>1, <1>3, <1>4, <1>5, <1>6, <1>7, Zenon DEF Layout
  <1> QED BY <1>1, <1>2, <1>4, <1>8, AggregatedStep, Zenon DEF used

\* release_aggregate: the spare of a window that is replaced.
LEMMA AbandonedSpare ==
    ASSUME NEW w \in Window, AbandonSpare(Unused(w)), tracked \in BOOLEAN,
           sections \in SUBSET Extent, Canonical(sections), ~tracked => sections = {},
           Clear(Bytes(sections), wasted), Clear(Gap(w), Bytes(sections) \cup wasted)
    PROVE  /\ sections' \in SUBSET Extent /\ Canonical(sections')
           /\ ~tracked => sections' = {}
           /\ Given(Bytes(sections'), wasted', Bytes(sections), wasted, Gap(w))
  <1> DEFINE unused == Unused(w)
             kept   == {x \in unused : tracked /\ Admits(sections, ListThreshold, x)}
  <1>1. /\ sections' = IF kept = {} THEN sections ELSE Free(sections, CHOOSE x \in kept : TRUE)
        /\ wasted' = wasted \cup Bytes(unused \ kept)
    BY Zenon DEF AbandonSpare, Listed
  <1>2. /\ unused \in SUBSET Extent /\ Bytes(unused) = Gap(w)
        /\ \A x \in unused, y \in unused : x = y
        /\ kept \subseteq unused
    BY UnusedBytes, Zenon
  <1>3. kept # {} => tracked
    BY Zenon
  <1> HIDE DEF unused, kept
  <1>4. CASE kept = {}
    <2>1. sections' = sections /\ wasted' = wasted \cup Gap(w)
      BY <1>1, <1>2, <1>4, Zenon
    <2> QED BY <2>1, Zenon DEF Given, Clear
  <1>5. CASE kept # {}
    <2>1. PICK x : x = CHOOSE y \in kept : TRUE
      BY Zenon
    <2>2. x \in kept /\ x \in unused /\ x \in Extent
      BY <1>2, <1>5, <2>1, Zenon
    <2>3. unused = {x} /\ unused \ kept = {}
      BY <1>2, <2>2, Zenon
    <2>4. BytesOf(x) = Gap(w) /\ Bytes(unused \ kept) = {}
      BY <1>2, <2>3, SingletonBytes, Zenon DEF Bytes
    <2>5. BytesOf(x) \cap Bytes(sections) = {}
      BY <2>4, Zenon DEF Clear
    <2>6. /\ Free(sections, x) \subseteq Extent /\ Canonical(Free(sections, x))
          /\ Bytes(Free(sections, x)) = Bytes(sections) \cup BytesOf(x)
      BY <2>2, <2>5, FreePreservesList, Zenon
    <2>7. sections' = Free(sections, x) /\ wasted' = wasted
      BY <1>1, <1>5, <2>1, <2>4, Zenon
    <2> QED BY <1>3, <1>5, <2>4, <2>6, <2>7, Zenon DEF Given, Clear
  <1> QED BY <1>4, <1>5, Zenon

\* A smaller allocation opens a new window at the end of the file.
LEMMA OpenWindowStep ==
    ASSUME AggregatesInv, NEW size \in Sizes, NEW class \in WindowClasses, OpenWindow(size, class)
    PROVE  AggregatesInv'
  <1> DEFINE base == Base(class)
             rest == Rest(class)
             old  == windows[class]
             v    == rest[OtherClass(class)]
             end  == base + Block
             new  == [start |-> base, cursor |-> base + size, end |-> base + Block]
             ws   == [rest EXCEPT ![class] = new]
             used == Bytes(extents \cup fresh)
             out  == base .. (base + size - 1)
  <1>1. /\ size \in Nat \ {0} /\ size < Block /\ Aggregated(base, size, ws, end) /\ Block \in Nat
        /\ AbandonSpare(Unused(old))
    BY AggregatesAssumption, Zenon DEF OpenWindow
  <1>2. /\ base \in Nat /\ base <= allocEnd /\ allocEnd < base + Block
        /\ WindowsFit(rest, allocEnd) /\ rest \in [WindowClasses -> Window]
        /\ rest[class] = old /\ v.end <= base
        /\ Splits(Bytes(Spare(windows)), Bytes(Spare(rest)), base .. (allocEnd - 1))
    BY BaseOfEnd, Zenon
  <1>3. /\ allocEnd \in Nat /\ sections \in SUBSET Extent /\ Canonical(sections)
        /\ Shares(used, Bytes(Spare(windows)), Bytes(sections), wasted, allocEnd)
        /\ ~tracked => sections = {}
        /\ tracked \in BOOLEAN
    BY ReservingFacts, Zenon DEF AggregatesInv
  <1> HIDE DEF rest, used, base
  <1>4. /\ WindowFits(old, allocEnd) /\ WindowFits(v, allocEnd)
        /\ Splits(Bytes(Spare(rest)), Gap(old), Gap(v)) /\ old \in Window
    BY <1>2, <1>3, WindowsPair, Zenon DEF WindowFits
  <1>5. end \in Nat /\ allocEnd <= end
    <2>1. base \in Nat /\ Block \in Nat /\ allocEnd \in Nat /\ allocEnd < base + Block
      BY <1>1, <1>2, <1>3, Zenon
    <2> QED BY <2>1
  <1>6. /\ WindowFits(new, end) /\ WindowFits(v, end) /\ Apart(new, v)
        /\ Splits(base .. (end - 1), out, Gap(new))
    <2>1. new \in Window /\ new.start = base /\ new.cursor = base + size /\ new.end = end
      BY <1>1, <1>2, <1>5 DEF Window
    <2> HIDE DEF new, v
    <2>2. base \in Nat /\ size \in Nat \ {0} /\ size < Block /\ Block \in Nat /\ allocEnd \in Nat
      BY <1>1, <1>2, <1>3, Zenon
    <2>3. WindowFits(new, end)
      BY <2>1, <2>2, SMTT(30) DEF WindowFits
    <2>4. WindowFits(v, end)
      BY <1>4, <1>5, <2>2, FitsAbove, Zenon
    <2>5. Apart(new, v)
      BY <1>2, <2>1, Zenon DEF Apart
    <2>6. base .. (end - 1) = out \cup Gap(new) /\ out \cap Gap(new) = {}
      BY <2>1, <2>2, SMTT(30) DEF Gap
    <2> QED BY <2>3, <2>4, <2>5, <2>6, Zenon DEF Splits, Clear
  <1> HIDE DEF end, new, out
  <1>7. WindowsFit(ws, end) /\ Splits(Bytes(Spare(ws)), Gap(new), Gap(v))
    BY <1>2, <1>5, <1>6, WindowsUpdate, Zenon
  <1> HIDE DEF ws, v
  <1>8. PICK joined : joined = base .. (end - 1)
    BY Zenon
  <1>9. Shares(used \cup joined, Bytes(Spare(rest)), Bytes(sections), wasted, end) /\ Clear(used, joined)
    BY <1>2, <1>3, <1>5, <1>8, SharesOver, Zenon
  <1>10. Clear(Bytes(sections), wasted) /\ Clear(Gap(old), Bytes(sections) \cup wasted)
    BY <1>4, <1>9, Zenon DEF Shares, Clear, Splits
  <1>11. /\ sections' \in SUBSET Extent /\ Canonical(sections')
         /\ ~tracked => sections' = {}
         /\ Given(Bytes(sections'), wasted', Bytes(sections), wasted, Gap(old))
    <2> HIDE DEF old
    <2> QED BY <1>1, <1>3, <1>4, <1>10, AbandonedSpare, Zenon
  <1>12. Shares(used \cup joined, Gap(v), Bytes(sections'), wasted', end)
    BY <1>4, <1>9, <1>11, SharesAbandon, Zenon
  <1>13. Splits(joined, out, Gap(new))
    BY <1>6, <1>8, Zenon
  <1>14. Shares(used \cup out, Bytes(Spare(ws)), Bytes(sections'), wasted', end) /\ Clear(used, out)
    BY <1>7, <1>9, <1>12, <1>13, SharesSplit, Zenon
  <1>15. Layout(used \cup out, ws, sections', wasted', end)
    BY <1>5, <1>7, <1>11, <1>14, Zenon DEF Layout
  <1> QED BY <1>1, <1>2, <1>5, <1>11, <1>14, <1>15, AggregatedStep, Zenon DEF used, out

\* AggregateSpace::place.
LEMMA PlaceStep == AggregatesInv /\ Place => AggregatesInv'
  <1> SUFFICES ASSUME AggregatesInv, Place PROVE AggregatesInv'
    BY Zenon
  <1>1. /\ running /\ length < reach /\ length' = reach
        /\ tracked' = tracked /\ running' = running /\ windows' = windows /\ sections' = sections
        /\ allocEnd' = allocEnd /\ reach' = reach /\ extents' = extents /\ fresh' = fresh
        /\ wasted' = wasted /\ snapshot' = snapshot
    BY Zenon DEF Place
  <1>2. snapshot.eoa \in Nat /\ snapshot.eoa <= length /\ length \in Nat /\ reach \in Nat
    BY <1>1, Zenon DEF AggregatesInv, Revertible, Layout
  <1>3. snapshot.eoa <= reach
    BY <1>1, <1>2
  <1>4. Revertible'
    BY <1>1, <1>3, Zenon DEF AggregatesInv, Revertible
  <1> QED BY <1>1, <1>2, <1>4, Zenon DEF AggregatesInv

\* What holds of a state between commits.
LEMMA SettledStep ==
    ASSUME AggregatesInv, tracked' = tracked, running' = FALSE, length' \in Nat, reach' \in Nat,
           extents' \in SUBSET Extent, PairwiseDisjoint(extents'), fresh' = {},
           Layout(Bytes(extents'), windows', sections', wasted', allocEnd'),
           ~tracked => sections' = {},
           allocEnd' <= length', TailIsCut(windows', sections', allocEnd')
    PROVE  AggregatesInv'
  <1>1. extents' \cup fresh' = extents' /\ extents' \cap fresh' = {} /\ fresh' \in SUBSET Extent
    BY Zenon
  <1>2. Layout(Bytes(extents' \cup fresh'), windows', sections', wasted', allocEnd') /\ PairwiseDisjoint(extents' \cup fresh')
    BY <1>1, Zenon
  <1>3. Settled' /\ tracked \in BOOLEAN
    BY Zenon DEF Settled, AggregatesInv
  <1> QED BY <1>1, <1>2, <1>3, Zenon DEF AggregatesInv

\* rollback_commit.
LEMMA RollBackStep == AggregatesInv /\ RollBackWindows => AggregatesInv'
  <1> SUFFICES ASSUME AggregatesInv, RollBackWindows PROVE AggregatesInv'
    BY Zenon
  <1>1. PICK reached \in length .. MaxOf(length, reach) : length' = reached
    BY Zenon DEF RollBackWindows
  <1>2. /\ running /\ windows' = snapshot.windows /\ sections' = snapshot.regions
        /\ allocEnd' = snapshot.eoa /\ wasted' = snapshot.lost /\ fresh' = {} /\ running' = FALSE
        /\ reach' = 0 /\ tracked' = tracked /\ extents' = extents
    BY Zenon DEF RollBackWindows, Restored
  <1>3. /\ Revertible /\ extents \in SUBSET Extent /\ PairwiseDisjoint(extents) /\ length \in Nat /\ reach \in Nat
    BY <1>2, Zenon DEF AggregatesInv, PairwiseDisjoint
  <1>4. /\ Layout(Bytes(extents), snapshot.windows, snapshot.regions, snapshot.lost, snapshot.eoa)
        /\ ~tracked => snapshot.regions = {}
        /\ TailIsCut(snapshot.windows, snapshot.regions, snapshot.eoa)
        /\ snapshot.eoa <= length /\ snapshot.eoa \in Nat
    BY <1>3, Zenon DEF Revertible, Layout
  <1>5. length' \in Nat /\ snapshot.eoa <= length'
    BY <1>1, <1>3, <1>4
  <1>6. reach' \in Nat
    BY <1>2
  <1> QED BY <1>2, <1>3, <1>4, <1>5, <1>6, SettledStep, Zenon

\* A session that starts on the file: what the file does not use is nobody's.
LEMMA StartsAfresh ==
    ASSUME NEW used, NEW e \in Nat, used \subseteq 0 .. (e - 1)
    PROVE  /\ Layout(used, NoWindows, {}, (0 .. (e - 1)) \ used, e)
           /\ TailIsCut(NoWindows, {}, e)
  <1>1. WindowsFit(NoWindows, e) /\ Spare(NoWindows) = {}
    BY NoWindowsFit, Zenon
  <1>2. Bytes(Spare(NoWindows)) = {} /\ Bytes({}) = {}
    BY <1>1, Zenon DEF Bytes
  <1>3. Shares(used, {}, {}, (0 .. (e - 1)) \ used, e)
    BY Zenon DEF Shares
  <1> QED BY <1>1, <1>2, <1>3, Zenon DEF Layout, Canonical, TailIsCut

\* The bytes the file uses lie within its length, whatever the running commit wrote.
LEMMA ExtentsWithinLength ==
    ASSUME AggregatesInv
    PROVE  Bytes(extents) \subseteq 0 .. (length - 1)
  <1>0. ASSUME NEW e \in Nat, NEW f \in Nat, e <= f PROVE 0 .. (e - 1) \subseteq 0 .. (f - 1)
    BY <1>0
  <1>1. length \in Nat /\ running \in BOOLEAN
    BY Zenon DEF AggregatesInv
  <1>2. CASE running
    <2>1. /\ snapshot.eoa \in Nat /\ snapshot.eoa <= length
          /\ Bytes(extents) \subseteq 0 .. (snapshot.eoa - 1)
      BY <1>2, Zenon DEF AggregatesInv, Revertible, Layout, Shares
    <2> QED BY <1>1, <1>0, <2>1, Zenon
  <1>3. CASE ~running
    <2>1. Bytes(extents) \subseteq Bytes(extents \cup fresh)
      BY Zenon DEF Bytes
    <2>2. allocEnd \in Nat /\ allocEnd <= length /\ Bytes(extents \cup fresh) \subseteq 0 .. (allocEnd - 1)
      BY <1>3, Zenon DEF AggregatesInv, Settled, Layout, Shares
    <2> QED BY <1>1, <1>0, <2>1, <2>2, Zenon
  <1> QED BY <1>1, <1>2, <1>3, Zenon

\* After a death the next session finds the published extents, and the rest wasted.
LEMMA DieStep == AggregatesInv /\ DieWithWindows => AggregatesInv'
  <1> SUFFICES ASSUME AggregatesInv, DieWithWindows PROVE AggregatesInv'
    BY Zenon
  <1>1. /\ windows' = NoWindows /\ sections' = {} /\ allocEnd' = length
        /\ wasted' = (0 .. (length - 1)) \ Bytes(extents)
        /\ fresh' = {} /\ running' = FALSE /\ reach' = 0
        /\ tracked' = tracked /\ length' = length /\ extents' = extents
    BY Zenon DEF DieWithWindows, Listed
  <1>2. extents \in SUBSET Extent /\ PairwiseDisjoint(extents) /\ length \in Nat
    BY Zenon DEF AggregatesInv, PairwiseDisjoint
  <1>3. Bytes(extents) \subseteq 0 .. (length - 1)
    BY ExtentsWithinLength, Zenon
  <1>4. /\ Layout(Bytes(extents), NoWindows, {}, (0 .. (length - 1)) \ Bytes(extents), length)
        /\ TailIsCut(NoWindows, {}, length)
    BY <1>2, <1>3, StartsAfresh, Zenon
  <1>5. length <= length /\ 0 \in Nat
    BY <1>2
  <1>6. Layout(Bytes(extents'), windows', sections', wasted', allocEnd') /\ TailIsCut(windows', sections', allocEnd')
    BY <1>1, <1>4, Zenon
  <1> QED BY <1>1, <1>2, <1>5, <1>6, SettledStep, Zenon

(***************************************************************************)
(* Cutting the file.  The bytes above `next' are spares or nobody's: what  *)
(* remains below it has the owners it had.                                 *)
(***************************************************************************)
LEMMA SharesCut ==
    ASSUME NEW used, NEW spare, NEW free, NEW gone, NEW e \in Nat, NEW next \in Nat, next <= e,
           Shares(used, spare, free, gone, e),
           next .. (e - 1) \subseteq spare \cup gone, Clear(spare, 0 .. (next - 1))
    PROVE  Shares(used, {}, free, {x \in gone : x < next}, next)
  <1>1. \A x \in used \cup free \cup gone : x \in Int /\ 0 <= x /\ x < e
    BY DEF Shares
  <1>2. (used \cup free) \cap (next .. (e - 1)) = {}
    BY Zenon DEF Shares
  <1>3. \A x \in used \cup free : x < next
    BY <1>1, <1>2
  <1>4. used \cup free \cup {x \in gone : x < next} \subseteq 0 .. (next - 1)
    BY <1>1, <1>3
  <1>5. ASSUME NEW x \in 0 .. (next - 1) PROVE x \in used \cup free \cup {y \in gone : y < next}
    <2>1. x \in 0 .. (e - 1) /\ x < next
      BY <1>5
    <2> QED BY <2>1, <1>5, Zenon DEF Shares, Clear
  <1>6. used \cap free = {} /\ {x \in gone : x < next} \cap (used \cup free) = {}
    BY Zenon DEF Shares
  <1> QED BY <1>4, <1>5, <1>6, Zenon DEF Shares

\* The free region that ends the file goes with the end of the file.
LEMMA TrailingReleased ==
    ASSUME NEW used, NEW list \in SUBSET Extent, Canonical(list), NEW gone, NEW next \in Nat, NEW cut,
           Shares(used, {}, Bytes(list), gone, next), TrailingCut(list, next, cut)
    PROVE  /\ cut \in Nat /\ cut <= next
           /\ Layout(used, NoWindows, list \ TrailingRegion(list, next), {x \in gone : x < cut}, cut)
           /\ TailIsCut(NoWindows, list \ TrailingRegion(list, next), cut)
  <1> DEFINE rest == list \ TrailingRegion(list, next)
  <1>1. Bytes(list) \subseteq 0 .. (next - 1)
    BY Zenon DEF Shares
  <1>2. \A r \in list : r.end <= next
    BY <1>1, EndsBelow, Zenon
  <1>3. rest \in SUBSET Extent /\ Canonical(rest)
    BY Zenon DEF Canonical
  <1>4. CASE TrailingRegion(list, next) = {} /\ cut = next
    <2>1. rest = list /\ cut \in Nat
      BY <1>4, Zenon
    <2>2. cut <= next
      BY <1>4
    <2>3. Shares(used, {}, Bytes(rest), {x \in gone : x < cut}, cut)
      <3>1. next .. (next - 1) = {}
        OBVIOUS
      <3>2. next <= next
        OBVIOUS
      <3>3. next .. (next - 1) \subseteq {} \cup gone /\ Clear({}, 0 .. (next - 1))
        BY <3>1, Zenon DEF Clear
      <3>4. Shares(used, {}, Bytes(list), {x \in gone : x < next}, next)
        BY <3>2, <3>3, SharesCut, Zenon
      <3> QED BY <1>4, <2>1, <3>4, Zenon
    <2>4. \A r \in rest : r.end # cut
      BY <1>4, <2>1, Zenon DEF TrailingRegion
    <2> HIDE DEF rest
    <2>5. WindowsFit(NoWindows, cut) /\ Bytes(Spare(NoWindows)) = {} /\ Tail(NoWindows, cut) = cut
      BY <2>1, NoWindowsFit, Zenon DEF Bytes
    <2> QED BY <1>3, <2>1, <2>2, <2>3, <2>4, <2>5, Zenon DEF Layout, TailIsCut, rest
  <1>5. ASSUME NEW r \in TrailingRegion(list, next), cut = r.start
        PROVE  /\ cut \in Nat /\ cut <= next
               /\ Layout(used, NoWindows, rest, {x \in gone : x < cut}, cut)
               /\ TailIsCut(NoWindows, rest, cut)
    <2>1. r \in list /\ r.end = next /\ r.start \in Nat /\ r.start < next /\ r \in Extent
      BY <1>5 DEF TrailingRegion, Extent
    <2>2. TrailingRegion(list, next) = {r}
      BY <2>1 DEF TrailingRegion, Canonical, Extent
    <2>3. PairwiseDisjoint(list)
      BY DEF Canonical, PairwiseDisjoint, Overlaps, Extent
    <2>4. {r} \in SUBSET list /\ rest = list \ {r}
      BY <2>1, <2>2, Zenon
    <2> HIDE DEF rest
    <2>5. Bytes(rest) = Bytes(list) \ Bytes({r})
      BY <2>3, <2>4, DisjointRemoval, Zenon
    <2>6. Bytes({r}) = cut .. (next - 1)
      BY <1>5, <2>1, SingletonBytes, Zenon DEF BytesOf
    <2>7. Bytes({r}) \subseteq Bytes(list)
      BY <2>1, Zenon DEF Bytes
    <2>8. cut \in Nat /\ cut <= next
      BY <1>5, <2>1
    <2>9. Shares(used, {}, Bytes(rest), {x \in gone : x < cut}, cut)
      <3> DEFINE top == cut .. (next - 1)
      <3>1. Shares(used, top, Bytes(rest), gone, next)
        <4>1. Splits(Bytes(list), Bytes(rest), top)
          BY <2>5, <2>6, <2>7, Zenon DEF Splits, Clear
        <4> HIDE DEF top
        <4> QED BY <4>1, Zenon DEF Shares, Splits, Clear
      <3>2. top \subseteq top \cup gone
        BY Zenon
      <3>3. Clear(top, 0 .. (cut - 1))
        BY <2>8 DEF Clear
      <3> QED BY <2>8, <3>1, <3>2, <3>3, SharesCut, Zenon
    <2>10. \A q \in rest : q.end # cut
      BY <1>5, <2>1, <2>4 DEF Canonical, Extent
    <2>11. WindowsFit(NoWindows, cut) /\ Bytes(Spare(NoWindows)) = {} /\ Tail(NoWindows, cut) = cut
      BY <2>8, NoWindowsFit, Zenon DEF Bytes
    <2> QED BY <1>3, <2>8, <2>9, <2>10, <2>11, Zenon DEF Layout, TailIsCut
  <1> QED BY <1>4, <1>5, Zenon DEF TrailingCut

(***************************************************************************)
(* The spares that do not end the file go to the list, or to nobody.       *)
(***************************************************************************)
LEMMA InnerReleased ==
    ASSUME NEW used, NEW spare, NEW list \in SUBSET Extent, NEW gone, NEW e \in Nat, NEW top,
           NEW inner \in SUBSET Extent, PairwiseDisjoint(inner),
           Shares(used, spare, Bytes(list), gone, e), Splits(spare, Bytes(inner), top)
    PROVE  LET final == ReleaseBatch(list, ListThreshold, inner)
               given == Dropped(list, ListThreshold, inner)
           IN /\ final \in SUBSET Extent /\ Canonical(final)
              /\ given \in SUBSET Extent /\ Bytes(given) \subseteq Bytes(inner)
              /\ Shares(used, top, Bytes(final), gone \cup Bytes(given), e)
  <1> DEFINE final == ReleaseBatch(list, ListThreshold, inner)
             given == Dropped(list, ListThreshold, inner)
  <1>1. Bytes(list) \subseteq 0 .. (e - 1) /\ Bytes(inner) \subseteq 0 .. (e - 1)
    BY Zenon DEF Shares, Splits
  <1>2. EndBy(list, e) /\ EndBy(inner, e)
    BY <1>1, EndsBelow, Zenon DEF EndBy
  <1>4. ListThreshold \in Nat
    BY AggregatesAssumption, Zenon
  <1>5. /\ final \in SUBSET Extent /\ Canonical(final)
        /\ given \in SUBSET Extent /\ Bytes(given) \subseteq Bytes(inner)
        /\ Bytes(final) = Bytes(list) \cup (Bytes(inner) \ Bytes(given))
    <2>1. Releases(list, ListThreshold, inner)
      BY <1>2, <1>4, BatchReleases, Zenon
    <2> QED BY <2>1, Zenon DEF Releases
  <1> HIDE DEF final, given
  <1>6. Shares(used, top, Bytes(final), gone \cup Bytes(given), e)
    <2>1. PICK l, f, g, i : l = Bytes(list) /\ f = Bytes(final) /\ g = Bytes(given) /\ i = Bytes(inner)
      BY Zenon
    <2>2. g \subseteq i /\ f = l \cup (i \ g) /\ Shares(used, spare, l, gone, e) /\ Splits(spare, i, top)
      BY <1>5, <2>1, Zenon
    <2>3. Shares(used, top, f, gone \cup g, e)
      BY <2>2, Zenon DEF Shares, Splits, Clear
    <2> QED BY <2>1, <2>3, Zenon
  <1> QED BY <1>5, <1>6, Zenon DEF final, given

(***************************************************************************)
(* The whole cut: the returns and spares that end the file, then the       *)
(* dropped spares below them, then the free region that is left at the end.*)
(***************************************************************************)
LEMMA CutBelow ==
    ASSUME NEW used, NEW final \in SUBSET Extent, Canonical(final), NEW gone,
           NEW e \in Nat, NEW low \in Nat, NEW top \in Nat, top <= low, low <= e,
           Shares(used, low .. (e - 1), Bytes(final), gone, e),
           NEW given \in SUBSET Extent, Bytes(given) \subseteq gone, Clear(Bytes(given), top .. (e - 1)),
           top .. (e - 1) \subseteq (low .. (e - 1)) \cup gone,
           NEW next, NEW cut, DroppedCut(given, top, next), TrailingCut(final, next, cut)
    PROVE  /\ cut \in Nat /\ cut <= e
           /\ Layout(used, NoWindows, final \ TrailingRegion(final, next), {x \in gone : x < cut}, cut)
           /\ TailIsCut(NoWindows, final \ TrailingRegion(final, next), cut)
  <1>1. gone \subseteq 0 .. (e - 1)
    BY Zenon DEF Shares
  <1>2. Bytes(given) \subseteq 0 .. (top - 1)
    <2> SUFFICES ASSUME NEW x \in Bytes(given) PROVE x \in 0 .. (top - 1)
      BY Zenon
    <2>1. x \in 0 .. (e - 1) /\ x \notin top .. (e - 1)
      BY <1>1, Zenon DEF Clear
    <2> QED BY <2>1
  <1>3. \A d \in given : d.end <= top
    BY <1>2, EndsBelow, Zenon
  <1>4. next \in Nat /\ next <= top /\ next .. (top - 1) \subseteq Bytes(given)
    BY <1>3, DroppedCutBounds, Zenon
  <1>5. next .. (e - 1) \subseteq (low .. (e - 1)) \cup gone
    <2>1. next .. (e - 1) = (next .. (top - 1)) \cup (top .. (e - 1))
      <3>1. next \in Nat /\ next <= top /\ top <= e
        BY <1>4
      <3> QED BY <3>1
    <2> QED BY <1>4, <2>1, Zenon
  <1>6. Clear(low .. (e - 1), 0 .. (next - 1)) /\ next <= e
    <2>1. next \in Nat /\ next <= low
      BY <1>4
    <2> QED BY <2>1 DEF Clear
  <1> DEFINE kept == {x \in gone : x < next}
  <1>7. Shares(used, {}, Bytes(final), kept, next)
    <2>1. PICK spare : spare = low .. (e - 1)
      BY Zenon
    <2>2. Shares(used, spare, Bytes(final), gone, e) /\ next .. (e - 1) \subseteq spare \cup gone /\ Clear(spare, 0 .. (next - 1))
      BY <1>5, <1>6, <2>1, Zenon
    <2>3. next \in Nat
      BY <1>4, Zenon
    <2> QED BY <1>6, <2>2, <2>3, SharesCut, Zenon
  <1>8. next \in Nat
    BY <1>4, Zenon
  <1> HIDE DEF kept
  <1>9. /\ cut \in Nat /\ cut <= next
        /\ Layout(used, NoWindows, final \ TrailingRegion(final, next), {x \in kept : x < cut}, cut)
        /\ TailIsCut(NoWindows, final \ TrailingRegion(final, next), cut)
    BY <1>7, <1>8, TrailingReleased, Zenon
  <1>10. {x \in kept : x < cut} = {x \in gone : x < cut}
    <2>1. ASSUME NEW x \in gone, x < cut PROVE x < next
      <3>1. x \in 0 .. (e - 1) /\ cut \in Nat /\ cut <= next
        BY <1>1, <1>9, Zenon
      <3> QED BY <2>1, <3>1, <1>8
    <2> QED BY <2>1, Zenon DEF kept
  <1>11. cut <= e
    <2>1. cut \in Nat /\ next \in Nat /\ cut <= next /\ next <= e
      BY <1>6, <1>8, <1>9, Zenon
    <2> QED BY <2>1
  <1> QED BY <1>9, <1>10, <1>11, Zenon

\* Returns leave the file: a part is free, the rest nobody's.
LEMMA SharesReturn ==
    ASSUME NEW all, NEW rest, NEW batch, NEW spare, NEW free, NEW gone, NEW e,
           NEW admitted, NEW dropped, NEW post,
           Shares(all, spare, free, gone, e), Splits(all, rest, batch),
           Splits(batch, admitted, dropped), Splits(post, free, admitted)
    PROVE  Shares(rest, spare, post, gone \cup dropped, e)
  BY Zenon DEF Shares, Splits, Clear

(***************************************************************************)
(* What a commit returns leaves the file; the admitted part is free and    *)
(* the dropped part nobody's.                                              *)
(***************************************************************************)
LEMMA ReturnedLayout ==
    ASSUME AggregatesInv, NEW batch \in SUBSET extents
    PROVE  LET post    == ReleaseBatch(sections, ListThreshold, batch)
               dropped == Dropped(sections, ListThreshold, batch)
               rest    == (extents \ batch) \cup fresh
           IN /\ rest \in SUBSET Extent /\ PairwiseDisjoint(rest)
              /\ Layout(Bytes(rest), windows, post, wasted \cup Bytes(dropped), allocEnd)
              /\ Layout(Bytes(rest), windows, sections, wasted \cup Bytes(batch), allocEnd)
              /\ dropped \in SUBSET Extent /\ EndBy(dropped, allocEnd)
  <1> DEFINE post    == ReleaseBatch(sections, ListThreshold, batch)
             dropped == Dropped(sections, ListThreshold, batch)
             all     == extents \cup fresh
             rest    == (extents \ batch) \cup fresh
  <1>1. /\ sections \in SUBSET Extent /\ Canonical(sections) /\ allocEnd \in Nat
        /\ WindowsFit(windows, allocEnd)
        /\ all \in SUBSET Extent /\ PairwiseDisjoint(all) /\ extents \cap fresh = {}
        /\ Shares(Bytes(all), Bytes(Spare(windows)), Bytes(sections), wasted, allocEnd)
        /\ extents \in SUBSET Extent
    BY Zenon DEF AggregatesInv, Layout
  <1>2. rest = all \ batch /\ batch \in SUBSET all /\ batch \in SUBSET Extent
    BY <1>1, Zenon
  <1> HIDE DEF all, rest
  <1>3. /\ Bytes(all \ batch) = Bytes(all) \ Bytes(batch)
        /\ Bytes(batch) \subseteq Bytes(all)
        /\ PairwiseDisjoint(all \ batch) /\ PairwiseDisjoint(batch)
    BY <1>1, <1>2, DisjointRemoval, Zenon
  <1>4. Bytes(sections) \subseteq 0 .. (allocEnd - 1) /\ Bytes(batch) \subseteq 0 .. (allocEnd - 1)
    BY <1>1, <1>3, Zenon DEF Shares
  <1>5. EndBy(sections, allocEnd) /\ EndBy(batch, allocEnd)
    BY <1>1, <1>2, <1>4, EndsBelow, Zenon DEF EndBy
  <1>6. Releases(sections, ListThreshold, batch)
    BY <1>1, <1>2, <1>3, <1>5, AggregatesAssumption, BatchReleases, Zenon
  <1>7. /\ post \in SUBSET Extent /\ Canonical(post)
        /\ dropped \subseteq batch
        /\ Bytes(dropped) \subseteq Bytes(batch)
        /\ Bytes(post) = Bytes(sections) \cup (Bytes(batch) \ Bytes(dropped))
    BY <1>6, Zenon DEF Releases
  <1> HIDE DEF post, dropped
  <1>8. dropped \in SUBSET Extent /\ EndBy(dropped, allocEnd)
    BY <1>2, <1>5, <1>7, Zenon DEF EndBy
  <1>9. Splits(Bytes(all), Bytes(rest), Bytes(batch))
    BY <1>2, <1>3, Zenon DEF Splits, Clear
  <1>10. Shares(Bytes(rest), Bytes(Spare(windows)), Bytes(sections), wasted \cup Bytes(batch), allocEnd)
    BY <1>1, <1>9, Zenon DEF Shares, Splits, Clear
  <1>11. Shares(Bytes(rest), Bytes(Spare(windows)), Bytes(post), wasted \cup Bytes(dropped), allocEnd)
    <2>1. Splits(Bytes(batch), Bytes(batch) \ Bytes(dropped), Bytes(dropped))
      BY <1>7, Zenon DEF Splits, Clear
    <2>2. Splits(Bytes(post), Bytes(sections), Bytes(batch) \ Bytes(dropped))
      BY <1>1, <1>3, <1>7, Zenon DEF Splits, Clear, Shares
    <2>3. PICK b, d : b = Bytes(batch) \ Bytes(dropped) /\ d = Bytes(dropped)
      BY Zenon
    <2>4. Splits(Bytes(batch), b, d) /\ Splits(Bytes(post), Bytes(sections), b)
      BY <2>1, <2>2, <2>3, Zenon
    <2>5. Shares(Bytes(rest), Bytes(Spare(windows)), Bytes(post), wasted \cup d, allocEnd)
      BY <1>1, <1>9, <2>4, SharesReturn, Zenon
    <2> QED BY <2>3, <2>5, Zenon
  <1> QED BY <1>1, <1>2, <1>3, <1>7, <1>8, <1>10, <1>11, Zenon DEF Layout, post, dropped, rest

\* Both spares that may end the file, one below the other.
LEMMA SplitsTwice ==
    ASSUME NEW a, NEW b, NEW c, NEW e \in Nat, NEW trail \in Nat, NEW low \in Nat, low <= trail, trail <= e,
           Splits(a, b, trail .. (e - 1)), Splits(b, c, low .. (trail - 1))
    PROVE  Splits(a, c, low .. (e - 1))
  <1>1. low .. (e - 1) = (low .. (trail - 1)) \cup (trail .. (e - 1))
    OBVIOUS
  <1> QED BY <1>1, Zenon DEF Splits, Clear

(***************************************************************************)
(* AggregateSpace::release_freed, when it gives the windows up.            *)
(***************************************************************************)
LEMMA CuttingKeepsLayout ==
    ASSUME NEW used, NEW post, NEW dropped \in SUBSET Extent, EndBy(dropped, allocEnd),
           Layout(used, windows, post, wasted \cup Bytes(dropped), allocEnd),
           ReleaseCutting(post, dropped)
    PROVE  /\ allocEnd' \in Nat /\ allocEnd' <= allocEnd
           /\ Layout(used, windows', sections', wasted', allocEnd')
           /\ TailIsCut(windows', sections', allocEnd')
  <1> DEFINE trail == Tail(windows, allocEnd)
             once  == ReleaseTail(windows, allocEnd)
             low   == Tail(once, trail)
             twice == ReleaseTail(once, trail)
             inner == Spare(twice)
             gone  == wasted \cup Bytes(dropped)
             spare == Bytes(Spare(windows))
  <1>1. /\ allocEnd \in Nat /\ post \in SUBSET Extent /\ WindowsFit(windows, allocEnd)
        /\ Shares(used, spare, Bytes(post), gone, allocEnd)
    BY Zenon DEF Layout
  <1> DEFINE final == ReleaseBatch(post, ListThreshold, inner)
             given == Dropped(post, ListThreshold, inner)
  <1>2. /\ windows' = NoWindows
        /\ \E mid, top, next, cut :
             /\ DroppedCut(dropped, allocEnd, mid)
             /\ top \in {mid, low} /\ top <= mid /\ top <= low
             /\ DroppedCut(given, top, next)
             /\ TrailingCut(final, next, cut)
             /\ sections' = final \ TrailingRegion(final, next)
             /\ allocEnd' = cut
             /\ wasted' = {x \in gone \cup Bytes(given) : x < cut}
    <2>1. PICK f \in {final}, g \in {given}, mid \in {allocEnd} \cup {d.start : d \in dropped} :
            /\ DroppedCut(dropped, allocEnd, mid)
            /\ \E top \in {mid, low} :
                 /\ top <= mid /\ top <= low
                 /\ \E next \in {top} \cup {d.start : d \in g} :
                      /\ DroppedCut(g, top, next)
                      /\ \E cut \in {next} \cup {r.start : r \in f} :
                           /\ TrailingCut(f, next, cut)
                           /\ sections' = f \ TrailingRegion(f, next)
                           /\ allocEnd' = cut
                           /\ wasted' = Listed({x \in gone \cup Bytes(g) : x < cut})
      BY Zenon DEF ReleaseCutting
    <2>2. windows' = NoWindows /\ f = final /\ g = given
      BY <2>1, Zenon DEF ReleaseCutting
    <2> HIDE DEF final, given, low, gone
    <2>3. PICK top \in {mid, low} :
            /\ top <= mid /\ top <= low
            /\ \E next \in {top} \cup {d.start : d \in g} :
                 /\ DroppedCut(g, top, next)
                 /\ \E cut \in {next} \cup {r.start : r \in f} :
                      /\ TrailingCut(f, next, cut)
                      /\ sections' = f \ TrailingRegion(f, next)
                      /\ allocEnd' = cut
                      /\ wasted' = Listed({x \in gone \cup Bytes(g) : x < cut})
      BY <2>1, Zenon
    <2>4. PICK next, cut :
            /\ DroppedCut(g, top, next)
            /\ TrailingCut(f, next, cut)
            /\ sections' = f \ TrailingRegion(f, next)
            /\ allocEnd' = cut
            /\ wasted' = Listed({x \in gone \cup Bytes(g) : x < cut})
      BY <2>3, Zenon
    <2>5. wasted' = {x \in gone \cup Bytes(given) : x < cut}
      BY <2>2, <2>4, Zenon DEF Listed
    <2>6. /\ DroppedCut(given, top, next) /\ TrailingCut(final, next, cut)
          /\ sections' = final \ TrailingRegion(final, next)
      BY <2>2, <2>4, Zenon
    <2>7. /\ DroppedCut(dropped, allocEnd, mid)
          /\ top \in {mid, low} /\ top <= mid /\ top <= low /\ allocEnd' = cut
      BY <2>1, <2>3, <2>4, Zenon
    <2> QED BY <2>2, <2>5, <2>6, <2>7, Zenon
  <1> HIDE DEF trail, once, low, twice, inner, gone, spare, final, given
  <1>3. /\ trail \in Nat /\ trail <= allocEnd /\ WindowsFit(once, trail)
        /\ Splits(spare, Bytes(Spare(once)), trail .. (allocEnd - 1))
    BY <1>1, TailReleased, Zenon DEF trail, once, spare
  <1>4. /\ low \in Nat /\ low <= trail /\ WindowsFit(twice, low)
        /\ Splits(Bytes(Spare(once)), Bytes(inner), low .. (trail - 1))
    BY <1>3, TailReleased, Zenon DEF low, twice, inner
  <1>5. Splits(spare, Bytes(inner), low .. (allocEnd - 1))
    BY <1>1, <1>3, <1>4, SplitsTwice, Zenon
  <1>6. inner \in SUBSET Extent /\ PairwiseDisjoint(inner)
    BY <1>4, SpareBytes, Zenon DEF inner
  <1>7. PICK above : above = low .. (allocEnd - 1)
    BY Zenon
  <1>8. /\ final \in SUBSET Extent /\ Canonical(final)
        /\ given \in SUBSET Extent /\ Bytes(given) \subseteq Bytes(inner)
        /\ Shares(used, above, Bytes(final), gone \cup Bytes(given), allocEnd)
    <2>1. Splits(spare, Bytes(inner), above)
      BY <1>5, <1>7, Zenon
    <2> QED BY <1>1, <1>6, <2>1, InnerReleased, Zenon DEF final, given
  <1>9. PICK mid, top, next, cut :
             /\ DroppedCut(dropped, allocEnd, mid)
             /\ top \in {mid, low} /\ top <= mid /\ top <= low
             /\ DroppedCut(given, top, next)
             /\ TrailingCut(final, next, cut)
             /\ sections' = final \ TrailingRegion(final, next)
             /\ allocEnd' = cut
             /\ wasted' = {x \in gone \cup Bytes(given) : x < cut}
    BY <1>2, Zenon
  <1>10. mid \in Nat /\ mid <= allocEnd /\ mid .. (allocEnd - 1) \subseteq Bytes(dropped)
    BY <1>1, <1>9, DroppedCutBounds, Zenon DEF EndBy
  <1>11. top \in Nat /\ top <= low /\ low <= allocEnd
    <2>1. low \in Nat /\ trail \in Nat /\ allocEnd \in Nat /\ low <= trail /\ trail <= allocEnd
      BY <1>1, <1>3, <1>4, Zenon
    <2>2. low <= allocEnd
      BY <2>1
    <2>3. top \in Nat /\ top <= low
      BY <1>9, <1>10, <2>1, Zenon
    <2> QED BY <2>2, <2>3, Zenon
  <1> DEFINE waste == gone \cup Bytes(given)
  <1>12. top .. (allocEnd - 1) \subseteq above \cup gone
    <2>1. CASE top = low
      BY <1>7, <2>1, Zenon
    <2>2. CASE top = mid
      BY <1>10, <2>2, Zenon DEF gone
    <2> QED BY <1>9, <2>1, <2>2, Zenon
  <1>13. Clear(Bytes(given), top .. (allocEnd - 1))
    <2>1. Clear(Bytes(inner), above) /\ Clear(Bytes(inner), gone)
      BY <1>1, <1>5, <1>7, Zenon DEF Splits, Shares, Clear
    <2> QED BY <1>8, <1>12, <2>1, Zenon DEF Clear
  <1>14. /\ Shares(used, low .. (allocEnd - 1), Bytes(final), waste, allocEnd)
         /\ Bytes(given) \subseteq waste
         /\ top .. (allocEnd - 1) \subseteq (low .. (allocEnd - 1)) \cup waste
    BY <1>7, <1>8, <1>12, Zenon
  <1> HIDE DEF waste
  <1>15. /\ cut \in Nat /\ cut <= allocEnd
         /\ Layout(used, NoWindows, final \ TrailingRegion(final, next), {x \in waste : x < cut}, cut)
         /\ TailIsCut(NoWindows, final \ TrailingRegion(final, next), cut)
    BY <1>1, <1>4, <1>8, <1>9, <1>11, <1>13, <1>14, CutBelow, Zenon
  <1> QED BY <1>2, <1>9, <1>15, Zenon DEF waste

\* The publication of a commit.
LEMMA PublishWindowsStep ==
    ASSUME AggregatesInv, NEW batch \in SUBSET extents, PublishWindows(batch)
    PROVE  AggregatesInv'
  <1> DEFINE post    == ReleaseBatch(sections, ListThreshold, batch)
             dropped == Dropped(sections, ListThreshold, batch)
             rest    == (extents \ batch) \cup fresh
  <1>1. /\ running /\ reach <= length
        /\ length' = IF allocEnd' < length THEN allocEnd' ELSE length
        /\ extents' = rest /\ fresh' = {} /\ running' = FALSE /\ reach' = 0 /\ tracked' = tracked
    BY Zenon DEF PublishWindows
  <1>2. /\ rest \in SUBSET Extent /\ PairwiseDisjoint(rest)
        /\ Layout(Bytes(rest), windows, post, wasted \cup Bytes(dropped), allocEnd)
        /\ Layout(Bytes(rest), windows, sections, wasted \cup Bytes(batch), allocEnd)
        /\ dropped \in SUBSET Extent /\ EndBy(dropped, allocEnd)
    BY ReturnedLayout, Zenon
  <1>3. /\ tracked \in BOOLEAN /\ length \in Nat /\ reach \in Nat /\ allocEnd \in Nat
        /\ ~tracked => sections = {}
        /\ snapshot.eoa \in Nat /\ snapshot.eoa <= length /\ allocEnd <= MaxOf(snapshot.eoa, reach)
    BY <1>1, Zenon DEF AggregatesInv, Layout, Revertible
  <1>4. allocEnd <= length
    BY <1>1, <1>3 DEF MaxOf
  <1> HIDE DEF rest
  <1>5. /\ allocEnd' \in Nat /\ allocEnd' <= allocEnd
        /\ Layout(Bytes(rest), windows', sections', wasted', allocEnd')
        /\ TailIsCut(windows', sections', allocEnd')
        /\ ~tracked => sections' = {}
    <2>0. allocEnd <= allocEnd
      BY <1>3
    <2>1. CASE ~tracked
      <3>1. wasted' = wasted \cup Bytes(batch) /\ sections' = sections /\ windows' = windows /\ allocEnd' = allocEnd
        BY <2>1, Zenon DEF PublishWindows, ReleaseNothing, Listed
      <3>2. TailIsCut(windows', sections', allocEnd')
        BY <1>3, <2>1, <3>1, Zenon DEF TailIsCut
      <3> QED BY <1>2, <1>3, <2>0, <2>1, <3>1, <3>2, Zenon
    <2>2. CASE tracked /\ ReleaseKeeping(post, dropped)
      <3>1. /\ sections' = post /\ wasted' = wasted \cup Bytes(dropped)
            /\ windows' = windows /\ allocEnd' = allocEnd
            /\ \A r \in post : r.end # Tail(windows, allocEnd)
        BY <2>2, Zenon DEF ReleaseKeeping, Retains, Listed
      <3>2. TailIsCut(windows', sections', allocEnd')
        BY <3>1, Zenon DEF TailIsCut
      <3> QED BY <1>2, <1>3, <2>0, <2>2, <3>1, <3>2, Zenon
    <2>3. CASE tracked /\ ReleaseCutting(post, dropped)
      <3> HIDE DEF post, dropped
      <3> QED BY <1>2, <2>3, CuttingKeepsLayout, Zenon
    <2>4. tracked => ReleaseKeeping(post, dropped) \/ ReleaseCutting(post, dropped)
      BY Zenon DEF PublishWindows
    <2> QED BY <1>3, <2>1, <2>2, <2>3, <2>4, Zenon
  <1>6. length' \in Nat /\ allocEnd' <= length' /\ reach' \in Nat
    BY <1>1, <1>3, <1>4, <1>5
  <1>7. Layout(Bytes(extents'), windows', sections', wasted', allocEnd') /\ extents' \in SUBSET Extent /\ PairwiseDisjoint(extents')
    BY <1>1, <1>2, <1>5, Zenon
  <1> QED BY <1>1, <1>5, <1>6, <1>7, SettledStep, Zenon

\* finalize_aggregates: whatever is cut, the file keeps the bytes it uses.
LEMMA CloseStep == AggregatesInv /\ CloseWindows => AggregatesInv'
  <1> SUFFICES ASSUME AggregatesInv, CloseWindows PROVE AggregatesInv'
    BY Zenon
  <1> DEFINE trail == Tail(windows, length)
             once  == ReleaseTail(windows, length)
             inner == Spare(once)
             final == ReleaseBatch(sections, ListThreshold, inner)
             given == Dropped(sections, ListThreshold, inner)
             gone  == wasted \cup (allocEnd .. (length - 1))
             used  == Bytes(extents)
             spare == Bytes(Spare(windows))
  <1>1. /\ ~running /\ fresh = {} /\ allocEnd \in Nat /\ length \in Nat /\ reach \in Nat /\ allocEnd <= length
        /\ sections \in SUBSET Extent /\ WindowsFit(windows, allocEnd) /\ extents \in SUBSET Extent
        /\ PairwiseDisjoint(extents) /\ tracked \in BOOLEAN
        /\ Shares(used, spare, Bytes(sections), wasted, allocEnd)
    <2>1. ~running /\ Settled
      BY Zenon DEF CloseWindows, AggregatesInv
    <2>2. extents \cup fresh = extents /\ fresh = {} /\ allocEnd <= length
      BY <2>1, Zenon DEF Settled
    <2> QED BY <2>1, <2>2, Zenon DEF AggregatesInv, Layout
  <1>2. Synchronized = length
    BY <1>1 DEF Synchronized, MaxOf
  <1>3. /\ windows' = NoWindows /\ sections' = {} /\ tracked' = tracked /\ running' = running
        /\ reach' = reach /\ extents' = extents /\ fresh' = fresh
        /\ \E next, cut :
             /\ IF tracked THEN DroppedCut(given, trail, next) ELSE next = trail
             /\ IF tracked THEN TrailingCut(final, next, cut) ELSE cut = next
             /\ allocEnd' = cut /\ length' = cut
             /\ wasted' = Listed((0 .. (cut - 1)) \ used)
    <2>1. PICK next \in {trail} \cup {d.start : d \in given} :
            /\ IF tracked THEN DroppedCut(given, trail, next) ELSE next = trail
            /\ \E cut \in {next} \cup {r.start : r \in final} :
                 /\ IF tracked THEN TrailingCut(final, next, cut) ELSE cut = next
                 /\ allocEnd' = cut /\ length' = cut
                 /\ wasted' = Listed((0 .. (cut - 1)) \ used)
      BY <1>2, Zenon DEF CloseWindows
    <2>2. /\ windows' = NoWindows /\ sections' = {} /\ tracked' = tracked /\ running' = running
          /\ reach' = reach /\ extents' = extents /\ fresh' = fresh
      BY Zenon DEF CloseWindows
    <2> HIDE DEF trail, final, given, used
    <2> QED BY <2>1, <2>2, Zenon
  <1> HIDE DEF trail, once, inner, final, given, gone, used, spare
  <1>4. PICK next, cut :
             /\ IF tracked THEN DroppedCut(given, trail, next) ELSE next = trail
             /\ IF tracked THEN TrailingCut(final, next, cut) ELSE cut = next
             /\ allocEnd' = cut /\ length' = cut
             /\ wasted' = (0 .. (cut - 1)) \ used
    BY <1>3, Zenon DEF Listed
  <1>5. Shares(used, spare, Bytes(sections), gone, length) /\ WindowsFit(windows, length)
    BY <1>1, SharesGrow, FitsHigher, Zenon DEF gone
  <1>6. /\ trail \in Nat /\ trail <= length /\ WindowsFit(once, trail)
        /\ Splits(spare, Bytes(inner), trail .. (length - 1))
    BY <1>1, <1>5, TailReleased, Zenon DEF trail, once, spare, inner
  <1>7. inner \in SUBSET Extent /\ PairwiseDisjoint(inner)
    BY <1>6, SpareBytes, Zenon DEF inner
  <1>8. /\ final \in SUBSET Extent /\ Canonical(final)
        /\ given \in SUBSET Extent /\ Bytes(given) \subseteq Bytes(inner)
        /\ Shares(used, trail .. (length - 1), Bytes(final), gone \cup Bytes(given), length)
    <2>1. PICK above : above = trail .. (length - 1)
      BY Zenon
    <2>2. Splits(spare, Bytes(inner), above)
      BY <1>6, <2>1, Zenon
    <2>3. /\ final \in SUBSET Extent /\ Canonical(final)
          /\ given \in SUBSET Extent /\ Bytes(given) \subseteq Bytes(inner)
          /\ Shares(used, above, Bytes(final), gone \cup Bytes(given), length)
      BY <1>1, <1>5, <1>7, <2>2, InnerReleased, Zenon DEF final, given
    <2> QED BY <2>1, <2>3, Zenon
  <1>9. cut \in Nat /\ used \subseteq 0 .. (cut - 1)
    <2>1. CASE tracked
      <3> DEFINE waste == gone \cup Bytes(given)
      <3>1. /\ Shares(used, trail .. (length - 1), Bytes(final), waste, length)
            /\ Bytes(given) \subseteq waste /\ Clear(Bytes(given), trail .. (length - 1))
            /\ trail .. (length - 1) \subseteq (trail .. (length - 1)) \cup waste
        BY <1>6, <1>8, Zenon DEF Splits, Clear
      <3>2. trail <= trail /\ DroppedCut(given, trail, next) /\ TrailingCut(final, next, cut)
        BY <1>4, <1>6, <2>1
      <3> HIDE DEF waste
      <3>3. /\ cut \in Nat
            /\ Layout(used, NoWindows, final \ TrailingRegion(final, next), {x \in waste : x < cut}, cut)
        BY <1>1, <1>6, <1>8, <3>1, <3>2, CutBelow, Zenon
      <3> QED BY <3>3, Zenon DEF Layout, Shares
    <2>2. CASE ~tracked
      <3>1. cut = trail
        BY <1>4, <2>2, Zenon
      <3>2. used \subseteq 0 .. (length - 1) /\ used \cap (trail .. (length - 1)) = {}
        BY <1>8, Zenon DEF Shares
      <3>3. \A x \in 0 .. (length - 1) : x \notin trail .. (length - 1) => x \in 0 .. (trail - 1)
        BY <1>1, <1>6
      <3> QED BY <1>6, <3>1, <3>2, <3>3, Zenon
    <2> QED BY <1>1, <2>1, <2>2, Zenon
  <1>10. /\ Layout(used, NoWindows, {}, (0 .. (cut - 1)) \ used, cut)
         /\ TailIsCut(NoWindows, {}, cut)
    BY <1>9, StartsAfresh, Zenon
  <1>11. /\ Layout(Bytes(extents'), windows', sections', wasted', allocEnd')
         /\ TailIsCut(windows', sections', allocEnd')
    BY <1>3, <1>4, <1>10, Zenon DEF used
  <1>12. length' \in Nat /\ allocEnd' <= length'
    BY <1>4, <1>9
  <1>13. running' = FALSE /\ fresh' = {} /\ extents' \in SUBSET Extent /\ PairwiseDisjoint(extents') /\ reach' \in Nat
    BY <1>1, <1>3, Zenon DEF AggregatesInv
  <1> QED BY <1>3, <1>11, <1>12, <1>13, SettledStep, Zenon

\* Every step preserves the invariant.
LEMMA AggregatesNextPreserves == AggregatesInv /\ [AggregatesNext]_aggregates => AggregatesInv'
  <1> SUFFICES ASSUME AggregatesInv, [AggregatesNext]_aggregates PROVE AggregatesInv'
    BY Zenon
  <1>1. CASE UNCHANGED aggregates
    BY <1>1, Zenon DEF aggregates, AggregatesInv, Settled, Revertible
  <1>2. CASE BeginCommit
    BY <1>2, BeginCommitStep, Zenon
  <1>3. ASSUME NEW size \in Sizes, ReserveFree(size) PROVE AggregatesInv'
    BY <1>3, ReserveFreeStep, Zenon
  <1>4. ASSUME NEW size \in Sizes, NEW class \in WindowClasses, TakeSpare(size, class) PROVE AggregatesInv'
    BY <1>4, TakeSpareStep, Zenon
  <1>5. ASSUME NEW size \in Sizes, NEW class \in WindowClasses, ExtendWindow(size, class) PROVE AggregatesInv'
    BY <1>5, ExtendWindowStep, Zenon
  <1>6. ASSUME NEW size \in Sizes, NEW class \in WindowClasses, AppendLarge(size, class) PROVE AggregatesInv'
    BY <1>6, AppendLargeStep, Zenon
  <1>7. ASSUME NEW size \in Sizes, NEW class \in WindowClasses, OpenWindow(size, class) PROVE AggregatesInv'
    BY <1>7, OpenWindowStep, Zenon
  <1>8. CASE Place
    BY <1>8, PlaceStep, Zenon
  <1>9. ASSUME NEW batch \in SUBSET Returnable, PublishWindows(batch) PROVE AggregatesInv'
    <2>1. batch \in SUBSET extents
      BY Zenon DEF Returnable
    <2> QED BY <1>9, <2>1, PublishWindowsStep, Zenon
  <1>10. CASE RollBackWindows
    BY <1>10, RollBackStep, Zenon
  <1>11. CASE CloseWindows
    BY <1>11, CloseStep, Zenon
  <1>12. CASE DieWithWindows
    BY <1>12, DieStep, Zenon
  <1> QED BY <1>1, <1>2, <1>3, <1>4, <1>5, <1>6, <1>7, <1>8, <1>9, <1>10, <1>11, <1>12, Zenon DEF AggregatesNext

\* The invariant holds in every reachable state.
LEMMA AggregatesInvariance == AggregatesSpec => []AggregatesInv
  BY AggregatesInitEstablishes, AggregatesNextPreserves, PTL DEF AggregatesSpec

(***************************************************************************)
(* Every byte below the end of allocation of an aggregating session has    *)
(* exactly one owner, and no window ends beyond it, before or after the    *)
(* spare that ends the file is released (ClassicAggregators,               *)
(* AggregateSpace::release_freed, rollback_commit).                        *)
(***************************************************************************)
THEOREM WindowsKeepOneOwner == AggregatesSpec => []SpaceIsPartitioned
  <1>1. ASSUME AggregatesInv PROVE SpaceIsPartitioned
    <2> DEFINE used  == Bytes(extents \cup fresh)
               spare == Bytes(Spare(windows))
               free  == Bytes(sections)
    <2>1. /\ allocEnd \in Nat /\ length \in Nat /\ WindowsFit(windows, allocEnd)
          /\ PairwiseDisjoint(extents \cup fresh) /\ extents \cap fresh = {} /\ Canonical(sections)
          /\ Shares(used, spare, free, wasted, allocEnd)
          /\ ~running => allocEnd <= length
      BY <1>1, Zenon DEF AggregatesInv, Layout, Settled
    <2>2. PairwiseDisjoint(Spare(windows))
      BY <2>1, SpareBytes, Zenon
    <2>3. Synchronized \in Nat /\ allocEnd <= Synchronized /\ allocEnd <= allocEnd
      BY <2>1 DEF Synchronized, MaxOf
    <2>4. ASSUME NEW ws, NEW e \in Nat, WindowsFit(ws, e) PROVE MinimumEoa(ws) <= e
      BY <2>4, Zenon DEF MinimumEoa, MaxOf, WindowsFit, WindowFits
    <2>5. ASSUME NEW e \in {allocEnd, Synchronized}
          PROVE  MinimumEoa(windows) <= e /\ MinimumEoa(ReleaseTail(windows, e)) <= Tail(windows, e)
      <3>1. e \in Nat /\ WindowsFit(windows, e)
        BY <2>1, <2>3, <2>5, FitsHigher, Zenon
      <3>2. Tail(windows, e) \in Nat /\ WindowsFit(ReleaseTail(windows, e), Tail(windows, e))
        BY <3>1, TailReleased, Zenon
      <3> QED BY <3>1, <3>2, <2>4, Zenon
    <2> QED BY <2>1, <2>2, <2>5, Zenon DEF SpaceIsPartitioned, Shares
  <1> QED BY <1>1, AggregatesInvariance, PTL

(***************************************************************************)
(* Between commits no free region ends the file, or ends where the unused  *)
(* space at its end begins (AggregateSpace::release_freed).                *)
(***************************************************************************)
THEOREM CommitsCutFreeTails == AggregatesSpec => []FreeTailIsCut
  <1>1. AggregatesInv => FreeTailIsCut
    BY Zenon DEF AggregatesInv, Settled, TailIsCut, FreeTailIsCut
  <1> QED BY <1>1, AggregatesInvariance, PTL
=============================================================================
