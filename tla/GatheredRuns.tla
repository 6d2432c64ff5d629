--------------------------- MODULE GatheredRuns -----------------------------
(***************************************************************************)
(* What the operations of the write gathering do to the runs that are      *)
(* pending, to the file below them and to what the image shows, for every  *)
(* size of page, budget and file.                                          *)
(*                                                                         *)
(* The lemmas speak of runs, files and histories that are given, not of    *)
(* the state: r are pending runs and q those after a step, d and e the     *)
(* bytes of the file before and after it, n its known length, m the        *)
(* mirror, and w and c what the image may show and the file may hold at    *)
(* each address.  Sound relates them to the operation that waits; the      *)
(* lemmas whose names end in Sound or Starts say that a step keeps it.     *)
(* BufferedWritesProofs applies them to the state.                         *)
(***************************************************************************)
EXTENDS BufferedWrites, TLAPS

Values == (0 .. MaxWrites) \cup {Zero}

\* Pending runs lie apart from each other.
Apart(r) ==
    /\ r \in [DOMAIN r -> Seq(Values)] /\ DOMAIN r \subseteq Addrs
    /\ \A k \in DOMAIN r : 1 <= Len(r[k]) /\ k + Len(r[k]) <= MaxLen
    /\ \A j, k \in DOMAIN r : j < k => j + Len(r[j]) < k

\* No run starts beyond the end of the file.
Image(r, d, n) ==
    /\ Apart(r)
    /\ d \in Seq(Values) /\ Len(d) <= MaxLen
    /\ n \in Nat /\ n <= Len(d)
    /\ \A k \in DOMAIN r : k <= n

Over(r, a)     == {k \in DOMAIN r : k <= a /\ a < k + Len(r[k])}
Byte(r, a)     == LET k == CHOOSE x \in Over(r, a) : TRUE IN r[k][a - k + 1]
Sees(r, d, n, a)  == IF Over(r, a) # {} THEN Byte(r, a) ELSE IF a < n THEN d[a + 1] ELSE Zero
Shows(r, n, a) == a < n \/ Over(r, a) # {}

Inside(lo, hi, a) == lo <= a /\ a < hi

\* The file and the pending runs hold nothing but what w allows at each address,
Recent(r, d, w) ==
    \A a \in Addrs : /\ a < Len(d) => d[a + 1] \in w[a]
                     /\ Over(r, a) # {} => Byte(r, a) \in w[a]

\* the image shows what w allows at each address below a length,
InView(r, d, n, len, w) ==
    \A a \in Addrs : a < len => Shows(r, n, a) /\ Sees(r, d, n, a) \in w[a]

\* and a mirror is as long as w says something and holds what it allows.
Reflects(m, w) ==
    /\ m \in Seq(Values) /\ Len(m) <= MaxLen
    /\ w \in [Addrs -> SUBSET Values]
    /\ \A a \in Addrs : /\ w[a] = {} <=> Len(m) <= a
                        /\ a < Len(m) => m[a + 1] \in w[a]

\* A write that was accepted inside or at the end of the image, and what follows from it.
Request(at, b, m, w) ==
    /\ at \in Nat /\ b \in Seq(Values) /\ 1 <= Len(b) /\ at + Len(b) <= MaxLen
    /\ at <= Len(m) /\ (at = Len(m) \/ at + Len(b) <= Len(m))
    /\ \A i \in 1 .. Len(b) : b[i] = b[1]
    /\ \A a \in Addrs : Inside(at, at + Len(b), a) => b[1] \in w[a]

Written(w, at, b) == [a \in Addrs |-> IF Inside(at, at + Len(b), a) THEN {b[1]} ELSE w[a]]
Grown(m, at, b)   == IF at = Len(m) THEN at + Len(b) ELSE Len(m)

WriteOp(kind, at, b) == [kind |-> kind, at |-> at, bytes |-> b]

\* What the image shows while an operation o waits for its flush: what it showed before, what will be
\* left of that, or the write that was taken up already.
Waiting(o, stop, r, d, n, m, w, c) ==
    \/ o = Idle /\ (~ stop => InView(r, d, n, Len(m), w))
    \/ o = [kind |-> "flush"] /\ ~ stop /\ InView(r, d, n, Len(m), w)
    \/ /\ \E x \in Modes : o = [kind |-> "mode", mode |-> x]
       /\ ~ stop /\ InView(r, d, n, Len(m), w)
    \/ \E l \in Nat : /\ o = [kind |-> "truncate", len |-> l] /\ ~ stop
                      /\ l < Len(m) /\ InView(r, d, n, l, w)
    \/ \E at \in Nat, b \in Seq(Values) :
         /\ o = WriteOp("direct", at, b) /\ ~ stop /\ Request(at, b, m, c)
         /\ InView(r, d, n, Len(m), w)
    \/ \E at \in Nat, b \in Seq(Values) :
         /\ o = WriteOp("write", at, b) /\ ~ stop /\ Request(at, b, m, c)
         /\ InView(r, d, n, Grown(m, at, b), Written(w, at, b))

\* The file d of known length n with the runs r over it, the mirror m, and the histories w and c.
Sound(o, stop, r, d, n, m, w, c) ==
    /\ Image(r, d, n)
    /\ Reflects(m, w)
    /\ c \in [Addrs -> SUBSET Values] /\ Recent(r, d, c)
    /\ Waiting(o, stop, r, d, n, m, w, c)

-----------------------------------------------------------------------------

LEMMA Bounds ==
    /\ MaxLen \in Nat /\ InitLen \in Nat /\ InitLen <= MaxLen
    /\ MaxWrites \in Nat /\ MaxBytes \in Nat /\ MaxFailures \in Nat
    /\ Lengths \subseteq Nat \ {0} /\ Zero \notin 0 .. MaxWrites
  BY GatheringAssumption, SMT

\* What a function on 1 .. n is as a sequence.
LEMMA MadeSequence ==
    ASSUME NEW n \in Nat, NEW T, NEW f \in [1 .. n -> T]
    PROVE  f \in Seq(T) /\ Len(f) = n
  BY SMT

LEMMA SequenceValues ==
    ASSUME NEW T, NEW s \in Seq(T)
    PROVE  Len(s) \in Nat /\ DOMAIN s = 1 .. Len(s) /\ \A i \in 1 .. Len(s) : s[i] \in T
  BY SMT

\* At most one run holds an address.
LEMMA OneRun ==
    ASSUME NEW r, Apart(r), NEW a \in Int, NEW k \in Over(r, a)
    PROVE  Over(r, a) = {k} /\ Byte(r, a) = r[k][a - k + 1] /\ Byte(r, a) \in Values
  <1>1. \A j \in DOMAIN r : j \in Int /\ Len(r[j]) \in Nat
    BY Bounds, SequenceValues, SMT DEF Apart, Addrs
  <1>2. ASSUME NEW j \in Over(r, a) PROVE j = k
    <2>1. j \in DOMAIN r /\ k \in DOMAIN r /\ j <= a /\ k <= a /\ a < j + Len(r[j]) /\ a < k + Len(r[k])
      BY Zenon DEF Over
    <2>2. (j < k => j + Len(r[j]) < k) /\ (k < j => k + Len(r[k]) < j)
      BY <2>1, Zenon DEF Apart
    <2> QED BY <1>1, <2>1, <2>2, SMT
  <1>3. Over(r, a) = {k}
    BY <1>2, Zenon
  <1>4. Byte(r, a) = r[k][a - k + 1]
    BY <1>3, Zenon DEF Byte
  <1>5. k \in DOMAIN r /\ r[k] \in Seq(Values) /\ a - k + 1 \in 1 .. Len(r[k])
    BY <1>1, SMT DEF Over, Apart
  <1>6. r[k][a - k + 1] \in Values
    BY <1>5, SMT
  <1> QED BY <1>3, <1>4, <1>6, Zenon

\* A byte that is shown has a value.
LEMMA SeenValue ==
    ASSUME NEW r, NEW d, NEW n, Image(r, d, n), NEW a \in Nat
    PROVE  Sees(r, d, n, a) \in Values
  <1>0. Apart(r) /\ d \in Seq(Values) /\ n \in Nat /\ n <= Len(d)
    BY Zenon DEF Image
  <1>1. CASE Over(r, a) # {}
    <2>1. PICK k \in Over(r, a) : TRUE
      BY <1>1, Zenon
    <2>2. Byte(r, a) \in Values
      BY <1>0, OneRun, SMT
    <2> QED BY <1>1, <2>2, Zenon DEF Sees
  <1>2. CASE Over(r, a) = {} /\ a < n
    <2>1. d[a + 1] \in Values
      BY <1>0, <1>2, SMT
    <2> QED BY <1>2, <2>1, Zenon DEF Sees
  <1>3. CASE Over(r, a) = {} /\ ~ (a < n)
    <2>1. Sees(r, d, n, a) = Zero
      BY <1>3, Zenon DEF Sees
    <2> QED BY <2>1, Zenon DEF Values
  <1> QED BY <1>1, <1>2, <1>3, Zenon

LEMMA LargerIs ==
    ASSUME NEW x \in Nat, NEW y \in Nat
    PROVE  /\ Max({x, y}) \in Nat
           /\ x <= Max({x, y}) /\ y <= Max({x, y})
           /\ Max({x, y}) = x \/ Max({x, y}) = y
  <1>1. \E m \in {x, y} : \A z \in {x, y} : m >= z
    BY SMT
  <1>2. Max({x, y}) \in {x, y} /\ \A z \in {x, y} : Max({x, y}) >= z
    BY <1>1, Zenon DEF Max
  <1>3. Max({x, y}) >= x /\ Max({x, y}) >= y /\ (Max({x, y}) = x \/ Max({x, y}) = y)
    BY <1>2, Zenon
  <1> QED BY <1>3, SMT

LEMMA SmallerIs ==
    ASSUME NEW x \in Nat, NEW y \in Nat
    PROVE  /\ Min({x, y}) \in Nat
           /\ Min({x, y}) <= x /\ Min({x, y}) <= y
           /\ Min({x, y}) = x \/ Min({x, y}) = y
  <1>1. \E m \in {x, y} : \A z \in {x, y} : m <= z
    BY SMT
  <1>2. Min({x, y}) \in {x, y} /\ \A z \in {x, y} : Min({x, y}) <= z
    BY <1>1, Zenon DEF Min
  <1>3. Min({x, y}) <= x /\ Min({x, y}) <= y /\ (Min({x, y}) = x \/ Min({x, y}) = y)
    BY <1>2, Zenon
  <1> QED BY <1>3, SMT

\* What a positioned write that leaves no hole makes of the file.
Wrote(d, at, b, p) ==
    /\ p \in Seq(Values)
    /\ Len(d) <= Len(p) /\ at + Len(b) <= Len(p) /\ (Len(p) = Len(d) \/ Len(p) = at + Len(b))
    /\ \A a \in Nat : a < Len(p) =>
        /\ at <= a /\ a < at + Len(b) => p[a + 1] = b[a - at + 1]
        /\ ~ (at <= a /\ a < at + Len(b)) => a < Len(d) /\ p[a + 1] = d[a + 1]

LEMMA PatchWrites ==
    ASSUME NEW d \in Seq(Values), NEW at \in Nat, at <= Len(d), NEW b \in Seq(Values)
    PROVE  Wrote(d, at, b, Patch(d, at, b))
  <1> DEFINE m == Max({Len(d), at + Len(b)})
             p == Patch(d, at, b)
  <1>1. Len(d) \in Nat /\ Len(b) \in Nat /\ at + Len(b) \in Nat
    BY SMT
  <1>2. m \in Nat /\ Len(d) <= m /\ at + Len(b) <= m /\ (m = Len(d) \/ m = at + Len(b))
    BY <1>1, LargerIs, Zenon
  <1>3. p = [i \in 1 .. m |-> IF i > at /\ i <= at + Len(b) THEN b[i - at]
                             ELSE IF i <= Len(d) THEN d[i] ELSE Zero]
    BY Zenon DEF Patch
  <1> HIDE DEF p, m
  <1>4. ASSUME NEW i \in 1 .. m
        PROVE  /\ p[i] \in Values
               /\ i > at /\ i <= at + Len(b) => p[i] = b[i - at]
               /\ ~ (i > at /\ i <= at + Len(b)) => i <= Len(d) /\ p[i] = d[i]
    <2>1. p[i] = IF i > at /\ i <= at + Len(b) THEN b[i - at] ELSE IF i <= Len(d) THEN d[i] ELSE Zero
      BY <1>3, Zenon
    <2>2. i > at /\ i <= at + Len(b) => b[i - at] \in Values
      BY <1>1, SMT
    <2>3. i <= Len(d) => d[i] \in Values
      BY <1>1, SMT
    <2>4. ~ (i > at /\ i <= at + Len(b)) => i <= Len(d)
      BY <1>1, <1>2, SMT
    <2> QED BY <2>1, <2>2, <2>3, <2>4, Zenon
  <1>5. p \in [1 .. m -> Values]
    BY <1>3, <1>4, Zenon
  <1>6. p \in Seq(Values) /\ Len(p) = m
    BY <1>2, <1>5, MadeSequence, Zenon
  <1>7. ASSUME NEW a \in Nat, a < Len(p)
        PROVE  /\ at <= a /\ a < at + Len(b) => p[a + 1] = b[a - at + 1]
               /\ ~ (at <= a /\ a < at + Len(b)) => a < Len(d) /\ p[a + 1] = d[a + 1]
    <2>1. a + 1 \in 1 .. m /\ a + 1 - at = a - at + 1
      BY <1>2, <1>6, <1>7, SMT
    <2>2. (a + 1 > at /\ a + 1 <= at + Len(b)) <=> (at <= a /\ a < at + Len(b))
      BY <1>1, <1>7, SMT
    <2>3. a + 1 <= Len(d) => a < Len(d)
      BY <1>1, <1>7, SMT
    <2>4. /\ a + 1 > at /\ a + 1 <= at + Len(b) => p[a + 1] = b[a + 1 - at]
          /\ ~ (a + 1 > at /\ a + 1 <= at + Len(b)) => a + 1 <= Len(d) /\ p[a + 1] = d[a + 1]
      BY <1>4, <2>1, SMT
    <2>5. at <= a /\ a < at + Len(b) => p[a + 1] = b[a - at + 1]
      BY <2>1, <2>2, <2>4, SMT
    <2>6. ~ (at <= a /\ a < at + Len(b)) => a < Len(d) /\ p[a + 1] = d[a + 1]
      BY <2>2, <2>3, <2>4, SMT
    <2> QED BY <2>5, <2>6, Zenon
  <1>8. Wrote(d, at, b, p)
    BY <1>2, <1>6, <1>7, Zenon DEF Wrote
  <1> QED BY <1>8 DEF p

\* The runs T fill a part of lo .. hi - 1, and no other run meets or touches it.
Window(r, T, lo, hi) ==
    /\ T \subseteq DOMAIN r
    /\ lo \in Nat /\ hi \in Nat /\ lo < hi /\ hi <= MaxLen
    /\ \A k \in T : lo <= k /\ k + Len(r[k]) <= hi
    /\ \A k \in DOMAIN r \ T : k + Len(r[k]) < lo \/ hi < k

LEMMA RunFacts ==
    ASSUME NEW r, Apart(r), NEW k \in DOMAIN r
    PROVE  k \in Nat /\ k \in Addrs /\ r[k] \in Seq(Values) /\ Len(r[k]) \in Nat /\ 1 <= Len(r[k])
           /\ k + Len(r[k]) \in Nat /\ k + Len(r[k]) <= MaxLen
  <1>1. k \in Addrs /\ r[k] \in Seq(Values) /\ 1 <= Len(r[k]) /\ k + Len(r[k]) <= MaxLen
    BY Zenon DEF Apart
  <1>2. k \in Nat /\ Len(r[k]) \in Nat
    BY <1>1, Bounds, SMT DEF Addrs
  <1> QED BY <1>1, <1>2, SMT

\* The runs of a window are the ones over its addresses.
LEMMA WindowOver ==
    ASSUME NEW r, Apart(r), NEW T, NEW lo, NEW hi, Window(r, T, lo, hi), NEW a \in Nat, NEW k \in Over(r, a)
    PROVE  k \in T <=> Inside(lo, hi, a)
  <1>1. k \in DOMAIN r /\ k <= a /\ a < k + Len(r[k])
    BY Zenon DEF Over
  <1>2. k \in Nat /\ k + Len(r[k]) \in Nat /\ lo \in Nat /\ hi \in Nat
    BY <1>1, RunFacts, Zenon DEF Window
  <1>3. CASE k \in T
    <2>1. lo <= k /\ k + Len(r[k]) <= hi
      BY <1>3, Zenon DEF Window
    <2>2. lo <= a /\ a < hi
      BY <1>1, <1>2, <2>1, SMT
    <2> QED BY <1>3, <2>2, Zenon DEF Inside
  <1>4. CASE k \notin T
    <2>1. k + Len(r[k]) < lo \/ hi < k
      BY <1>1, <1>4, Zenon DEF Window
    <2>2. ~ (lo <= a /\ a < hi)
      BY <1>1, <1>2, <2>1, SMT
    <2> QED BY <1>4, <2>2, Zenon DEF Inside
  <1> QED BY <1>3, <1>4, Zenon

\* Some of the runs.
Part(r, T) == [k \in T |-> r[k]]

LEMMA PartOver ==
    ASSUME NEW r, Apart(r), NEW T \in SUBSET DOMAIN r
    PROVE  /\ Apart(Part(r, T)) /\ DOMAIN Part(r, T) = T
           /\ \A a \in Nat : /\ Over(Part(r, T), a) = Over(r, a) \cap T
                             /\ Over(Part(r, T), a) # {} => Byte(Part(r, T), a) = Byte(r, a)
  <1> DEFINE q == Part(r, T)
  <1>1. DOMAIN q = T /\ \A k \in T : k \in DOMAIN r /\ q[k] = r[k]
    BY Zenon DEF Part
  <1>0. q = [k \in T |-> r[k]]
    BY Zenon DEF Part
  <1> HIDE DEF q
  <1>2. Apart(q)
    <2>1. q \in [T -> Seq(Values)]
      <3>1. \A k \in T : r[k] \in Seq(Values)
        BY RunFacts, Zenon
      <3> QED BY <1>0, <3>1, Zenon
    <2>2. T \subseteq Addrs
      BY RunFacts, Zenon
    <2>3. \A k \in T : 1 <= Len(q[k]) /\ k + Len(q[k]) <= MaxLen
      BY <1>1, RunFacts, Zenon
    <2>4. \A j, k \in T : j < k => j + Len(q[j]) < k
      BY <1>1, Zenon DEF Apart
    <2> QED BY <1>1, <2>1, <2>2, <2>3, <2>4, Zenon DEF Apart
  <1>3. ASSUME NEW a \in Nat PROVE Over(q, a) = Over(r, a) \cap T
    BY <1>1, Zenon DEF Over
  <1>4. ASSUME NEW a \in Nat, Over(q, a) # {} PROVE Byte(q, a) = Byte(r, a)
    <2>1. PICK k \in Over(q, a) : TRUE
      BY <1>4, Zenon
    <2>2. k \in Over(r, a) /\ k \in T /\ a \in Int
      BY <1>3, <2>1, SMT
    <2>3. Byte(q, a) = q[k][a - k + 1]
      BY <1>2, <2>1, <2>2, OneRun, Zenon
    <2>4. Byte(r, a) = r[k][a - k + 1]
      BY <2>2, OneRun, Zenon
    <2> QED BY <1>1, <2>2, <2>3, <2>4, Zenon
  <1> QED BY <1>1, <1>2, <1>3, <1>4, Zenon DEF q

\* The runs of a window are replaced by one that fills it.
Refilled(r, T, lo, hi, m, q) ==
    /\ Apart(r) /\ Window(r, T, lo, hi)
    /\ m \in Seq(Values) /\ Len(m) = hi - lo
    /\ q = [k \in (DOMAIN r \ T) \cup {lo} |-> IF k = lo THEN m ELSE r[k]]

LEMMA RefilledRuns ==
    ASSUME NEW r, NEW T, NEW lo, NEW hi, NEW m, NEW q, Refilled(r, T, lo, hi, m, q)
    PROVE  /\ DOMAIN q = (DOMAIN r \ T) \cup {lo}
           /\ q[lo] = m
           /\ \A k \in DOMAIN r \ T : k # lo /\ q[k] = r[k] /\ (k + Len(r[k]) < lo \/ hi < k)
  <1>0. Apart(r) /\ Window(r, T, lo, hi)
    BY Zenon DEF Refilled
  <1>1. \A k \in DOMAIN r \ T : k + Len(r[k]) < lo \/ hi < k
    BY <1>0, Zenon DEF Window
  <1>2. ASSUME NEW k \in DOMAIN r \ T PROVE k # lo
    <2>1. k \in Nat /\ Len(r[k]) \in Nat /\ lo \in Nat /\ hi \in Nat /\ lo < hi
      BY <1>0, RunFacts, Zenon DEF Window
    <2>2. k + Len(r[k]) < lo \/ hi < k
      BY <1>1, Zenon
    <2> QED BY <2>1, <2>2, SMT
  <1> QED BY <1>1, <1>2, Zenon DEF Refilled

LEMMA RefilledApart ==
    ASSUME NEW r, NEW T, NEW lo, NEW hi, NEW m, NEW q, Refilled(r, T, lo, hi, m, q)
    PROVE  Apart(q)
  <1>1. /\ DOMAIN q = (DOMAIN r \ T) \cup {lo}
        /\ q[lo] = m
        /\ \A k \in DOMAIN r \ T : k # lo /\ q[k] = r[k] /\ (k + Len(r[k]) < lo \/ hi < k)
    BY RefilledRuns, Zenon
  <1> Apart(r) /\ Window(r, T, lo, hi) /\ m \in Seq(Values) /\ Len(m) = hi - lo
    BY Zenon DEF Refilled
  <1>0. lo \in Nat /\ hi \in Nat /\ lo < hi /\ hi <= MaxLen /\ MaxLen \in Nat
    BY Bounds, Zenon DEF Window
  <1>2. lo \in Addrs /\ 1 <= Len(m) /\ lo + Len(m) <= MaxLen /\ lo + Len(m) = hi
    BY <1>0, SMT DEF Addrs
  <1>3. \A k \in DOMAIN r \ T : /\ k \in Addrs /\ q[k] \in Seq(Values)
                                /\ 1 <= Len(q[k]) /\ k + Len(q[k]) <= MaxLen
    BY <1>1, RunFacts, Zenon
  <1>4. q \in [DOMAIN q -> Seq(Values)]
    <2>1. \A k \in DOMAIN q : q[k] \in Seq(Values)
      BY <1>1, <1>3, Zenon
    <2>2. q = [k \in (DOMAIN r \ T) \cup {lo} |-> IF k = lo THEN m ELSE r[k]]
      BY Zenon DEF Refilled
    <2> QED BY <2>1, <2>2, <1>1, Zenon
  <1>5. DOMAIN q \subseteq Addrs /\ \A k \in DOMAIN q : 1 <= Len(q[k]) /\ k + Len(q[k]) <= MaxLen
    BY <1>1, <1>2, <1>3, Zenon
  <1>6. ASSUME NEW j \in DOMAIN q, NEW k \in DOMAIN q, j < k PROVE j + Len(q[j]) < k
    <2>1. CASE j = lo /\ k = lo
      BY <1>0, <1>6, <2>1, SMT
    <2>2. CASE j = lo /\ k # lo
      <3>1. k \in DOMAIN r \ T /\ (k + Len(r[k]) < lo \/ hi < k)
        BY <1>1, <2>2, Zenon
      <3>2. k \in Nat /\ Len(r[k]) \in Nat
        BY <3>1, RunFacts, Zenon
      <3>3. hi < k
        BY <1>0, <1>6, <2>2, <3>1, <3>2, SMT
      <3> QED BY <1>1, <1>2, <2>2, <3>3, Zenon
    <2>3. CASE j # lo /\ k = lo
      <3>1. j \in DOMAIN r \ T /\ (j + Len(r[j]) < lo \/ hi < j) /\ q[j] = r[j]
        BY <1>1, <2>3, Zenon
      <3>2. j \in Nat /\ Len(r[j]) \in Nat
        BY <3>1, RunFacts, Zenon
      <3>3. j + Len(r[j]) < lo
        BY <1>0, <1>6, <2>3, <3>1, <3>2, SMT
      <3> QED BY <2>3, <3>1, <3>3, Zenon
    <2>4. CASE j # lo /\ k # lo
      <3>1. j \in DOMAIN r /\ k \in DOMAIN r /\ q[j] = r[j]
        BY <1>1, <2>4, Zenon
      <3> QED BY <1>6, <3>1, Zenon DEF Apart
    <2> QED BY <2>1, <2>2, <2>3, <2>4, Zenon
  <1> QED BY <1>4, <1>5, <1>6, Zenon DEF Apart

\* Every address of the window is in the new run, and every other one where it was.
LEMMA RefilledInside ==
    ASSUME NEW r, NEW T, NEW lo, NEW hi, NEW m, NEW q, Refilled(r, T, lo, hi, m, q),
           NEW a \in Nat, Inside(lo, hi, a)
    PROVE  Over(q, a) # {} /\ Byte(q, a) = m[a - lo + 1]
  <1>1. Apart(q)
    BY RefilledApart, Zenon
  <1>2. /\ DOMAIN q = (DOMAIN r \ T) \cup {lo}
        /\ q[lo] = m
        /\ \A k \in DOMAIN r \ T : k # lo /\ q[k] = r[k] /\ (k + Len(r[k]) < lo \/ hi < k)
    BY RefilledRuns, Zenon
  <1>3. lo \in Nat /\ hi \in Nat /\ Len(m) = hi - lo /\ lo <= a /\ a < hi
    BY Zenon DEF Refilled, Window, Inside
  <1>4. a < lo + Len(m) /\ a \in Int
    BY <1>3, SMT
  <1>5. lo \in Over(q, a)
    BY <1>2, <1>3, <1>4, Zenon DEF Over
  <1>6. Byte(q, a) = q[lo][a - lo + 1]
    BY <1>1, <1>4, <1>5, OneRun, Zenon
  <1> QED BY <1>2, <1>5, <1>6, Zenon

LEMMA RefilledOutside ==
    ASSUME NEW r, NEW T, NEW lo, NEW hi, NEW m, NEW q, Refilled(r, T, lo, hi, m, q),
           NEW a \in Nat, ~ Inside(lo, hi, a)
    PROVE  Over(q, a) = Over(r, a) /\ (Over(r, a) # {} => Byte(q, a) = Byte(r, a))
  <1>1. Apart(q)
    BY RefilledApart, Zenon
  <1>2. /\ DOMAIN q = (DOMAIN r \ T) \cup {lo}
        /\ q[lo] = m
        /\ \A k \in DOMAIN r \ T : k # lo /\ q[k] = r[k] /\ (k + Len(r[k]) < lo \/ hi < k)
    BY RefilledRuns, Zenon
  <1>3. Apart(r) /\ Window(r, T, lo, hi)
    BY Zenon DEF Refilled
  <1>4. ~ (lo <= a /\ a < lo + Len(m))
    <2>1. lo \in Nat /\ hi \in Nat /\ Len(m) = hi - lo /\ ~ (lo <= a /\ a < hi)
      BY Zenon DEF Refilled, Window, Inside
    <2> QED BY <2>1, SMT
  <1>5. \A k \in Over(r, a) : k \in DOMAIN r \ T
    <2>1. \A k \in Over(r, a) : k \in T <=> Inside(lo, hi, a)
      BY <1>3, WindowOver, Zenon
    <2>2. \A k \in Over(r, a) : k \in DOMAIN r
      BY Zenon DEF Over
    <2> QED BY <2>1, <2>2, Zenon
  <1>6. ASSUME NEW k \in Over(r, a) PROVE k \in Over(q, a)
    <2>1. k \in DOMAIN r \ T /\ k <= a /\ a < k + Len(r[k])
      BY <1>5, <1>6, Zenon DEF Over
    <2> QED BY <1>2, <2>1, Zenon DEF Over
  <1>7. ASSUME NEW k \in Over(q, a) PROVE k \in Over(r, a)
    <2>1. k \in DOMAIN q /\ k <= a /\ a < k + Len(q[k])
      BY <1>7, Zenon DEF Over
    <2>2. k # lo
      BY <1>2, <1>4, <2>1, Zenon
    <2>3. k \in DOMAIN r /\ q[k] = r[k]
      BY <1>2, <2>1, <2>2, Zenon
    <2> QED BY <2>1, <2>3, Zenon DEF Over
  <1>8. Over(q, a) = Over(r, a)
    BY <1>6, <1>7, Zenon
  <1>9. ASSUME NEW k \in Over(r, a) PROVE Byte(q, a) = Byte(r, a)
    <2>1. a \in Int /\ k \in Over(q, a) /\ k \in Over(r, a)
      BY <1>6, SMT
    <2>2. Byte(q, a) = q[k][a - k + 1]
      BY <1>1, <2>1, OneRun, Zenon
    <2>3. Byte(r, a) = r[k][a - k + 1]
      BY <1>3, <2>1, OneRun, Zenon
    <2>4. q[k] = r[k]
      BY <1>2, <1>5, <2>1, Zenon
    <2> QED BY <2>2, <2>3, <2>4, Zenon
  <1> QED BY <1>8, <1>9, Zenon

\* The bytes held are the addresses under a run.
LEMMA HeldIsOver ==
    ASSUME NEW r, Apart(r)
    PROVE  Held(r) = {a \in Nat : Over(r, a) # {}} /\ Held(r) \in SUBSET (0 .. MaxLen)
  <1>1. ASSUME NEW a, NEW k \in DOMAIN r
        PROVE  a \in k .. (k + Len(r[k]) - 1) <=> a \in Nat /\ k <= a /\ a < k + Len(r[k])
    <2>1. k \in Nat /\ Len(r[k]) \in Nat
      BY RunFacts, Zenon
    <2> QED BY <2>1, SMT
  <1>2. Held(r) = {a \in Nat : Over(r, a) # {}}
    <2>1. ASSUME NEW a \in Held(r) PROVE a \in Nat /\ Over(r, a) # {}
      <3>1. PICK k \in DOMAIN r : a \in k .. (k + Len(r[k]) - 1)
        BY <2>1, Zenon DEF Held
      <3> QED BY <1>1, <3>1, Zenon DEF Over
    <2>2. ASSUME NEW a \in Nat, Over(r, a) # {} PROVE a \in Held(r)
      <3>1. PICK k \in DOMAIN r : k <= a /\ a < k + Len(r[k])
        BY <2>2, Zenon DEF Over
      <3>2. a \in k .. (k + Len(r[k]) - 1)
        BY <1>1, <3>1, Zenon
      <3> QED BY <3>2, Zenon DEF Held
    <2> QED BY <2>1, <2>2, Zenon
  <1>3. Held(r) \in SUBSET (0 .. MaxLen)
    <2>1. ASSUME NEW a \in Nat, Over(r, a) # {} PROVE a \in 0 .. MaxLen
      <3>1. PICK k \in DOMAIN r : k <= a /\ a < k + Len(r[k])
        BY <2>1, Zenon DEF Over
      <3>2. k + Len(r[k]) \in Nat /\ k + Len(r[k]) <= MaxLen
        BY RunFacts, Zenon
      <3> QED BY <3>1, <3>2, Bounds, SMT
    <2> QED BY <1>2, <2>1, Zenon
  <1> QED BY <1>2, <1>3, Zenon

\* The runs of a window hold the bytes held inside it, the others the bytes held outside.
LEMMA PartHeld ==
    ASSUME NEW r, Apart(r), NEW T, NEW lo, NEW hi, Window(r, T, lo, hi)
    PROVE  /\ Held(Part(r, T)) = {a \in Held(r) : Inside(lo, hi, a)}
           /\ Held(Part(r, DOMAIN r \ T)) = Held(r) \ Held(Part(r, T))
  <1>1. T \in SUBSET DOMAIN r /\ (DOMAIN r \ T) \in SUBSET DOMAIN r
    BY Zenon DEF Window
  <1>2. /\ Apart(Part(r, T)) /\ Apart(Part(r, DOMAIN r \ T))
        /\ \A a \in Nat : Over(Part(r, T), a) = Over(r, a) \cap T
        /\ \A a \in Nat : Over(Part(r, DOMAIN r \ T), a) = Over(r, a) \cap (DOMAIN r \ T)
    BY <1>1, PartOver, Zenon
  <1>3. /\ Held(r) = {a \in Nat : Over(r, a) # {}}
        /\ Held(Part(r, T)) = {a \in Nat : Over(Part(r, T), a) # {}}
        /\ Held(Part(r, DOMAIN r \ T)) = {a \in Nat : Over(Part(r, DOMAIN r \ T), a) # {}}
    BY <1>2, HeldIsOver, Zenon
  <1>4. ASSUME NEW a \in Nat
        PROVE  /\ Over(Part(r, T), a) # {} <=> Over(r, a) # {} /\ Inside(lo, hi, a)
               /\ Over(Part(r, DOMAIN r \ T), a) # {} <=> Over(r, a) # {} /\ ~ Inside(lo, hi, a)
    <2>1. \A k \in Over(r, a) : k \in DOMAIN r /\ (k \in T <=> Inside(lo, hi, a))
      <3>1. \A k \in Over(r, a) : k \in DOMAIN r
        BY Zenon DEF Over
      <3>2. \A k \in Over(r, a) : k \in T <=> Inside(lo, hi, a)
        BY WindowOver, Zenon
      <3> QED BY <3>1, <3>2, Zenon
    <2>2. /\ Over(Part(r, T), a) = Over(r, a) \cap T
          /\ Over(Part(r, DOMAIN r \ T), a) = Over(r, a) \cap (DOMAIN r \ T)
      BY <1>2, Zenon
    <2> QED BY <2>1, <2>2, Zenon
  <1> HIDE DEF Part
  <1>5. Held(Part(r, T)) = {a \in Held(r) : Inside(lo, hi, a)}
    BY <1>3, <1>4, Zenon
  <1>6. Held(Part(r, DOMAIN r \ T)) = Held(r) \ Held(Part(r, T))
    BY <1>3, <1>4, Zenon
  <1> QED BY <1>5, <1>6, Zenon

\* One run in the place of the window's runs holds the window.
LEMMA RefilledHeld ==
    ASSUME NEW r, NEW T, NEW lo, NEW hi, NEW m, NEW q, Refilled(r, T, lo, hi, m, q)
    PROVE  /\ Held(q) = Held(Part(r, DOMAIN r \ T)) \cup (lo .. (hi - 1))
           /\ Held(Part(r, DOMAIN r \ T)) \cap (lo .. (hi - 1)) = {}
  <1> DEFINE all  == Held(r)
             out  == Held(Part(r, T))
             rest == Held(Part(r, DOMAIN r \ T))
             new  == lo .. (hi - 1)
  <1>1. Apart(r) /\ Window(r, T, lo, hi) /\ lo \in Nat /\ hi \in Nat /\ lo < hi
    BY Zenon DEF Refilled, Window
  <1>2. all = {a \in Nat : Over(r, a) # {}}
    BY <1>1, HeldIsOver, Zenon
  <1>3. out = {a \in all : Inside(lo, hi, a)} /\ rest = all \ out
    BY <1>1, PartHeld, Zenon
  <1>5. Held(q) = {a \in Nat : Over(q, a) # {}}
    BY RefilledApart, HeldIsOver, Zenon
  <1>6. \A a \in Nat : Over(q, a) # {} <=> Inside(lo, hi, a) \/ Over(r, a) # {}
    <2>1. \A a \in Nat : Inside(lo, hi, a) => Over(q, a) # {}
      BY RefilledInside, Zenon
    <2>2. ASSUME NEW a \in Nat, ~ Inside(lo, hi, a)
          PROVE  Over(q, a) = Over(r, a) /\ (Over(r, a) # {} => Byte(q, a) = Byte(r, a))
      BY <2>2, RefilledOutside, SMT
    <2> QED BY <2>1, <2>2, Zenon
  <1>7. \A a : a \in new <=> a \in Nat /\ Inside(lo, hi, a)
    BY <1>1, SMT DEF Inside
  <1> HIDE DEF all, out, rest, new
  <1>9. Held(q) = rest \cup new /\ rest \cap new = {}
    <2>1. \A a \in rest : a \in Nat /\ Over(r, a) # {} /\ ~ Inside(lo, hi, a)
      BY <1>2, <1>3, Zenon
    <2>2. \A a \in Nat : Over(r, a) # {} /\ ~ Inside(lo, hi, a) => a \in rest
      BY <1>2, <1>3, Zenon
    <2>3. ASSUME NEW a PROVE a \in Held(q) <=> a \in rest \/ a \in new
      BY <1>5, <1>6, <1>7, <2>1, <2>2, Zenon
    <2>4. rest \cap new = {}
      BY <1>7, <2>1, Zenon
    <2> QED BY <2>3, <2>4, Zenon
  <1> QED BY <1>9, Zenon DEF rest, new

-----------------------------------------------------------------------------

(***************************************************************************)
(* What a step leaves of the view.                                         *)
(***************************************************************************)

\* Every address that was shown is shown, with the byte it had.
SameView(r, d, n, q, e, m) ==
    \A a \in Nat : Shows(r, n, a) => Shows(q, m, a) /\ Sees(q, e, m, a) = Sees(r, d, n, a)

\* The file's bytes are what they were or what was seen.
OnlyShown(r, d, n, e) ==
    \A a \in Nat : a < Len(e) =>
        \/ a < Len(d) /\ e[a + 1] = d[a + 1]
        \/ Shows(r, n, a) /\ e[a + 1] = Sees(r, d, n, a)

\* The runs T come first, and lo .. hi - 1 is what they span.
Leads(r, T, lo, hi) ==
    /\ T \subseteq DOMAIN r /\ \A k \in T, j \in DOMAIN r : j <= k => j \in T
    /\ lo \in T /\ \A k \in DOMAIN r : lo <= k
    /\ \E z \in T : (\A k \in T : k <= z) /\ hi = z + Len(r[z])

LEMMA LeadingWindow ==
    ASSUME NEW r, Apart(r), NEW T, NEW lo, NEW hi, Leads(r, T, lo, hi)
    PROVE  Window(r, T, lo, hi)
  <1>1. T \subseteq DOMAIN r /\ lo \in T /\ \A k \in DOMAIN r : lo <= k
    BY Zenon DEF Leads
  <1>2. PICK z \in T : (\A k \in T : k <= z) /\ hi = z + Len(r[z])
    BY Zenon DEF Leads
  <1>3. z \in DOMAIN r /\ lo \in DOMAIN r /\ z \in Nat /\ lo \in Nat /\ Len(r[z]) \in Nat
        /\ 1 <= Len(r[z]) /\ z + Len(r[z]) <= MaxLen
    BY <1>1, <1>2, RunFacts, Zenon
  <1>4. hi \in Nat /\ lo < hi /\ hi <= MaxLen
    <2>1. lo <= z
      BY <1>1, <1>3, Zenon
    <2> QED BY <1>2, <1>3, <2>1, SMT
  <1>5. ASSUME NEW k \in T PROVE lo <= k /\ k + Len(r[k]) <= hi
    <2>1. k \in DOMAIN r /\ lo <= k /\ k <= z
      BY <1>1, <1>2, Zenon
    <2>2. k \in Nat /\ Len(r[k]) \in Nat
      BY <2>1, RunFacts, Zenon
    <2>3. CASE k = z
      BY <1>2, <1>3, <2>1, <2>3, SMT
    <2>4. CASE k # z
      <3>1. k < z
        BY <1>3, <2>1, <2>2, <2>4, SMT
      <3>2. k + Len(r[k]) < z
        BY <1>3, <2>1, <3>1, Zenon DEF Apart
      <3>3. k + Len(r[k]) <= hi
        BY <1>2, <1>3, <2>2, <3>2, SMT
      <3> QED BY <2>1, <3>3, Zenon
    <2> QED BY <2>3, <2>4, Zenon
  <1>6. ASSUME NEW k \in DOMAIN r \ T PROVE hi < k
    <2>1. k \in Nat /\ ~ (k <= z)
      BY <1>2, RunFacts, Zenon DEF Leads
    <2>2. z < k
      BY <1>3, <2>1, SMT
    <2> QED BY <1>2, <1>3, <2>2, Zenon DEF Apart
  <1> QED BY <1>1, <1>3, <1>4, <1>5, <1>6, Zenon DEF Window

\* The span has no hole: an address of it that no run holds is in the file.
LEMMA LeadingShown ==
    ASSUME NEW r, NEW d, NEW n, Image(r, d, n), NEW T, NEW lo, NEW hi, Leads(r, T, lo, hi),
           NEW a \in Nat, Inside(lo, hi, a)
    PROVE  Shows(r, n, a)
  <1>1. Apart(r) /\ n \in Nat /\ \A k \in DOMAIN r : k <= n
    BY Zenon DEF Image
  <1>2. PICK z \in T : (\A k \in T : k <= z) /\ hi = z + Len(r[z])
    BY Zenon DEF Leads
  <1>3. z \in DOMAIN r /\ z \in Nat /\ z <= n /\ a < hi
    BY <1>1, <1>2, RunFacts, Zenon DEF Leads, Inside
  <1>4. CASE z <= a
    <2>1. z \in Over(r, a)
      BY <1>2, <1>3, <1>4, Zenon DEF Over
    <2> QED BY <2>1, Zenon DEF Shows
  <1>5. CASE ~ (z <= a)
    <2>1. a < n
      BY <1>1, <1>3, <1>5, SMT
    <2> QED BY <2>1, Zenon DEF Shows
  <1> QED BY <1>4, <1>5, Zenon

\* The bytes of the span as the image shows them.
Viewing(r, d, n, lo, hi, b) ==
    /\ b \in Seq(Values) /\ Len(b) = hi - lo
    /\ \A a \in Nat : Inside(lo, hi, a) => b[a - lo + 1] = Sees(r, d, n, a)

\* One joined run is written.
IssuedRun(r, d, n, T, lo, hi, b, q, e, m) ==
    /\ Image(r, d, n) /\ Leads(r, T, lo, hi) /\ Viewing(r, d, n, lo, hi, b)
    /\ q = Part(r, DOMAIN r \ T)
    /\ Wrote(d, lo, b, e)
    /\ m \in Nat /\ n <= m /\ hi <= m /\ (m = n \/ m = hi)

LEMMA IssuedFile ==
    ASSUME NEW r, NEW d, NEW n, NEW T, NEW lo, NEW hi, NEW b, NEW q, NEW e, NEW m,
           IssuedRun(r, d, n, T, lo, hi, b, q, e, m), NEW a \in Nat, a < Len(e)
    PROVE  /\ Inside(lo, hi, a) => e[a + 1] = Sees(r, d, n, a)
           /\ ~ Inside(lo, hi, a) => a < Len(d) /\ e[a + 1] = d[a + 1]
  <1>0. Image(r, d, n) /\ Leads(r, T, lo, hi) /\ Viewing(r, d, n, lo, hi, b) /\ Wrote(d, lo, b, e)
    BY Zenon DEF IssuedRun
  <1>1. Window(r, T, lo, hi)
    BY <1>0, LeadingWindow, Zenon DEF Image
  <1>2. lo \in Nat /\ hi \in Nat /\ Len(b) = hi - lo
    BY <1>0, <1>1, Zenon DEF Window, Viewing
  <1>3. lo + Len(b) = hi
    BY <1>2, SMT
  <1>4. /\ lo <= a /\ a < lo + Len(b) => e[a + 1] = b[a - lo + 1]
        /\ ~ (lo <= a /\ a < lo + Len(b)) => a < Len(d) /\ e[a + 1] = d[a + 1]
    BY <1>0, Zenon DEF Wrote
  <1>5. Inside(lo, hi, a) => b[a - lo + 1] = Sees(r, d, n, a)
    BY <1>0, Zenon DEF Viewing
  <1> QED BY <1>3, <1>4, <1>5, Zenon DEF Inside

\* A file image after a step of a flush.
Keeps(r, d, n, q, e, m) ==
    /\ Image(q, e, m) /\ SameView(r, d, n, q, e, m) /\ OnlyShown(r, d, n, e)
    /\ \A a \in Nat : Over(q, a) # {} => Shows(r, n, a)

LEMMA ImageFacts ==
    ASSUME NEW r, NEW d, NEW n, Image(r, d, n)
    PROVE  /\ Apart(r) /\ d \in Seq(Values) /\ Len(d) \in Nat /\ Len(d) <= MaxLen
           /\ n \in Nat /\ n <= Len(d) /\ \A k \in DOMAIN r : k <= n
  <1>1. Apart(r) /\ d \in Seq(Values) /\ Len(d) <= MaxLen /\ n \in Nat /\ n <= Len(d) /\ \A k \in DOMAIN r : k <= n
    BY Zenon DEF Image
  <1>2. Len(d) \in Nat
    BY <1>1, SMT
  <1> QED BY <1>1, <1>2, Zenon

LEMMA IssuedKeeps ==
    ASSUME NEW r, NEW d, NEW n, NEW T, NEW lo, NEW hi, NEW b, NEW q, NEW e, NEW m,
           IssuedRun(r, d, n, T, lo, hi, b, q, e, m)
    PROVE  Keeps(r, d, n, q, e, m)
  <1>0. Image(r, d, n) /\ Leads(r, T, lo, hi) /\ Viewing(r, d, n, lo, hi, b) /\ Wrote(d, lo, b, e)
    BY Zenon DEF IssuedRun
  <1>1. /\ Apart(r) /\ d \in Seq(Values) /\ Len(d) \in Nat /\ Len(d) <= MaxLen
        /\ n \in Nat /\ n <= Len(d) /\ \A k \in DOMAIN r : k <= n
    BY <1>0, ImageFacts, Zenon
  <1>2. Window(r, T, lo, hi)
    BY <1>0, <1>1, LeadingWindow, Zenon
  <1>3. lo \in Nat /\ hi \in Nat /\ hi <= MaxLen /\ Len(b) = hi - lo /\ T \subseteq DOMAIN r
    BY <1>0, <1>2, Zenon DEF Window, Viewing
  <1>4. m \in Nat /\ n <= m /\ hi <= m /\ (m = n \/ m = hi)
    BY Zenon DEF IssuedRun
  <1>5. /\ e \in Seq(Values) /\ Len(d) <= Len(e) /\ lo + Len(b) <= Len(e)
        /\ (Len(e) = Len(d) \/ Len(e) = lo + Len(b))
    BY <1>0, Zenon DEF Wrote
  <1>6. lo + Len(b) = hi /\ Len(e) \in Nat
    BY <1>3, <1>5, SMT
  <1>7. Len(e) <= MaxLen /\ m <= Len(e)
    BY <1>1, <1>3, <1>4, <1>5, <1>6, SMT
  <1>8. q = Part(r, DOMAIN r \ T) /\ (DOMAIN r \ T) \in SUBSET DOMAIN r
    BY Zenon DEF IssuedRun
  <1>9. /\ Apart(q) /\ DOMAIN q = DOMAIN r \ T
        /\ \A a \in Nat : /\ Over(q, a) = Over(r, a) \cap (DOMAIN r \ T)
                          /\ Over(q, a) # {} => Byte(q, a) = Byte(r, a)
    <2> DEFINE p == Part(r, DOMAIN r \ T)
    <2>1. /\ Apart(p) /\ DOMAIN p = DOMAIN r \ T
          /\ \A a \in Nat : /\ Over(p, a) = Over(r, a) \cap (DOMAIN r \ T)
                            /\ Over(p, a) # {} => Byte(p, a) = Byte(r, a)
      BY <1>1, <1>8, PartOver, Zenon
    <2> HIDE DEF p
    <2>2. q = p
      BY <1>8, Zenon DEF p
    <2> QED BY <2>1, <2>2, Zenon
  <1>10. \A k \in DOMAIN q : k <= m
    <2>1. ASSUME NEW k \in DOMAIN q PROVE k <= m
      <3>1. k \in DOMAIN r /\ k <= n
        BY <1>1, <1>9, Zenon
      <3>2. k \in Nat
        BY <1>1, <3>1, RunFacts, Zenon
      <3> QED BY <1>1, <1>4, <3>1, <3>2, SMT
    <2> QED BY <2>1, Zenon
  <1>11. Image(q, e, m)
    BY <1>4, <1>5, <1>7, <1>9, <1>10, Zenon DEF Image
  <1>12. ASSUME NEW a \in Nat, a < Len(e)
         PROVE  /\ Inside(lo, hi, a) => e[a + 1] = Sees(r, d, n, a)
                /\ ~ Inside(lo, hi, a) => a < Len(d) /\ e[a + 1] = d[a + 1]
    BY <1>12, IssuedFile, Zenon
  <1>13. ASSUME NEW a \in Nat, Shows(r, n, a)
         PROVE  Shows(q, m, a) /\ Sees(q, e, m, a) = Sees(r, d, n, a)
    <2>0. \A k \in Over(r, a) : k \in DOMAIN r /\ (k \in T <=> Inside(lo, hi, a))
      <3>1. \A k \in Over(r, a) : k \in T <=> Inside(lo, hi, a)
        BY <1>1, <1>2, WindowOver, Zenon
      <3> QED BY <3>1, Zenon DEF Over
    <2>1. CASE Inside(lo, hi, a)
      <3>1. Over(q, a) = {}
        BY <1>9, <2>0, <2>1, Zenon
      <3>2. a < m /\ a < Len(e)
        BY <1>3, <1>4, <1>5, <1>6, <2>1, SMT DEF Inside
      <3>3. e[a + 1] = Sees(r, d, n, a)
        BY <1>12, <2>1, <3>2, Zenon
      <3>4. Sees(q, e, m, a) = e[a + 1]
        BY <3>1, <3>2, Zenon DEF Sees
      <3> QED BY <3>2, <3>3, <3>4, Zenon DEF Shows
    <2>2. CASE ~ Inside(lo, hi, a)
      <3>1. Over(q, a) = Over(r, a)
        BY <1>9, <2>0, <2>2, Zenon
      <3>2. CASE Over(r, a) # {}
        <4>1. Byte(q, a) = Byte(r, a)
          BY <1>9, <3>1, <3>2, Zenon
        <4>2. Sees(q, e, m, a) = Byte(q, a) /\ Sees(r, d, n, a) = Byte(r, a)
          BY <3>1, <3>2, Zenon DEF Sees
        <4> QED BY <3>1, <3>2, <4>1, <4>2, Zenon DEF Shows
      <3>3. CASE Over(r, a) = {}
        <4>1. a < n
          BY <1>13, <3>3, Zenon DEF Shows
        <4>2. a < m /\ a < Len(e)
          BY <1>1, <1>4, <1>5, <1>6, <4>1, SMT
        <4>3. e[a + 1] = d[a + 1]
          BY <1>12, <2>2, <4>2, Zenon
        <4>4. Sees(q, e, m, a) = e[a + 1] /\ Sees(r, d, n, a) = d[a + 1]
          BY <3>1, <3>3, <4>1, <4>2, Zenon DEF Sees
        <4> QED BY <4>2, <4>3, <4>4, Zenon DEF Shows
      <3> QED BY <3>2, <3>3, Zenon
    <2> QED BY <2>1, <2>2, Zenon
  <1>14. SameView(r, d, n, q, e, m)
    BY <1>13, Zenon DEF SameView
  <1>15. OnlyShown(r, d, n, e)
    <2>1. \A a \in Nat : Inside(lo, hi, a) => Shows(r, n, a)
      BY <1>0, LeadingShown, Zenon
    <2> QED BY <1>12, <2>1, Zenon DEF OnlyShown
  <1>16. \A a \in Nat : Over(q, a) # {} => Shows(r, n, a)
    BY <1>9, Zenon DEF Shows
  <1> QED BY <1>11, <1>14, <1>15, <1>16, Zenon DEF Keeps

\* A joined run, of which a part may be written, is pending again.
PutBack(r, d, n, T, lo, hi, b, q, e) ==
    /\ Image(r, d, n) /\ Leads(r, T, lo, hi) /\ Viewing(r, d, n, lo, hi, b)
    /\ Refilled(r, T, lo, hi, b, q)
    /\ e \in Seq(Values) /\ Len(d) <= Len(e) /\ Len(e) <= MaxLen
    /\ \A a \in Nat : a < Len(e) =>
        /\ Inside(lo, hi, a) => (a < Len(d) /\ e[a + 1] = d[a + 1]) \/ e[a + 1] = Sees(r, d, n, a)
        /\ ~ Inside(lo, hi, a) => a < Len(d) /\ e[a + 1] = d[a + 1]

LEMMA PutBackKeeps ==
    ASSUME NEW r, NEW d, NEW n, NEW T, NEW lo, NEW hi, NEW b, NEW q, NEW e,
           PutBack(r, d, n, T, lo, hi, b, q, e)
    PROVE  Keeps(r, d, n, q, e, n)
  <1>0. Image(r, d, n) /\ Leads(r, T, lo, hi) /\ Viewing(r, d, n, lo, hi, b) /\ Refilled(r, T, lo, hi, b, q)
    BY Zenon DEF PutBack
  <1>1. /\ Apart(r) /\ d \in Seq(Values) /\ Len(d) \in Nat /\ Len(d) <= MaxLen
        /\ n \in Nat /\ n <= Len(d) /\ \A k \in DOMAIN r : k <= n
    BY <1>0, ImageFacts, Zenon
  <1>2. e \in Seq(Values) /\ Len(d) <= Len(e) /\ Len(e) <= MaxLen
    BY Zenon DEF PutBack
  <1>3. ASSUME NEW a \in Nat, a < Len(e)
        PROVE  /\ Inside(lo, hi, a) => (a < Len(d) /\ e[a + 1] = d[a + 1]) \/ e[a + 1] = Sees(r, d, n, a)
               /\ ~ Inside(lo, hi, a) => a < Len(d) /\ e[a + 1] = d[a + 1]
    BY <1>3, Zenon DEF PutBack
  <1>4. /\ DOMAIN q = (DOMAIN r \ T) \cup {lo}
        /\ q[lo] = b
        /\ \A k \in DOMAIN r \ T : k # lo /\ q[k] = r[k] /\ (k + Len(r[k]) < lo \/ hi < k)
    BY <1>0, RefilledRuns, Zenon
  <1>5. Image(q, e, n)
    <2>1. Apart(q)
      BY <1>0, RefilledApart, Zenon
    <2>2. \A k \in DOMAIN q : k <= n
      BY <1>0, <1>1, <1>4, Zenon DEF Leads
    <2>3. n <= Len(e)
      BY <1>1, <1>2, SMT
    <2> QED BY <1>1, <1>2, <2>1, <2>2, <2>3, Zenon DEF Image
  <1>6. ASSUME NEW a \in Nat, Shows(r, n, a)
        PROVE  Shows(q, n, a) /\ Sees(q, e, n, a) = Sees(r, d, n, a)
    <2>1. CASE Inside(lo, hi, a)
      <3>1. Over(q, a) # {} /\ Byte(q, a) = b[a - lo + 1]
        BY <1>0, <2>1, RefilledInside, SMT
      <3>2. b[a - lo + 1] = Sees(r, d, n, a)
        BY <1>0, <2>1, Zenon DEF Viewing
      <3>3. Sees(q, e, n, a) = Byte(q, a)
        BY <3>1, Zenon DEF Sees
      <3> QED BY <3>1, <3>2, <3>3, Zenon DEF Shows
    <2>2. CASE ~ Inside(lo, hi, a)
      <3>1. Over(q, a) = Over(r, a) /\ (Over(r, a) # {} => Byte(q, a) = Byte(r, a))
        BY <1>0, <2>2, RefilledOutside, SMT
      <3>2. CASE Over(r, a) # {}
        <4>1. Sees(q, e, n, a) = Byte(q, a) /\ Sees(r, d, n, a) = Byte(r, a)
          BY <3>1, <3>2, Zenon DEF Sees
        <4> QED BY <3>1, <3>2, <4>1, Zenon DEF Shows
      <3>3. CASE Over(r, a) = {}
        <4>1. a < n
          BY <1>6, <3>3, Zenon DEF Shows
        <4>2. a < Len(e)
          BY <1>1, <1>2, <4>1, SMT
        <4>3. e[a + 1] = d[a + 1]
          BY <1>3, <2>2, <4>2, Zenon
        <4>4. Sees(q, e, n, a) = e[a + 1] /\ Sees(r, d, n, a) = d[a + 1]
          BY <3>1, <3>3, <4>1, Zenon DEF Sees
        <4> QED BY <4>1, <4>3, <4>4, Zenon DEF Shows
      <3> QED BY <3>2, <3>3, Zenon
    <2> QED BY <2>1, <2>2, Zenon
  <1>7. SameView(r, d, n, q, e, n)
    BY <1>6, Zenon DEF SameView
  <1>8. OnlyShown(r, d, n, e)
    <2>1. \A a \in Nat : Inside(lo, hi, a) => Shows(r, n, a)
      BY <1>0, LeadingShown, Zenon
    <2> QED BY <1>3, <2>1, Zenon DEF OnlyShown
  <1>9. ASSUME NEW a \in Nat, Over(q, a) # {} PROVE Shows(r, n, a)
    <2>1. CASE Inside(lo, hi, a)
      BY <1>0, <2>1, LeadingShown, Zenon
    <2>2. CASE ~ Inside(lo, hi, a)
      <3>1. Over(q, a) = Over(r, a) /\ (Over(r, a) # {} => Byte(q, a) = Byte(r, a))
        BY <1>0, <2>2, RefilledOutside, SMT
      <3> QED BY <1>9, <3>1, Zenon DEF Shows
    <2> QED BY <2>1, <2>2, Zenon
  <1> QED BY <1>5, <1>7, <1>8, <1>9, Zenon DEF Keeps

\* What a sequence that lists the bytes of lo .. hi - 1 holds.
Lists(v, lo, hi, f) ==
    /\ lo \in Nat /\ hi \in Nat /\ lo < hi
    /\ \A a \in Nat : Inside(lo, hi, a) => v[a] \in Values
    /\ f = [i \in 1 .. (hi - lo) |-> v[lo + i - 1]]

Spells(v, lo, hi, f) ==
    /\ f \in Seq(Values) /\ Len(f) = hi - lo
    /\ \A a \in Nat : Inside(lo, hi, a) => f[a - lo + 1] = v[a]

LEMMA Listed ==
    ASSUME NEW v, NEW lo, NEW hi, NEW f, Lists(v, lo, hi, f)
    PROVE  Spells(v, lo, hi, f)
  <1> lo \in Nat /\ hi \in Nat /\ lo < hi /\ f = [i \in 1 .. (hi - lo) |-> v[lo + i - 1]]
    BY Zenon DEF Lists
  <1>1. PICK n \in Nat : n = hi - lo
    BY SMT
  <1>2. ASSUME NEW i \in 1 .. (hi - lo) PROVE f[i] = v[lo + i - 1] /\ f[i] \in Values
    <2>1. lo + i - 1 \in Nat /\ Inside(lo, hi, lo + i - 1)
      BY SMT DEF Inside
    <2>2. f[i] = v[lo + i - 1]
      BY Zenon
    <2>3. v[lo + i - 1] \in Values
      BY <2>1, Zenon DEF Lists
    <2> QED BY <2>2, <2>3, Zenon
  <1>3. f \in [1 .. n -> Values]
    BY <1>1, <1>2, Zenon
  <1>4. f \in Seq(Values) /\ Len(f) = n
    BY <1>3, MadeSequence, Zenon
  <1>5. ASSUME NEW a \in Nat, Inside(lo, hi, a) PROVE f[a - lo + 1] = v[a]
    <2>1. a - lo + 1 \in 1 .. (hi - lo) /\ lo + (a - lo + 1) - 1 = a
      BY <1>5, SMT DEF Inside
    <2>2. f[a - lo + 1] = v[lo + (a - lo + 1) - 1]
      BY <1>2, <2>1, SMT
    <2> QED BY <2>1, <2>2, Zenon
  <1> QED BY <1>1, <1>4, <1>5, Zenon DEF Spells

\* The runs a write of n bytes at an address touches.
Meets(r, at, n) == {k \in DOMAIN r : k <= at + n /\ k + Len(r[k]) >= at}

\* The range that the write and the runs it touches span.
Spans(r, at, n, lo, hi) ==
    /\ Apart(r) /\ at \in Nat /\ n \in Nat /\ 1 <= n /\ at + n <= MaxLen
    /\ lo \in {at} \cup Meets(r, at, n) /\ \A k \in {at} \cup Meets(r, at, n) : lo <= k
    /\ hi \in {at + n} \cup {k + Len(r[k]) : k \in Meets(r, at, n)}
    /\ \A e \in {at + n} \cup {k + Len(r[k]) : k \in Meets(r, at, n)} : e <= hi

Spanned(r, at, n, lo, hi) ==
    /\ lo \in Nat /\ hi \in Nat /\ lo <= at /\ at + n <= hi /\ lo < hi /\ hi <= MaxLen
    /\ \A k \in Meets(r, at, n) : lo <= k /\ k + Len(r[k]) <= hi
    /\ lo = at \/ lo \in Meets(r, at, n)
    /\ hi = at + n \/ \E k \in Meets(r, at, n) : hi = k + Len(r[k])

LEMMA SpanFacts ==
    ASSUME NEW r, NEW at, NEW n, NEW lo, NEW hi, Spans(r, at, n, lo, hi)
    PROVE  Spanned(r, at, n, lo, hi)
  <1>0. Apart(r) /\ at \in Nat /\ n \in Nat /\ 1 <= n /\ at + n <= MaxLen
    BY Zenon DEF Spans
  <1>1. /\ lo <= at /\ at + n <= hi
        /\ \A k \in Meets(r, at, n) : lo <= k /\ k + Len(r[k]) <= hi
        /\ lo = at \/ lo \in Meets(r, at, n)
        /\ hi = at + n \/ \E k \in Meets(r, at, n) : hi = k + Len(r[k])
    BY Zenon DEF Spans
  <1>2. \A k \in Meets(r, at, n) : k \in Nat /\ k + Len(r[k]) \in Nat /\ k + Len(r[k]) <= MaxLen
    BY <1>0, RunFacts, Zenon DEF Meets
  <1>3. lo \in Nat
    BY <1>0, <1>1, <1>2, Zenon
  <1>4. hi \in Nat /\ hi <= MaxLen
    <2>1. at + n \in Nat
      BY <1>0, SMT
    <2> QED BY <1>0, <1>1, <1>2, <2>1, Zenon
  <1>5. lo < hi
    BY <1>0, <1>1, <1>3, <1>4, SMT
  <1> QED BY <1>1, <1>3, <1>4, <1>5, Zenon DEF Spanned

LEMMA SpanWindow ==
    ASSUME NEW r, NEW at, NEW n, NEW lo, NEW hi, Spans(r, at, n, lo, hi)
    PROVE  Window(r, Meets(r, at, n), lo, hi)
  <1>0. Apart(r) /\ at \in Nat /\ n \in Nat /\ Meets(r, at, n) \subseteq DOMAIN r
    BY Zenon DEF Spans, Meets
  <1>1. /\ lo \in Nat /\ hi \in Nat /\ lo <= at /\ at + n <= hi /\ lo < hi /\ hi <= MaxLen
        /\ \A k \in Meets(r, at, n) : lo <= k /\ k + Len(r[k]) <= hi
        /\ lo = at \/ lo \in Meets(r, at, n)
        /\ hi = at + n \/ \E k \in Meets(r, at, n) : hi = k + Len(r[k])
    <2>1. Spanned(r, at, n, lo, hi)
      BY SpanFacts, Zenon
    <2> QED BY <2>1, Zenon DEF Spanned
  <1>2. ASSUME NEW k \in DOMAIN r \ Meets(r, at, n) PROVE k + Len(r[k]) < lo \/ hi < k
    <2>1. k \in DOMAIN r /\ k \in Nat /\ Len(r[k]) \in Nat /\ 1 <= Len(r[k])
      BY <1>0, RunFacts, Zenon
    <2>2. ~ (k <= at + n /\ k + Len(r[k]) >= at)
      BY <1>2, Zenon DEF Meets
    <2>3. CASE ~ (k <= at + n)
      <3>1. CASE hi = at + n
        BY <1>0, <2>1, <2>3, <3>1, SMT
      <3>2. CASE \E j \in Meets(r, at, n) : hi = j + Len(r[j])
        <4>1. PICK j \in Meets(r, at, n) : hi = j + Len(r[j])
          BY <3>2, Zenon
        <4>2. j \in DOMAIN r /\ j <= at + n
          BY <4>1, Zenon DEF Meets
        <4>3. j \in Nat
          BY <1>0, <4>2, RunFacts, Zenon
        <4>4. j < k
          BY <1>0, <2>1, <2>3, <4>2, <4>3, SMT
        <4>5. j + Len(r[j]) < k
          BY <1>0, <2>1, <4>2, <4>4, Zenon DEF Apart
        <4> QED BY <4>1, <4>5, Zenon
      <3> QED BY <1>1, <3>1, <3>2, Zenon
    <2>4. CASE k <= at + n
      <3>1. k + Len(r[k]) < at
        BY <1>0, <2>1, <2>2, <2>4, SMT
      <3>2. CASE lo = at
        BY <3>1, <3>2, Zenon
      <3>3. CASE lo \in Meets(r, at, n)
        <4>1. lo \in DOMAIN r /\ lo + Len(r[lo]) >= at /\ lo # k
          BY <1>2, <3>3, Zenon DEF Meets
        <4>2. Len(r[lo]) \in Nat
          BY <1>0, <4>1, RunFacts, Zenon
        <4>3. ~ (lo < k)
          <5>1. lo < k => lo + Len(r[lo]) < k
            BY <1>0, <2>1, <4>1, Zenon DEF Apart
          <5> QED BY <1>0, <1>1, <2>1, <3>1, <4>1, <4>2, <5>1, SMT
        <4>4. k < lo
          BY <1>1, <2>1, <4>1, <4>3, SMT
        <4> QED BY <1>0, <2>1, <4>1, <4>4, Zenon DEF Apart
      <3> QED BY <1>1, <3>2, <3>3, Zenon
    <2> QED BY <2>3, <2>4, Zenon
  <1> QED BY <1>0, <1>1, <1>2, Zenon DEF Window

\* An address of the range beside the write is in a run.
LEMMA SpanCovered ==
    ASSUME NEW r, NEW at, NEW n, NEW lo, NEW hi, Spans(r, at, n, lo, hi),
           NEW a \in Nat, Inside(lo, hi, a), ~ Inside(at, at + n, a)
    PROVE  Over(r, a) # {}
  <1>0. Apart(r) /\ at \in Nat /\ n \in Nat /\ \A k \in Meets(r, at, n) : k \in DOMAIN r
    BY Zenon DEF Spans, Meets
  <1>1. /\ lo \in Nat /\ hi \in Nat /\ lo <= at /\ at + n <= hi /\ lo < hi /\ hi <= MaxLen
        /\ \A k \in Meets(r, at, n) : lo <= k /\ k + Len(r[k]) <= hi
        /\ lo = at \/ lo \in Meets(r, at, n)
        /\ hi = at + n \/ \E k \in Meets(r, at, n) : hi = k + Len(r[k])
    <2>1. Spanned(r, at, n, lo, hi)
      BY SpanFacts, Zenon
    <2> QED BY <2>1, Zenon DEF Spanned
  <1>2. CASE a < at
    <2>1. lo <= a /\ lo # at
      BY <1>0, <1>1, <1>2, SMT DEF Inside
    <2>2. lo \in DOMAIN r /\ lo + Len(r[lo]) >= at
      BY <1>1, <2>1, Zenon DEF Meets
    <2>3. Len(r[lo]) \in Nat
      BY <1>0, <2>2, RunFacts, Zenon
    <2>4. a < lo + Len(r[lo])
      BY <1>0, <1>1, <1>2, <2>2, <2>3, SMT
    <2> QED BY <2>1, <2>2, <2>4, Zenon DEF Over
  <1>3. CASE ~ (a < at)
    <2>1. at + n <= a /\ a < hi /\ hi # at + n
      BY <1>0, <1>1, <1>3, SMT DEF Inside
    <2>2. PICK k \in Meets(r, at, n) : hi = k + Len(r[k])
      BY <1>1, <2>1, Zenon
    <2>3. k \in DOMAIN r /\ k <= at + n
      BY <2>2, Zenon DEF Meets
    <2>4. k \in Nat
      BY <1>0, <2>3, RunFacts, Zenon
    <2>5. k <= a
      BY <1>0, <2>1, <2>3, <2>4, SMT
    <2> QED BY <2>1, <2>2, <2>3, <2>5, Zenon DEF Over
  <1> QED BY <1>2, <1>3, Zenon

\* A write is taken up by the runs it touches.
Absorbed(r, d, n, at, b, lo, hi, m, q) ==
    /\ Image(r, d, n) /\ b \in Seq(Values) /\ Spans(r, at, Len(b), lo, hi)
    /\ Refilled(r, Meets(r, at, Len(b)), lo, hi, m, q)
    /\ at = 0 \/ Shows(r, n, at - 1)
    /\ \A a \in Nat : Inside(lo, hi, a) =>
        m[a - lo + 1] = IF Inside(at, at + Len(b), a) THEN b[a - at + 1] ELSE Byte(r, a)

\* The runs still leave no hole behind the file: a run that starts with the write follows something.
LEMMA AbsorbedImage ==
    ASSUME NEW r, NEW d, NEW n, NEW at, NEW b, NEW lo, NEW hi, NEW m, NEW q,
           Absorbed(r, d, n, at, b, lo, hi, m, q)
    PROVE  Image(q, d, n)
  <1> DEFINE t == Meets(r, at, Len(b))
  <1>0. /\ Image(r, d, n) /\ Spans(r, at, Len(b), lo, hi) /\ Refilled(r, t, lo, hi, m, q)
        /\ at = 0 \/ Shows(r, n, at - 1)
    BY Zenon DEF Absorbed
  <1>1. /\ Apart(r) /\ d \in Seq(Values) /\ Len(d) \in Nat /\ Len(d) <= MaxLen
        /\ n \in Nat /\ n <= Len(d) /\ \A k \in DOMAIN r : k <= n
    BY <1>0, ImageFacts, Zenon
  <1>2. Apart(q)
    BY <1>0, RefilledApart, Zenon
  <1>3. /\ DOMAIN q = (DOMAIN r \ t) \cup {lo}
        /\ q[lo] = m
        /\ \A k \in DOMAIN r \ t : k # lo /\ q[k] = r[k] /\ (k + Len(r[k]) < lo \/ hi < k)
    BY <1>0, RefilledRuns, Zenon
  <1>4. at \in Nat /\ Len(b) \in Nat
    BY <1>0, Zenon DEF Spans
  <1>5. lo \in Nat /\ (lo = at \/ lo \in t) /\ \A k \in t : lo <= k
    <2>1. Spanned(r, at, Len(b), lo, hi)
      BY <1>0, SpanFacts, Zenon
    <2> QED BY <2>1, Zenon DEF Spanned
  <1>6. lo <= n
    <2>1. CASE lo \in DOMAIN r
      BY <1>1, <2>1, Zenon
    <2>2. CASE lo \notin DOMAIN r
      <3>1. lo = at
        BY <1>5, <2>2, Zenon DEF Meets
      <3>2. CASE at = 0
        BY <1>1, <3>1, <3>2, SMT
      <3>3. CASE at # 0 /\ at - 1 < n
        BY <1>1, <1>4, <3>1, <3>3, SMT
      <3>4. CASE at # 0 /\ Over(r, at - 1) # {}
        <4>1. PICK k \in DOMAIN r : k <= at - 1 /\ at - 1 < k + Len(r[k])
          BY <3>4, Zenon DEF Over
        <4>2. k \in Nat /\ Len(r[k]) \in Nat
          BY <1>1, <4>1, RunFacts, Zenon
        <4>3. k <= at + Len(b) /\ k + Len(r[k]) >= at /\ ~ (at <= k)
          BY <1>4, <3>4, <4>1, <4>2, SMT
        <4>4. k \in t
          BY <4>3, Zenon DEF Meets
        <4> QED BY <1>5, <3>1, <4>3, <4>4, Zenon
      <3>5. at = 0 \/ at - 1 < n \/ Over(r, at - 1) # {}
        BY <1>0, Zenon DEF Shows
      <3> QED BY <3>2, <3>3, <3>4, <3>5, Zenon
    <2> QED BY <2>1, <2>2, Zenon
  <1>7. \A k \in DOMAIN q : k <= n
    BY <1>1, <1>3, <1>6, Zenon
  <1>8. d \in Seq(Values) /\ Len(d) <= MaxLen /\ n \in Nat /\ n <= Len(d)
    BY <1>1, Zenon
  <1> QED BY <1>2, <1>7, <1>8, Zenon DEF Image

LEMMA AbsorbedBytes ==
    ASSUME NEW r, NEW d, NEW n, NEW at, NEW b, NEW lo, NEW hi, NEW m, NEW q,
           Absorbed(r, d, n, at, b, lo, hi, m, q), NEW a \in Nat
    PROVE  /\ Inside(at, at + Len(b), a) => Over(q, a) # {} /\ Byte(q, a) = b[a - at + 1]
           /\ ~ Inside(at, at + Len(b), a) =>
                /\ Over(q, a) # {} <=> Over(r, a) # {}
                /\ Over(r, a) # {} => Byte(q, a) = Byte(r, a)
  <1> DEFINE t == Meets(r, at, Len(b))
  <1>0. Spans(r, at, Len(b), lo, hi) /\ Refilled(r, t, lo, hi, m, q)
    BY Zenon DEF Absorbed
  <1>1. Inside(at, at + Len(b), a) => Inside(lo, hi, a)
    <2>1. Spanned(r, at, Len(b), lo, hi) /\ at \in Nat /\ Len(b) \in Nat
      BY <1>0, SpanFacts, Zenon DEF Spans
    <2>2. lo \in Nat /\ hi \in Nat /\ lo <= at /\ at + Len(b) <= hi
      BY <2>1, Zenon DEF Spanned
    <2> QED BY <2>1, <2>2, SMT DEF Inside
  <1> HIDE DEF t
  <1>2. CASE Inside(lo, hi, a)
    <2>1. Over(q, a) # {} /\ Byte(q, a) = m[a - lo + 1]
      BY <1>0, <1>2, RefilledInside, SMT
    <2>2. m[a - lo + 1] = IF Inside(at, at + Len(b), a) THEN b[a - at + 1] ELSE Byte(r, a)
      BY <1>2, Zenon DEF Absorbed
    <2>3. CASE Inside(at, at + Len(b), a)
      <3>1. Byte(q, a) = b[a - at + 1]
        BY <2>1, <2>2, <2>3, Zenon
      <3> QED BY <2>1, <2>3, <3>1, Zenon
    <2>4. CASE ~ Inside(at, at + Len(b), a)
      <3>1. Byte(q, a) = Byte(r, a)
        BY <2>1, <2>2, <2>4, Zenon
      <3>2. Over(r, a) # {}
        BY <1>0, <1>2, <2>4, SpanCovered, Zenon
      <3> QED BY <2>1, <2>4, <3>1, <3>2, Zenon
    <2> QED BY <2>3, <2>4, Zenon
  <1>3. CASE ~ Inside(lo, hi, a)
    <2>1. Over(q, a) = Over(r, a) /\ (Over(r, a) # {} => Byte(q, a) = Byte(r, a))
      BY <1>0, <1>3, RefilledOutside, SMT
    <2> QED BY <1>1, <1>3, <2>1, Zenon
  <1> QED BY <1>2, <1>3, Zenon

\* discard_from cuts the runs at a length.
Cut(r, n, q) ==
    /\ Apart(r) /\ n \in Nat
    /\ q = [k \in {x \in DOMAIN r : x < n} |-> SubSeq(r[k], 1, Min({Len(r[k]), n - k}))]

CutAt(r, n, q, k) ==
    /\ q[k] \in Seq(Values) /\ Len(q[k]) \in Nat /\ 1 <= Len(q[k]) /\ k + Len(q[k]) <= n
    /\ Len(q[k]) = Len(r[k]) \/ (Len(q[k]) < Len(r[k]) /\ k + Len(q[k]) = n)
    /\ \A i \in 1 .. Len(q[k]) : q[k][i] = r[k][i]

LEMMA CutRun ==
    ASSUME NEW r, NEW n, NEW q, Cut(r, n, q), NEW k \in DOMAIN r, k < n
    PROVE  CutAt(r, n, q, k)
  <1>1. Apart(r) /\ n \in Nat
    BY Zenon DEF Cut
  <1>2. k \in Nat /\ r[k] \in Seq(Values) /\ Len(r[k]) \in Nat /\ 1 <= Len(r[k])
    BY <1>1, RunFacts, Zenon
  <1>3. n - k \in Nat /\ 1 <= n - k
    BY <1>1, <1>2, SMT
  <1>4. PICK m : m = Min({Len(r[k]), n - k})
    BY Zenon
  <1>5. m \in Nat /\ m <= Len(r[k]) /\ m <= n - k /\ (m = Len(r[k]) \/ m = n - k)
    BY <1>2, <1>3, <1>4, SmallerIs, Zenon
  <1>6. q[k] = SubSeq(r[k], 1, m)
    BY <1>4, Zenon DEF Cut
  <1>7. q[k] \in Seq(Values) /\ Len(q[k]) = m /\ \A i \in 1 .. m : q[k][i] = r[k][i]
    BY <1>2, <1>3, <1>5, <1>6, SMT
  <1>8. 1 <= m /\ k + m <= n /\ (m = Len(r[k]) \/ (m < Len(r[k]) /\ k + m = n))
    BY <1>1, <1>2, <1>3, <1>5, SMT
  <1> QED BY <1>5, <1>7, <1>8, Zenon DEF CutAt

LEMMA CutApart ==
    ASSUME NEW r, NEW n, NEW q, Cut(r, n, q)
    PROVE  Apart(q) /\ DOMAIN q = {k \in DOMAIN r : k < n}
  <1>1. DOMAIN q = {k \in DOMAIN r : k < n} /\ Apart(r) /\ n \in Nat
    BY Zenon DEF Cut
  <1>2. ASSUME NEW k \in DOMAIN q
        PROVE  /\ k \in DOMAIN r /\ q[k] \in Seq(Values) /\ Len(q[k]) \in Nat /\ 1 <= Len(q[k])
               /\ k \in Addrs /\ Len(q[k]) <= Len(r[k]) /\ Len(r[k]) \in Nat /\ k + Len(q[k]) <= MaxLen /\ k \in Nat
    <2>1. k \in DOMAIN r /\ k < n
      BY <1>1, Zenon
    <2>2. /\ k \in Nat /\ k \in Addrs /\ Len(r[k]) \in Nat /\ k + Len(r[k]) <= MaxLen
      BY <1>1, <2>1, RunFacts, Zenon
    <2>3. /\ q[k] \in Seq(Values) /\ Len(q[k]) \in Nat /\ 1 <= Len(q[k])
          /\ Len(q[k]) = Len(r[k]) \/ Len(q[k]) < Len(r[k])
      <3>1. CutAt(r, n, q, k)
        BY <2>1, CutRun, Zenon
      <3> QED BY <3>1, Zenon DEF CutAt
    <2>4. Len(q[k]) <= Len(r[k]) /\ k + Len(q[k]) <= MaxLen
      BY <2>2, <2>3, Bounds, SMT
    <2> QED BY <2>1, <2>2, <2>3, <2>4, Zenon
  <1>3. q \in [DOMAIN q -> Seq(Values)]
    <2>1. q = [k \in {x \in DOMAIN r : x < n} |-> SubSeq(r[k], 1, Min({Len(r[k]), n - k}))]
      BY Zenon DEF Cut
    <2>2. \A k \in DOMAIN q : q[k] \in Seq(Values)
      BY <1>2, Zenon
    <2> QED BY <1>1, <2>1, <2>2, Zenon
  <1>4. ASSUME NEW j \in DOMAIN q, NEW k \in DOMAIN q, j < k PROVE j + Len(q[j]) < k
    <2>1. j + Len(r[j]) < k
      BY <1>1, <1>2, <1>4, Zenon DEF Apart
    <2>2. j \in Nat /\ k \in Nat /\ Len(q[j]) \in Nat /\ Len(r[j]) \in Nat /\ Len(q[j]) <= Len(r[j])
      BY <1>2, Zenon
    <2> QED BY <2>1, <2>2, SMT
  <1> QED BY <1>1, <1>2, <1>3, <1>4, Zenon DEF Apart

LEMMA CutBelow ==
    ASSUME NEW r, NEW n, NEW q, Cut(r, n, q), NEW a \in Nat, a < n
    PROVE  Over(q, a) = Over(r, a) /\ (Over(r, a) # {} => Byte(q, a) = Byte(r, a))
  <1>1. Apart(q) /\ DOMAIN q = {k \in DOMAIN r : k < n}
    BY CutApart, Zenon
  <1>2. Apart(r) /\ n \in Nat
    BY Zenon DEF Cut
  <1>3. ASSUME NEW k \in DOMAIN r, k <= a PROVE k < n /\ (a < k + Len(r[k]) <=> a < k + Len(q[k]))
    <2>1. k \in Nat /\ Len(r[k]) \in Nat
      BY <1>2, RunFacts, Zenon
    <2>2. k < n
      BY <1>2, <1>3, <2>1, SMT
    <2>3. Len(q[k]) \in Nat /\ (Len(q[k]) = Len(r[k]) \/ (Len(q[k]) < Len(r[k]) /\ k + Len(q[k]) = n))
      <3>1. CutAt(r, n, q, k)
        BY <2>2, CutRun, Zenon
      <3> QED BY <3>1, Zenon DEF CutAt
    <2> QED BY <1>2, <1>3, <2>1, <2>2, <2>3, SMT
  <1>4. Over(q, a) = Over(r, a)
    BY <1>1, <1>3, Zenon DEF Over
  <1>5. ASSUME NEW k \in Over(r, a) PROVE Byte(q, a) = Byte(r, a)
    <2>1. k \in DOMAIN r /\ k <= a /\ k \in Over(r, a) /\ k \in Over(q, a)
      BY <1>4, Zenon DEF Over
    <2>2. k \in Nat /\ k < n /\ a < k + Len(q[k]) /\ a \in Int
      <3>1. a < k + Len(q[k])
        BY <2>1, Zenon DEF Over
      <3>2. k \in Nat
        BY <1>2, <2>1, RunFacts, Zenon
      <3> QED BY <1>3, <2>1, <3>1, <3>2, SMT
    <2>3. Len(q[k]) \in Nat /\ \A i \in 1 .. Len(q[k]) : q[k][i] = r[k][i]
      <3>1. CutAt(r, n, q, k)
        BY <2>1, <2>2, CutRun, Zenon
      <3> QED BY <3>1, Zenon DEF CutAt
    <2>4. a - k + 1 \in 1 .. Len(q[k])
      BY <2>1, <2>2, <2>3, SMT
    <2>5. Byte(q, a) = q[k][a - k + 1]
      BY <1>1, <2>1, <2>2, OneRun, Zenon
    <2>6. Byte(r, a) = r[k][a - k + 1]
      BY <1>2, <2>1, <2>2, OneRun, Zenon
    <2> QED BY <2>3, <2>4, <2>5, <2>6, Zenon
  <1> QED BY <1>4, <1>5, Zenon

LEMMA CutAbove ==
    ASSUME NEW r, NEW n, NEW q, Cut(r, n, q), NEW a \in Nat, ~ (a < n)
    PROVE  Over(q, a) = {}
  <1>1. Apart(q) /\ DOMAIN q = {k \in DOMAIN r : k < n} /\ Apart(r) /\ n \in Nat
    BY CutApart, Zenon DEF Cut
  <1>2. ASSUME NEW k \in DOMAIN q, a < k + Len(q[k]) PROVE FALSE
    <2>1. k \in DOMAIN r /\ k < n
      BY <1>1, Zenon
    <2>2. k \in Nat /\ Len(q[k]) \in Nat /\ k + Len(q[k]) <= n
      <3>1. CutAt(r, n, q, k) /\ k \in Nat
        BY <1>1, <2>1, RunFacts, CutRun, Zenon
      <3> QED BY <3>1, Zenon DEF CutAt
    <2> QED BY <1>1, <1>2, <2>2, SMT
  <1> QED BY <1>2, Zenon DEF Over

\* set_len: the file is cut, or extended by a hole.
Resized(d, n, e) ==
    /\ e \in Seq(Values) /\ Len(e) = n
    /\ \A a \in Nat : a < n => e[a + 1] = IF a < Len(d) THEN d[a + 1] ELSE Zero

SetLen(d, n, e) ==
    /\ d \in Seq(Values) /\ n \in Nat
    /\ e = IF n <= Len(d) THEN SubSeq(d, 1, n) ELSE d \o Fill(Zero, n - Len(d))

LEMMA ResizedFile ==
    ASSUME NEW d, NEW n, NEW e, SetLen(d, n, e)
    PROVE  Resized(d, n, e)
  <1>0. d \in Seq(Values) /\ n \in Nat
    BY Zenon DEF SetLen
  <1>1. CASE n <= Len(d)
    <2>1. e = SubSeq(d, 1, n)
      BY <1>1, Zenon DEF SetLen
    <2>2. e \in Seq(Values) /\ Len(e) = n
      BY <1>0, <1>1, <2>1, SMT
    <2>3. \A i \in 1 .. n : e[i] = d[i]
      BY <1>0, <1>1, <2>1, SMT
    <2>4. ASSUME NEW a \in Nat, a < n PROVE a < Len(d) /\ a + 1 \in 1 .. n
      BY <1>0, <1>1, <2>4, SMT
    <2> QED BY <2>2, <2>3, <2>4, Zenon DEF Resized
  <1>2. CASE ~ (n <= Len(d))
    <2>1. PICK l \in Nat : l = n - Len(d)
      BY <1>0, <1>2, SMT
    <2>2. PICK f : f = Fill(Zero, n - Len(d))
      BY Zenon
    <2>3. f = [i \in 1 .. l |-> Zero] /\ Zero \in Values
      BY <2>1, <2>2, Zenon DEF Fill, Values
    <2>4. f \in [1 .. l -> Values] /\ \A i \in 1 .. l : f[i] = Zero
      BY <2>3, Zenon
    <2>5. f \in Seq(Values) /\ Len(f) = l
      BY <2>4, MadeSequence, Zenon
    <2>6. e = d \o f
      BY <1>2, <2>2, Zenon DEF SetLen
    <2>7. /\ d \o f \in Seq(Values)
          /\ Len(d \o f) = Len(d) + Len(f)
          /\ \A i \in 1 .. Len(d) + Len(f) : (d \o f)[i] = IF i <= Len(d) THEN d[i] ELSE f[i - Len(d)]
      BY <1>0, <2>5, SMT
    <2>8. Len(d) + Len(f) = n
      BY <1>0, <2>1, <2>5, SMT
    <2>9. ASSUME NEW a \in Nat, a < n PROVE e[a + 1] = IF a < Len(d) THEN d[a + 1] ELSE Zero
      <3>1. a + 1 \in 1 .. Len(d) + Len(f) /\ (a + 1 <= Len(d) <=> a < Len(d))
        BY <1>0, <2>8, <2>9, SMT
      <3>2. ~ (a < Len(d)) => a + 1 - Len(d) \in 1 .. l
        BY <1>0, <2>1, <2>9, SMT
      <3>3. (d \o f)[a + 1] = IF a + 1 <= Len(d) THEN d[a + 1] ELSE f[a + 1 - Len(d)]
        BY <2>7, <3>1, SMT
      <3>4. ~ (a < Len(d)) => f[a + 1 - Len(d)] = Zero
        BY <2>4, <3>2, Zenon
      <3>5. CASE a < Len(d)
        BY <2>6, <3>1, <3>3, <3>5, Zenon
      <3>6. CASE ~ (a < Len(d))
        BY <2>6, <3>1, <3>3, <3>4, <3>6, Zenon
      <3> QED BY <3>5, <3>6, Zenon
    <2> QED BY <2>6, <2>7, <2>8, <2>9, Zenon DEF Resized
  <1> QED BY <1>1, <1>2, Zenon

LEMMA CutImage ==
    ASSUME NEW r, NEW d, NEW m, Image(r, d, m), NEW n, NEW q, Cut(r, n, q), NEW e, Resized(d, n, e), n <= MaxLen
    PROVE  /\ Image(q, e, n)
           /\ \A a \in Nat : a < n => Shows(q, n, a)
           /\ \A a \in Nat : a < n /\ Shows(r, m, a) => Sees(q, e, n, a) = Sees(r, d, m, a)
  <1>1. Apart(q) /\ DOMAIN q = {k \in DOMAIN r : k < n} /\ n \in Nat
    BY CutApart, Zenon DEF Cut
  <1>2. e \in Seq(Values) /\ Len(e) = n /\ \A a \in Nat : a < n => e[a + 1] = IF a < Len(d) THEN d[a + 1] ELSE Zero
    BY Zenon DEF Resized
  <1>3. Image(q, e, n)
    <2>1. \A k \in DOMAIN q : k <= n
      <3>1. ASSUME NEW k \in DOMAIN q PROVE k <= n
        <4>1. k \in Nat /\ k < n
          BY <1>1, RunFacts, Zenon
        <4> QED BY <1>1, <4>1, SMT
      <3> QED BY <3>1, Zenon
    <2>2. n <= Len(e) /\ Len(e) <= MaxLen
      BY <1>1, <1>2, SMT
    <2> QED BY <1>1, <1>2, <2>1, <2>2, Zenon DEF Image
  <1>4. ASSUME NEW a \in Nat, a < n, Shows(r, m, a) PROVE Sees(q, e, n, a) = Sees(r, d, m, a)
    <2>1. Over(q, a) = Over(r, a) /\ (Over(r, a) # {} => Byte(q, a) = Byte(r, a))
      BY <1>4, CutBelow, SMT
    <2>2. CASE Over(r, a) # {}
      <3>1. Sees(q, e, n, a) = Byte(q, a) /\ Sees(r, d, m, a) = Byte(r, a)
        BY <2>1, <2>2, Zenon DEF Sees
      <3> QED BY <2>1, <2>2, <3>1, Zenon
    <2>3. CASE Over(r, a) = {}
      <3>1. a < m
        BY <1>4, <2>3, Zenon DEF Shows
      <3>2. m \in Nat /\ Len(d) \in Nat /\ m <= Len(d)
        BY ImageFacts, Zenon
      <3>3. a < Len(d)
        BY <3>1, <3>2, SMT
      <3>4. Sees(q, e, n, a) = e[a + 1] /\ Sees(r, d, m, a) = d[a + 1]
        BY <1>4, <2>1, <2>3, <3>1, Zenon DEF Sees
      <3> QED BY <1>2, <1>4, <3>3, <3>4, Zenon
    <2> QED BY <2>2, <2>3, Zenon
  <1> QED BY <1>3, <1>4, Zenon DEF Shows

\* Whatever the image showed it shows after such a step,
LEMMA KeepsInView ==
    ASSUME NEW r, NEW d, NEW n, NEW q, NEW e, NEW m, Keeps(r, d, n, q, e, m),
           NEW len, NEW w, InView(r, d, n, len, w)
    PROVE  InView(q, e, m, len, w)
  <1>1. \A a \in Addrs : a \in Nat
    BY Bounds, SMT DEF Addrs
  <1>2. \A a \in Nat : Shows(r, n, a) => Shows(q, m, a) /\ Sees(q, e, m, a) = Sees(r, d, n, a)
    BY Zenon DEF Keeps, SameView
  <1> QED BY <1>1, <1>2, Zenon DEF InView

\* and what is shown is as recent as what the file and the runs hold.
LEMMA SeenRecent ==
    ASSUME NEW r, NEW d, NEW n, Image(r, d, n), NEW w, Recent(r, d, w), NEW a \in Addrs, Shows(r, n, a)
    PROVE  Sees(r, d, n, a) \in w[a]
  <1>1. CASE Over(r, a) # {}
    BY <1>1, Zenon DEF Sees, Recent
  <1>2. CASE Over(r, a) = {}
    <2>1. a < n
      BY <1>2, Zenon DEF Shows
    <2>2. a \in Nat /\ n \in Nat /\ Len(d) \in Nat /\ n <= Len(d)
      BY Bounds, ImageFacts, SMT DEF Addrs
    <2>3. a < Len(d)
      BY <2>1, <2>2, SMT
    <2>4. d[a + 1] \in w[a]
      BY <2>3, Zenon DEF Recent
    <2> QED BY <1>2, <2>1, <2>4, Zenon DEF Sees
  <1> QED BY <1>1, <1>2, Zenon

LEMMA KeepsRecent ==
    ASSUME NEW r, NEW d, NEW n, Image(r, d, n), NEW q, NEW e, NEW m, Keeps(r, d, n, q, e, m),
           NEW w, Recent(r, d, w)
    PROVE  Recent(q, e, w)
  <1>1. \A a \in Addrs : a \in Nat
    BY Bounds, SMT DEF Addrs
  <1>2. \A a \in Addrs : Shows(r, n, a) => Sees(r, d, n, a) \in w[a]
    BY SeenRecent, Zenon
  <1>3. ASSUME NEW a \in Addrs, a < Len(e) PROVE e[a + 1] \in w[a]
    <2>1. \/ a < Len(d) /\ e[a + 1] = d[a + 1]
          \/ Shows(r, n, a) /\ e[a + 1] = Sees(r, d, n, a)
      BY <1>1, <1>3, Zenon DEF Keeps, OnlyShown
    <2>2. a < Len(d) => d[a + 1] \in w[a]
      BY Zenon DEF Recent
    <2> QED BY <1>2, <2>1, <2>2, Zenon
  <1>4. ASSUME NEW a \in Addrs, Over(q, a) # {} PROVE Byte(q, a) \in w[a]
    <2>1. Shows(r, n, a)
      BY <1>1, <1>4, Zenon DEF Keeps
    <2>2. Sees(q, e, m, a) = Sees(r, d, n, a)
      BY <1>1, <2>1, Zenon DEF Keeps, SameView
    <2>3. Sees(q, e, m, a) = Byte(q, a)
      BY <1>4, Zenon DEF Sees
    <2> QED BY <1>2, <2>1, <2>2, <2>3, Zenon
  <1> QED BY <1>3, <1>4, Zenon DEF Recent

-----------------------------------------------------------------------------

(***************************************************************************)
(* The operators of the gathering on the runs of a state.                  *)
(***************************************************************************)

LEMMA ViewIs ==
    ASSUME NEW a
    PROVE  /\ Covering(a) = Over(runs, a)
           /\ Pending(a) = Byte(runs, a)
           /\ View(a) = Sees(runs, fileBytes, onDiskLen, a)
  <1>1. Covering(a) = Over(runs, a)
    BY Zenon DEF Covering, RunEnd, Over
  <1>2. Pending(a) = Byte(runs, a)
    BY <1>1, Zenon DEF Pending, Byte
  <1> QED BY <1>1, <1>2, Zenon DEF View, Sees

\* Runs that come first, from the first one on.
Leading(S) == S \subseteq DOMAIN runs /\ First \in S /\ \A k \in S, j \in DOMAIN runs : j <= k => j \in S

\* The bytes of a joined run are what the image shows there.
LEMMA LeadingBytes ==
    ASSUME Image(runs, fileBytes, onDiskLen), NEW S, Leads(runs, S, First, RunEnd(Max(S)))
    PROVE  Viewing(runs, fileBytes, onDiskLen, First, RunEnd(Max(S)),
                   JoinedBytes(S))
  <1> DEFINE lo == First
             hi == RunEnd(Max(S))
             f  == JoinedBytes(S)
  <1>1. Apart(runs)
    BY Zenon DEF Image
  <1>2. Window(runs, S, lo, hi)
    BY <1>1, LeadingWindow, Zenon
  <1>3. lo \in Nat /\ hi \in Nat /\ lo < hi
    BY <1>2, Zenon DEF Window
  <1>4. f = [i \in 1 .. (hi - lo) |-> View(lo + i - 1)]
    BY Zenon DEF JoinedBytes
  <1> HIDE DEF lo, hi, f
  <1>5. PICK v : v = [a \in Nat |-> Sees(runs, fileBytes, onDiskLen, a)]
    BY Zenon
  <1>6. \A a \in Nat : v[a] = Sees(runs, fileBytes, onDiskLen, a) /\ v[a] \in Values
    BY <1>5, SeenValue, Zenon
  <1>7. f = [i \in 1 .. (hi - lo) |-> v[lo + i - 1]]
    <2>1. ASSUME NEW i \in 1 .. (hi - lo) PROVE View(lo + i - 1) = v[lo + i - 1]
      <3>1. lo + i - 1 \in Nat
        BY <1>3, SMT
      <3> QED BY <1>6, <3>1, ViewIs, Zenon
    <2> QED BY <1>4, <2>1, Zenon
  <1>8. Lists(v, lo, hi, f)
    <2>1. \A a \in Nat : Inside(lo, hi, a) => v[a] \in Values
      BY <1>6, Zenon
    <2> QED BY <1>3, <1>7, <2>1, Zenon DEF Lists
  <1>9. /\ f \in Seq(Values) /\ Len(f) = hi - lo
        /\ \A a \in Nat : Inside(lo, hi, a) => f[a - lo + 1] = v[a]
    <2>1. Spells(v, lo, hi, f)
      BY <1>8, Listed, Zenon
    <2> QED BY <2>1, Zenon DEF Spells
  <1>10. Viewing(runs, fileBytes, onDiskLen, lo, hi, f)
    BY <1>6, <1>9, Zenon DEF Viewing
  <1> QED BY <1>10, Zenon DEF lo, hi, f

LEMMA JoinedLeads ==
    ASSUME Apart(runs), First \in DOMAIN runs, \A k \in DOMAIN runs : First <= k
    PROVE  Leading(Joined)
  <1>0. \A k \in DOMAIN runs : k \in Nat
    BY RunFacts, Zenon
  <1>1. First \in DOMAIN runs /\ \A k \in DOMAIN runs : First <= k
    BY Zenon
  <1>2. \A i \in DOMAIN runs \ {First} : ~ (i <= First)
    <2>1. ASSUME NEW i \in DOMAIN runs \ {First} PROVE ~ (i <= First)
      <3>1. i \in Nat /\ First \in Nat /\ First <= i /\ i # First
        BY <1>0, <1>1, Zenon
      <3> QED BY <3>1, SMT
    <2> QED BY <2>1, Zenon
  <1>3. First \in Joined
    BY <1>1, <1>2, Zenon DEF Joined
  <1>4. ASSUME NEW k \in Joined, NEW j \in DOMAIN runs, j <= k PROVE j \in Joined
    <2>1. \A i \in DOMAIN runs : i <= j => i <= k
      <3>1. ASSUME NEW i \in DOMAIN runs, i <= j PROVE i <= k
        <4>1. k \in DOMAIN runs
          BY Zenon DEF Joined
        <4>2. i \in Nat /\ j \in Nat /\ k \in Nat
          BY <1>0, <4>1, Zenon
        <4> QED BY <1>4, <3>1, <4>2, SMT
      <3> QED BY <3>1, Zenon
    <2> QED BY <1>4, <2>1, Zenon DEF Joined
  <1>5. Joined \subseteq DOMAIN runs
    BY Zenon DEF Joined
  <1> QED BY <1>3, <1>4, <1>5, Zenon DEF Leading


-----------------------------------------------------------------------------

(***************************************************************************)
(* What the steps do to a sound state.                                     *)
(***************************************************************************)

LEMMA AddrFacts ==
    /\ \A a \in Addrs : a \in Nat /\ a \in Int /\ a < MaxLen
    /\ \A a \in Nat : a < MaxLen => a \in Addrs
  BY Bounds, SMT DEF Addrs

LEMMA InIs ==
    ASSUME NEW at \in Nat, NEW n \in Nat, NEW a \in Addrs
    PROVE  In(a, at, n) <=> Inside(at, at + n, a)
  BY AddrFacts, SMT DEF In, Inside

LEMMA SoundFacts ==
    ASSUME NEW o, NEW stop, NEW r, NEW d, NEW n, NEW m, NEW w, NEW c, Sound(o, stop, r, d, n, m, w, c)
    PROVE  /\ Image(r, d, n) /\ Reflects(m, w)
           /\ c \in [Addrs -> SUBSET Values] /\ Recent(r, d, c)
           /\ Waiting(o, stop, r, d, n, m, w, c)
  BY Zenon DEF Sound

\* A step of a flush, and what was put back after a failed one, change nothing that can be seen.
LEMMA KeepsSound ==
    ASSUME NEW o, NEW stop, NEW r, NEW d, NEW n, NEW m, NEW w, NEW c, Sound(o, stop, r, d, n, m, w, c),
           NEW q, NEW e, NEW k, Keeps(r, d, n, q, e, k)
    PROVE  Sound(o, stop, q, e, k, m, w, c)
  <1>1. /\ Image(r, d, n) /\ Reflects(m, w)
        /\ c \in [Addrs -> SUBSET Values] /\ Recent(r, d, c)
        /\ Waiting(o, stop, r, d, n, m, w, c)
    BY SoundFacts, Zenon
  <1>2. Image(q, e, k)
    BY Zenon DEF Keeps
  <1>3. Recent(q, e, c)
    BY <1>1, KeepsRecent, Zenon
  <1>4. ASSUME NEW len, NEW v, InView(r, d, n, len, v) PROVE InView(q, e, k, len, v)
    BY <1>4, KeepsInView, Zenon
  <1>5. Waiting(o, stop, q, e, k, m, w, c)
    <2>1. CASE o = Idle /\ (~ stop => InView(r, d, n, Len(m), w))
      BY <1>4, <2>1, Zenon DEF Waiting
    <2>2. CASE o = [kind |-> "flush"] /\ ~ stop /\ InView(r, d, n, Len(m), w)
      BY <1>4, <2>2, Zenon DEF Waiting
    <2>3. CASE /\ \E x \in Modes : o = [kind |-> "mode", mode |-> x]
               /\ ~ stop /\ InView(r, d, n, Len(m), w)
      BY <1>4, <2>3, Zenon DEF Waiting
    <2>4. CASE \E l \in Nat : /\ o = [kind |-> "truncate", len |-> l] /\ ~ stop
                              /\ l < Len(m) /\ InView(r, d, n, l, w)
      BY <1>4, <2>4, Zenon DEF Waiting
    <2>5. CASE \E at \in Nat, b \in Seq(Values) :
                 /\ o = WriteOp("direct", at, b) /\ ~ stop /\ Request(at, b, m, c)
                 /\ InView(r, d, n, Len(m), w)
      BY <1>4, <2>5, Zenon DEF Waiting
    <2>6. CASE \E at \in Nat, b \in Seq(Values) :
                 /\ o = WriteOp("write", at, b) /\ ~ stop /\ Request(at, b, m, c)
                 /\ InView(r, d, n, Grown(m, at, b), Written(w, at, b))
      BY <1>4, <2>6, Zenon DEF Waiting
    <2> QED BY <1>1, <2>1, <2>2, <2>3, <2>4, <2>5, <2>6, Zenon DEF Waiting
  <1> QED BY <1>1, <1>2, <1>3, <1>5, Zenon DEF Sound

\* Which of the operations waits, by its kind.
Awaits(o, stop, r, d, n, m, w, c) ==
    \/ o.kind = "idle" /\ o = Idle /\ (~ stop => InView(r, d, n, Len(m), w))
    \/ o.kind = "flush" /\ ~ stop /\ InView(r, d, n, Len(m), w)
    \/ o.kind = "mode" /\ o.mode \in Modes /\ ~ stop /\ InView(r, d, n, Len(m), w)
    \/ o.kind = "truncate" /\ o.len \in Nat /\ ~ stop /\ o.len < Len(m) /\ InView(r, d, n, o.len, w)
    \/ /\ o.kind = "direct" /\ o = WriteOp("direct", o.at, o.bytes) /\ ~ stop /\ Request(o.at, o.bytes, m, c)
       /\ InView(r, d, n, Len(m), w)
    \/ /\ o.kind = "write" /\ o = WriteOp("write", o.at, o.bytes) /\ ~ stop /\ Request(o.at, o.bytes, m, c)
       /\ InView(r, d, n, Grown(m, o.at, o.bytes), Written(w, o.at, o.bytes))

LEMMA WaitingKinds ==
    ASSUME NEW o, NEW stop, NEW r, NEW d, NEW n, NEW m, NEW w, NEW c, Waiting(o, stop, r, d, n, m, w, c)
    PROVE  Awaits(o, stop, r, d, n, m, w, c)
  <1>1. CASE o = Idle /\ (~ stop => InView(r, d, n, Len(m), w))
    <2>1. o.kind = "idle"
      BY <1>1, SMT DEF Idle
    <2> QED BY <1>1, <2>1, Zenon DEF Awaits
  <1>2. CASE o = [kind |-> "flush"] /\ ~ stop /\ InView(r, d, n, Len(m), w)
    <2>1. o.kind = "flush"
      BY <1>2, SMT
    <2> QED BY <1>2, <2>1, Zenon DEF Awaits
  <1>3. CASE /\ \E x \in Modes : o = [kind |-> "mode", mode |-> x]
             /\ ~ stop /\ InView(r, d, n, Len(m), w)
    <2>1. PICK x \in Modes : o = [kind |-> "mode", mode |-> x]
      BY <1>3, Zenon
    <2>2. o.kind = "mode" /\ o.mode = x
      BY <2>1, SMT
    <2> QED BY <1>3, <2>2, Zenon DEF Awaits
  <1>4. CASE \E l \in Nat : /\ o = [kind |-> "truncate", len |-> l] /\ ~ stop
                            /\ l < Len(m) /\ InView(r, d, n, l, w)
    <2>1. PICK l \in Nat : /\ o = [kind |-> "truncate", len |-> l] /\ ~ stop
                           /\ l < Len(m) /\ InView(r, d, n, l, w)
      BY <1>4, Zenon
    <2>2. o.kind = "truncate" /\ o.len = l
      BY <2>1, SMT
    <2> QED BY <2>1, <2>2, Zenon DEF Awaits
  <1>5. CASE \E at \in Nat, b \in Seq(Values) :
               /\ o = WriteOp("direct", at, b) /\ ~ stop /\ Request(at, b, m, c)
               /\ InView(r, d, n, Len(m), w)
    <2>1. PICK at, b : /\ o = WriteOp("direct", at, b) /\ ~ stop /\ Request(at, b, m, c)
                       /\ InView(r, d, n, Len(m), w)
      BY <1>5, Zenon
    <2>2. o.kind = "direct" /\ o.at = at /\ o.bytes = b
      BY <2>1, SMT DEF WriteOp
    <2> QED BY <2>1, <2>2, Zenon DEF Awaits
  <1>6. CASE \E at \in Nat, b \in Seq(Values) :
               /\ o = WriteOp("write", at, b) /\ ~ stop /\ Request(at, b, m, c)
               /\ InView(r, d, n, Grown(m, at, b), Written(w, at, b))
    <2>1. PICK at, b : /\ o = WriteOp("write", at, b) /\ ~ stop /\ Request(at, b, m, c)
                       /\ InView(r, d, n, Grown(m, at, b), Written(w, at, b))
      BY <1>6, Zenon
    <2>2. o.kind = "write" /\ o.at = at /\ o.bytes = b
      BY <2>1, SMT DEF WriteOp
    <2> QED BY <2>1, <2>2, Zenon DEF Awaits
  <1> QED BY <1>1, <1>2, <1>3, <1>4, <1>5, <1>6, Zenon DEF Waiting

\* What a read may return after a write that failed.
AfterFailure(o, m, w) ==
    IF o.kind \in {"write", "direct"}
    THEN [a \in Addrs |-> IF In(a, o.at, Len(o.bytes)) /\ a < Len(m) THEN w[a] \cup {o.bytes[1]} ELSE w[a]]
    ELSE w

LEMMA RequestFacts ==
    ASSUME NEW at, NEW b, NEW m, NEW c, Request(at, b, m, c)
    PROVE  /\ at \in Nat /\ b \in Seq(Values) /\ Len(b) \in Nat /\ 1 <= Len(b) /\ at + Len(b) \in Nat
           /\ at + Len(b) <= MaxLen /\ at <= Len(m) /\ (at = Len(m) \/ at + Len(b) <= Len(m))
           /\ b[1] \in Values
  <1>1. /\ at \in Nat /\ b \in Seq(Values) /\ 1 <= Len(b)
        /\ at + Len(b) <= MaxLen /\ at <= Len(m) /\ (at = Len(m) \/ at + Len(b) <= Len(m))
    BY Zenon DEF Request
  <1>2. Len(b) \in Nat /\ at + Len(b) \in Nat /\ b[1] \in Values
    BY <1>1, SMT
  <1> QED BY <1>1, <1>2, Zenon

\* A history that also allows the write, where the image is.
Widened(at, b, m, w, v) ==
    /\ Reflects(m, v)
    /\ \A a \in Addrs : v[a] = IF Inside(at, at + Len(b), a) /\ a < Len(m) THEN w[a] \cup {b[1]} ELSE w[a]

\* The histories of a failed write only grow, where the image is.
LEMMA FailureGrows ==
    ASSUME NEW kind \in {"write", "direct"}, NEW at, NEW b, NEW m, NEW w, NEW c, Request(at, b, m, c), Reflects(m, w)
    PROVE  Widened(at, b, m, w, AfterFailure(WriteOp(kind, at, b), m, w))
  <1> DEFINE v == AfterFailure(WriteOp(kind, at, b), m, w)
  <1>1. at \in Nat /\ Len(b) \in Nat /\ b[1] \in Values
    BY RequestFacts, Zenon
  <1>2. /\ m \in Seq(Values) /\ Len(m) <= MaxLen /\ w \in [Addrs -> SUBSET Values]
        /\ \A a \in Addrs : /\ w[a] = {} <=> Len(m) <= a
                            /\ a < Len(m) => m[a + 1] \in w[a]
    BY Zenon DEF Reflects
  <1>3. v = [a \in Addrs |-> IF In(a, at, Len(b)) /\ a < Len(m) THEN w[a] \cup {b[1]} ELSE w[a]]
    <2>1. WriteOp(kind, at, b).kind = kind /\ WriteOp(kind, at, b).at = at /\ WriteOp(kind, at, b).bytes = b
      BY SMT DEF WriteOp
    <2> QED BY <2>1, Zenon DEF AfterFailure
  <1> HIDE DEF v
  <1>4. ASSUME NEW a \in Addrs
        PROVE  v[a] = IF Inside(at, at + Len(b), a) /\ a < Len(m) THEN w[a] \cup {b[1]} ELSE w[a]
    <2>1. In(a, at, Len(b)) <=> Inside(at, at + Len(b), a)
      BY <1>1, InIs, Zenon
    <2>2. v[a] = IF In(a, at, Len(b)) /\ a < Len(m) THEN w[a] \cup {b[1]} ELSE w[a]
      BY <1>3, Zenon
    <2> QED BY <2>1, <2>2, Zenon
  <1>5. v \in [Addrs -> SUBSET Values]
    <2>1. \A a \in Addrs : (IF In(a, at, Len(b)) /\ a < Len(m) THEN w[a] \cup {b[1]} ELSE w[a]) \in SUBSET Values
      <3>1. \A a \in Addrs : w[a] \in SUBSET Values
        BY <1>2, Zenon
      <3> QED BY <1>1, <3>1, Zenon
    <2> QED BY <1>3, <2>1, Zenon
  <1>6. Reflects(m, v)
    <2>1. ASSUME NEW a \in Addrs PROVE (v[a] = {} <=> Len(m) <= a) /\ (a < Len(m) => m[a + 1] \in v[a])
      <3>1. CASE a < Len(m)
        <4>1. ~ (Len(m) <= a) /\ m[a + 1] \in w[a]
          BY <1>2, <3>1, AddrFacts, SMT
        <4> QED BY <1>4, <4>1, Zenon
      <3>2. CASE ~ (a < Len(m))
        BY <1>2, <1>4, <3>2, Zenon
      <3> QED BY <3>1, <3>2, Zenon
    <2> QED BY <1>2, <1>5, <2>1, Zenon DEF Reflects
  <1>7. Widened(at, b, m, w, v)
    BY <1>4, <1>6, Zenon DEF Widened
  <1> QED BY <1>7, Zenon DEF v

\* An operation that fails leaves its write, or nothing of it.
LEMMA FailSound ==
    ASSUME NEW o, NEW stop, NEW r, NEW d, NEW n, NEW m, NEW w, NEW c, Sound(o, stop, r, d, n, m, w, c), o # Idle
    PROVE  Sound(Idle, (o.kind = "truncate"), r, d, n, m, AfterFailure(o, m, w), c)
  <1> SUFFICES ASSUME NEW v, v = AfterFailure(o, m, w)
               PROVE  Sound(Idle, (o.kind = "truncate"), r, d, n, m, v, c)
    BY Zenon
  <1>1. /\ Image(r, d, n) /\ Reflects(m, w)
        /\ c \in [Addrs -> SUBSET Values] /\ Recent(r, d, c)
        /\ Waiting(o, stop, r, d, n, m, w, c)
    BY SoundFacts, Zenon
  <1>2. ASSUME Reflects(m, v), o.kind # "truncate" => InView(r, d, n, Len(m), v)
        PROVE  Sound(Idle, (o.kind = "truncate"), r, d, n, m, v, c)
    <2>1. Waiting(Idle, (o.kind = "truncate"), r, d, n, m, v, c)
      BY <1>2, Zenon DEF Waiting
    <2> QED BY <1>1, <1>2, <2>1, Zenon DEF Sound
  <1>3. ASSUME o.kind \in {"flush", "mode", "truncate"} PROVE v = w
    BY <1>3, Zenon DEF AfterFailure
  <1>4. CASE o.kind \in {"flush", "mode"} /\ InView(r, d, n, Len(m), w)
    BY <1>1, <1>2, <1>3, <1>4, Zenon
  <1>5. CASE o.kind = "truncate"
    BY <1>1, <1>2, <1>3, <1>5, Zenon
  <1>6. ASSUME NEW kind \in {"write", "direct"}, NEW at, NEW b, o = WriteOp(kind, at, b), Request(at, b, m, c)
        PROVE  Widened(at, b, m, w, v)
    <2>1. Widened(at, b, m, w, AfterFailure(WriteOp(kind, at, b), m, w))
      BY <1>1, <1>6, FailureGrows, Zenon
    <2> QED BY <1>6, <2>1, Zenon
  <1>7. CASE /\ o = WriteOp("direct", o.at, o.bytes) /\ Request(o.at, o.bytes, m, c)
             /\ InView(r, d, n, Len(m), w)
    <2>1. PICK at, b : o = WriteOp("direct", at, b) /\ Request(at, b, m, c) /\ InView(r, d, n, Len(m), w)
      BY <1>7, Zenon
    <2>2. /\ Reflects(m, v)
          /\ \A a \in Addrs : v[a] = IF Inside(at, at + Len(b), a) /\ a < Len(m) THEN w[a] \cup {b[1]} ELSE w[a]
      BY <1>6, <2>1, Zenon DEF Widened
    <2>3. InView(r, d, n, Len(m), v)
      BY <2>1, <2>2, Zenon DEF InView
    <2> QED BY <1>2, <2>2, <2>3, Zenon
  <1>8. CASE /\ o = WriteOp("write", o.at, o.bytes) /\ Request(o.at, o.bytes, m, c)
             /\ InView(r, d, n, Grown(m, o.at, o.bytes), Written(w, o.at, o.bytes))
    <2>1. PICK at, b : /\ o = WriteOp("write", at, b) /\ Request(at, b, m, c)
                       /\ InView(r, d, n, Grown(m, at, b), Written(w, at, b))
      BY <1>8, Zenon
    <2>2. /\ Reflects(m, v)
          /\ \A a \in Addrs : v[a] = IF Inside(at, at + Len(b), a) /\ a < Len(m) THEN w[a] \cup {b[1]} ELSE w[a]
      BY <1>6, <2>1, Zenon DEF Widened
    <2>3. ASSUME NEW a \in Addrs, a < Len(m) PROVE Shows(r, n, a) /\ Sees(r, d, n, a) \in v[a]
      <3>1. a < Grown(m, at, b)
        <4>1. at \in Nat /\ Len(b) \in Nat
          BY <2>1, RequestFacts, Zenon
        <4>2. a < at + Len(b) \/ at # Len(m)
          BY <2>3, <4>1, AddrFacts, SMT
        <4> QED BY <2>3, <4>2, Zenon DEF Grown
      <3>2. Shows(r, n, a) /\ Sees(r, d, n, a) \in Written(w, at, b)[a]
        BY <2>1, <3>1, Zenon DEF InView
      <3>3. Written(w, at, b)[a] = IF Inside(at, at + Len(b), a) THEN {b[1]} ELSE w[a]
        BY Zenon DEF Written
      <3> QED BY <2>2, <2>3, <3>2, <3>3, Zenon
    <2>4. InView(r, d, n, Len(m), v)
      BY <2>3, Zenon DEF InView
    <2> QED BY <1>2, <2>2, <2>4, Zenon
  <1>9. Awaits(o, stop, r, d, n, m, w, c)
    BY <1>1, WaitingKinds, Zenon
  <1>10. \/ o.kind \in {"flush", "mode"} /\ InView(r, d, n, Len(m), w)
         \/ o.kind = "truncate"
         \/ /\ o = WriteOp("direct", o.at, o.bytes) /\ Request(o.at, o.bytes, m, c)
            /\ InView(r, d, n, Len(m), w)
         \/ /\ o = WriteOp("write", o.at, o.bytes) /\ Request(o.at, o.bytes, m, c)
            /\ InView(r, d, n, Grown(m, o.at, o.bytes), Written(w, o.at, o.bytes))
    BY <1>9, Zenon DEF Awaits
  <1> QED BY <1>4, <1>5, <1>7, <1>8, <1>10, Zenon

\* A write that is accepted, in the mirror and its history.
LEMMA AcceptReflects ==
    ASSUME NEW at, NEW b, NEW m, NEW w, NEW c, Request(at, b, m, c), Reflects(m, w)
    PROVE  Reflects(Patch(m, at, b), Written(w, at, b)) /\ Len(Patch(m, at, b)) = Grown(m, at, b)
  <1>1. /\ at \in Nat /\ b \in Seq(Values) /\ Len(b) \in Nat /\ 1 <= Len(b) /\ at + Len(b) \in Nat
        /\ at + Len(b) <= MaxLen /\ at <= Len(m) /\ (at = Len(m) \/ at + Len(b) <= Len(m))
        /\ b[1] \in Values
    BY RequestFacts, Zenon
  <1>2. /\ m \in Seq(Values) /\ Len(m) <= MaxLen /\ w \in [Addrs -> SUBSET Values]
        /\ \A a \in Addrs : /\ w[a] = {} <=> Len(m) <= a
                            /\ a < Len(m) => m[a + 1] \in w[a]
    BY Zenon DEF Reflects
  <1>3. PICK p : p = Patch(m, at, b)
    BY Zenon
  <1>4. Wrote(m, at, b, p)
    BY <1>1, <1>2, <1>3, PatchWrites, Zenon
  <1>5. PICK v : v = Written(w, at, b)
    BY Zenon
  <1>6. \A a \in Addrs : v[a] = IF Inside(at, at + Len(b), a) THEN {b[1]} ELSE w[a]
    BY <1>5, Zenon DEF Written
  <1>7. v \in [Addrs -> SUBSET Values]
    <2>1. \A a \in Addrs : (IF Inside(at, at + Len(b), a) THEN {b[1]} ELSE w[a]) \in SUBSET Values
      <3>1. \A a \in Addrs : w[a] \in SUBSET Values
        BY <1>2, Zenon
      <3> QED BY <1>1, <3>1, Zenon
    <2> QED BY <1>5, <2>1, Zenon DEF Written
  <1>8. /\ p \in Seq(Values)
        /\ Len(m) <= Len(p) /\ at + Len(b) <= Len(p) /\ (Len(p) = Len(m) \/ Len(p) = at + Len(b))
    BY <1>4, Zenon DEF Wrote
  <1>9. Len(p) \in Nat /\ Len(p) <= MaxLen /\ Len(m) \in Nat
    <2>1. Len(p) \in Nat /\ Len(m) \in Nat
      BY <1>2, <1>8, SMT
    <2> QED BY <1>1, <1>2, <1>8, <2>1, Zenon
  <1>10. Len(p) = Grown(m, at, b)
    <2>1. CASE at = Len(m)
      <3>1. Len(p) = at + Len(b)
        BY <1>1, <1>8, <1>9, <2>1, SMT
      <3> QED BY <2>1, <3>1, Zenon DEF Grown
    <2>2. CASE at # Len(m)
      <3>1. Len(p) = Len(m)
        BY <1>1, <1>8, <1>9, <2>2, SMT
      <3> QED BY <2>2, <3>1, Zenon DEF Grown
    <2> QED BY <2>1, <2>2, Zenon
  <1>11. ASSUME NEW a \in Addrs PROVE (v[a] = {} <=> Len(p) <= a) /\ (a < Len(p) => p[a + 1] \in v[a])
    <2>0. a \in Nat
      BY AddrFacts, Zenon
    <2>1. CASE Inside(at, at + Len(b), a)
      <3>1. a < Len(p) /\ ~ (Len(p) <= a) /\ a - at + 1 \in 1 .. Len(b) /\ at <= a /\ a < at + Len(b)
        BY <1>1, <1>8, <1>9, <2>0, <2>1, SMT DEF Inside
      <3>2. p[a + 1] = b[a - at + 1]
        BY <1>4, <2>0, <3>1, Zenon DEF Wrote
      <3>3. b[a - at + 1] = b[1]
        BY <3>1, Zenon DEF Request
      <3>4. v[a] = {b[1]}
        BY <1>6, <2>1, Zenon
      <3> QED BY <3>1, <3>2, <3>3, <3>4, Zenon
    <2>2. CASE ~ Inside(at, at + Len(b), a)
      <3>1. v[a] = w[a]
        BY <1>6, <2>2, Zenon
      <3>2. ~ (at <= a /\ a < at + Len(b))
        BY <2>2, Zenon DEF Inside
      <3>3. a < Len(p) => a < Len(m) /\ p[a + 1] = m[a + 1]
        BY <1>4, <2>0, <3>2, Zenon DEF Wrote
      <3>4. Len(p) <= a <=> Len(m) <= a
        BY <1>8, <1>9, <2>0, <3>3, SMT
      <3> QED BY <1>2, <3>1, <3>3, <3>4, Zenon
    <2> QED BY <2>1, <2>2, Zenon
  <1>12. Reflects(p, v)
    BY <1>7, <1>8, <1>9, <1>11, Zenon DEF Reflects
  <1> QED BY <1>3, <1>5, <1>10, <1>12, Zenon

\* Without pending runs the image is the file.
LEMMA NothingPending ==
    ASSUME NEW r, DOMAIN r = {}
    PROVE  /\ \A a : Over(r, a) = {}
           /\ \A n, a : Shows(r, n, a) <=> a < n
           /\ \A d, n, a : a < n => Sees(r, d, n, a) = d[a + 1]
  <1>1. \A a : Over(r, a) = {}
    BY Zenon DEF Over
  <1> QED BY <1>1, Zenon DEF Shows, Sees

\* What the file may hold once a flush has completed.
Settled(w, c) == [a \in Addrs |-> IF w[a] = {} THEN c[a] ELSE w[a]]

LEMMA SettledSound ==
    ASSUME NEW r, DOMAIN r = {}, NEW d, NEW n, Image(r, d, n), NEW m, NEW w, Reflects(m, w),
           NEW c \in [Addrs -> SUBSET Values], Recent(r, d, c), InView(r, d, n, Len(m), w)
    PROVE  Sound(Idle, FALSE, r, d, n, m, w, Settled(w, c))
  <1>1. PICK v : v = Settled(w, c)
    BY Zenon
  <1>2. \A a \in Addrs : v[a] = IF w[a] = {} THEN c[a] ELSE w[a]
    BY <1>1, Zenon DEF Settled
  <1>3. v \in [Addrs -> SUBSET Values]
    <2>1. \A a \in Addrs : (IF w[a] = {} THEN c[a] ELSE w[a]) \in SUBSET Values
      <3>1. \A a \in Addrs : w[a] \in SUBSET Values /\ c[a] \in SUBSET Values
        BY Zenon DEF Reflects
      <3> QED BY <3>1, Zenon
    <2> QED BY <1>1, <2>1, Zenon DEF Settled
  <1>4. ASSUME NEW a \in Addrs, a < Len(d) PROVE d[a + 1] \in v[a]
    <2>1. CASE w[a] = {}
      BY <1>2, <1>4, <2>1, Zenon DEF Recent
    <2>2. CASE w[a] # {}
      <3>1. a < Len(m)
        <4>1. ~ (Len(m) <= a) /\ m \in Seq(Values)
          BY <2>2, Zenon DEF Reflects
        <4> QED BY <4>1, AddrFacts, SMT
      <3>2. Shows(r, n, a) /\ Sees(r, d, n, a) \in w[a]
        BY <3>1, Zenon DEF InView
      <3>3. Sees(r, d, n, a) = d[a + 1]
        BY <3>2, NothingPending, Zenon
      <3> QED BY <1>2, <2>2, <3>2, <3>3, Zenon
    <2> QED BY <2>1, <2>2, Zenon
  <1>5. Recent(r, d, v)
    <2>1. \A a : Over(r, a) = {}
      BY NothingPending, Zenon
    <2> QED BY <1>4, <2>1, Zenon DEF Recent
  <1>6. Waiting(Idle, FALSE, r, d, n, m, w, v)
    BY Zenon DEF Waiting
  <1>7. Sound(Idle, FALSE, r, d, n, m, w, v)
    BY <1>3, <1>5, <1>6, Zenon DEF Sound
  <1> QED BY <1>1, <1>7, Zenon

\* A flush or a change of the mode is complete.
LEMMA FlushedSound ==
    ASSUME NEW o, NEW stop, NEW r, NEW d, NEW n, NEW m, NEW w, NEW c, Sound(o, stop, r, d, n, m, w, c),
           DOMAIN r = {}, o.kind \in {"flush", "mode"}
    PROVE  Sound(Idle, FALSE, r, d, n, m, w, Settled(w, c)) /\ ~ stop
  <1>1. /\ Image(r, d, n) /\ Reflects(m, w)
        /\ c \in [Addrs -> SUBSET Values] /\ Recent(r, d, c)
        /\ Waiting(o, stop, r, d, n, m, w, c)
    BY SoundFacts, Zenon
  <1>2. Awaits(o, stop, r, d, n, m, w, c)
    BY <1>1, WaitingKinds, Zenon
  <1>3. InView(r, d, n, Len(m), w) /\ ~ stop
    BY <1>2, Zenon DEF Awaits
  <1>4. Sound(Idle, FALSE, r, d, n, m, w, Settled(w, c))
    BY <1>1, <1>3, SettledSound, Zenon
  <1> QED BY <1>3, <1>4, Zenon

\* The flush after a write is complete, and the write is accepted.
LEMMA WroteSound ==
    ASSUME NEW o, NEW stop, NEW r, NEW d, NEW n, NEW m, NEW w, NEW c, Sound(o, stop, r, d, n, m, w, c),
           DOMAIN r = {}, o.kind = "write"
    PROVE  /\ Sound(Idle, FALSE, r, d, n, Patch(m, o.at, o.bytes), Written(w, o.at, o.bytes),
                    Settled(Written(w, o.at, o.bytes), c))
           /\ ~ stop /\ o.at \in Nat /\ Len(o.bytes) \in Nat
  <1>1. /\ Image(r, d, n) /\ Reflects(m, w)
        /\ c \in [Addrs -> SUBSET Values] /\ Recent(r, d, c)
        /\ Waiting(o, stop, r, d, n, m, w, c)
    BY SoundFacts, Zenon
  <1>2. Awaits(o, stop, r, d, n, m, w, c)
    BY <1>1, WaitingKinds, Zenon
  <1>3. /\ ~ stop /\ Request(o.at, o.bytes, m, c)
        /\ InView(r, d, n, Grown(m, o.at, o.bytes), Written(w, o.at, o.bytes))
    BY <1>2, Zenon DEF Awaits
  <1>4. /\ Reflects(Patch(m, o.at, o.bytes), Written(w, o.at, o.bytes))
        /\ Len(Patch(m, o.at, o.bytes)) = Grown(m, o.at, o.bytes)
    BY <1>1, <1>3, AcceptReflects, Zenon
  <1>5. InView(r, d, n, Len(Patch(m, o.at, o.bytes)), Written(w, o.at, o.bytes))
    BY <1>3, <1>4, Zenon
  <1>6. Sound(Idle, FALSE, r, d, n, Patch(m, o.at, o.bytes), Written(w, o.at, o.bytes),
              Settled(Written(w, o.at, o.bytes), c))
    BY <1>1, <1>4, <1>5, SettledSound, Zenon
  <1>7. o.at \in Nat /\ Len(o.bytes) \in Nat
    BY <1>3, RequestFacts, Zenon
  <1> QED BY <1>3, <1>6, <1>7, Zenon

\* A truncation is complete.
LEMMA TruncatedSound ==
    ASSUME NEW o, NEW stop, NEW r, NEW d, NEW n, NEW m, NEW w, NEW c, Sound(o, stop, r, d, n, m, w, c),
           DOMAIN r = {}, o.kind = "truncate", NEW v, v = [a \in Addrs |-> IF a < o.len THEN w[a] ELSE {}]
    PROVE  Sound(Idle, FALSE, r, d, n, SubSeq(m, 1, o.len), v, Settled(v, c)) /\ ~ stop
  <1>1. /\ Image(r, d, n) /\ Reflects(m, w)
        /\ c \in [Addrs -> SUBSET Values] /\ Recent(r, d, c)
        /\ Waiting(o, stop, r, d, n, m, w, c)
    BY SoundFacts, Zenon
  <1>2. Awaits(o, stop, r, d, n, m, w, c)
    BY <1>1, WaitingKinds, Zenon
  <1>3. PICK l \in Nat : l = o.len /\ l < Len(m) /\ InView(r, d, n, l, w) /\ ~ stop
    BY <1>2, Zenon DEF Awaits
  <1>4. /\ m \in Seq(Values) /\ Len(m) <= MaxLen /\ w \in [Addrs -> SUBSET Values]
        /\ \A a \in Addrs : /\ w[a] = {} <=> Len(m) <= a
                            /\ a < Len(m) => m[a + 1] \in w[a]
    BY <1>1, Zenon DEF Reflects
  <1>5. PICK p : p = SubSeq(m, 1, l)
    BY Zenon
  <1>6. p \in Seq(Values) /\ Len(p) = l /\ \A i \in 1 .. l : p[i] = m[i]
    BY <1>3, <1>4, <1>5, SMT
  <1>7. Len(p) <= MaxLen
    BY <1>3, <1>4, <1>6, Bounds, SMT
  <1>8. \A a \in Addrs : v[a] = IF a < l THEN w[a] ELSE {}
    BY <1>3, Zenon
  <1>9. v \in [Addrs -> SUBSET Values]
    <2>1. \A a \in Addrs : (IF a < o.len THEN w[a] ELSE {}) \in SUBSET Values
      <3>1. \A a \in Addrs : w[a] \in SUBSET Values
        BY <1>4, Zenon
      <3> QED BY <3>1, Zenon
    <2> QED BY <2>1, Zenon
  <1>10. ASSUME NEW a \in Addrs PROVE (v[a] = {} <=> Len(p) <= a) /\ (a < Len(p) => p[a + 1] \in v[a])
    <2>1. CASE a < l
      <3>1. ~ (l <= a) /\ ~ (Len(m) <= a) /\ a < Len(m) /\ a + 1 \in 1 .. l
        BY <1>3, <1>4, <2>1, AddrFacts, SMT
      <3> QED BY <1>4, <1>6, <1>8, <2>1, <3>1, Zenon
    <2>2. CASE ~ (a < l)
      <3>1. l <= a
        BY <1>3, <2>2, AddrFacts, SMT
      <3> QED BY <1>6, <1>8, <2>2, <3>1, Zenon
    <2> QED BY <2>1, <2>2, Zenon
  <1>11. Reflects(p, v)
    BY <1>6, <1>7, <1>9, <1>10, Zenon DEF Reflects
  <1>12. InView(r, d, n, Len(p), v)
    BY <1>3, <1>6, <1>8, Zenon DEF InView
  <1>13. Sound(Idle, FALSE, r, d, n, p, v, Settled(v, c))
    BY <1>1, <1>11, <1>12, SettledSound, Zenon
  <1> QED BY <1>3, <1>5, <1>13, Zenon

\* A write of its own is issued: the file reaches as far as the image does,
LEMMA DirectFits ==
    ASSUME NEW r, DOMAIN r = {}, NEW d, NEW n, Image(r, d, n), NEW at, NEW b, NEW m, NEW w, NEW c,
           Request(at, b, m, c), Reflects(m, w), InView(r, d, n, Len(m), w)
    PROVE  at <= n /\ at <= Len(d)
  <1>1. /\ at \in Nat /\ b \in Seq(Values) /\ Len(b) \in Nat /\ 1 <= Len(b) /\ at + Len(b) \in Nat
        /\ at + Len(b) <= MaxLen /\ at <= Len(m) /\ (at = Len(m) \/ at + Len(b) <= Len(m))
        /\ b[1] \in Values
    BY RequestFacts, Zenon
  <1>2. /\ Apart(r) /\ d \in Seq(Values) /\ Len(d) \in Nat /\ Len(d) <= MaxLen
        /\ n \in Nat /\ n <= Len(d) /\ \A k \in DOMAIN r : k <= n
    BY ImageFacts, Zenon
  <1>3. CASE at = 0
    BY <1>2, <1>3, SMT
  <1>4. CASE at # 0
    <2>1. Len(m) \in Nat
      <3>1. m \in Seq(Values)
        BY Zenon DEF Reflects
      <3> QED BY <3>1, SMT
    <2>2. at - 1 \in Addrs /\ at - 1 < Len(m)
      BY <1>1, <1>4, <2>1, Bounds, SMT DEF Addrs
    <2>3. Shows(r, n, at - 1)
      BY <2>2, Zenon DEF InView
    <2>4. at - 1 < n
      BY <2>3, NothingPending, Zenon
    <2> QED BY <1>1, <1>2, <2>4, SMT
  <1> QED BY <1>3, <1>4, Zenon

\* a part or all of it.
DirectPart(d, at, b, e) ==
    /\ e \in Seq(Values) /\ Len(d) <= Len(e) /\ Len(e) <= MaxLen
    /\ \A a \in Addrs : a < Len(e) =>
        \/ a < Len(d) /\ e[a + 1] = d[a + 1]
        \/ Inside(at, at + Len(b), a) /\ e[a + 1] = b[1]

LEMMA DirectImage ==
    ASSUME NEW r, DOMAIN r = {}, NEW d, NEW n, Image(r, d, n), NEW at, NEW b, NEW m, NEW c, Request(at, b, m, c),
           Recent(r, d, c), NEW e, DirectPart(d, at, b, e), NEW k \in Nat, k <= Len(e)
    PROVE  Image(r, e, k) /\ Recent(r, e, c)
  <1>1. /\ Apart(r) /\ d \in Seq(Values) /\ Len(d) \in Nat /\ Len(d) <= MaxLen
        /\ n \in Nat /\ n <= Len(d) /\ \A j \in DOMAIN r : j <= n
    BY ImageFacts, Zenon
  <1>2. Image(r, e, k)
    BY <1>1, Zenon DEF Image, DirectPart
  <1>3. ASSUME NEW a \in Addrs, a < Len(e) PROVE e[a + 1] \in c[a]
    <2>1. \/ a < Len(d) /\ e[a + 1] = d[a + 1]
          \/ Inside(at, at + Len(b), a) /\ e[a + 1] = b[1]
      BY <1>3, Zenon DEF DirectPart
    <2>2. a < Len(d) => d[a + 1] \in c[a]
      BY Zenon DEF Recent
    <2>3. Inside(at, at + Len(b), a) => b[1] \in c[a]
      BY Zenon DEF Request
    <2> QED BY <2>1, <2>2, <2>3, Zenon
  <1>4. \A a : Over(r, a) = {}
    BY NothingPending, Zenon
  <1> QED BY <1>2, <1>3, <1>4, Zenon DEF Recent

LEMMA PatchPart ==
    ASSUME NEW d \in Seq(Values), Len(d) <= MaxLen, NEW at, NEW b, NEW m, NEW c, Request(at, b, m, c), at <= Len(d),
           NEW x \in Seq(Values), Len(x) <= Len(b), \A i \in 1 .. Len(x) : x[i] = b[1]
    PROVE  DirectPart(d, at, b, Patch(d, at, x)) /\ Wrote(d, at, x, Patch(d, at, x))
  <1>1. /\ at \in Nat /\ b \in Seq(Values) /\ Len(b) \in Nat /\ 1 <= Len(b) /\ at + Len(b) \in Nat
        /\ at + Len(b) <= MaxLen /\ at <= Len(m) /\ (at = Len(m) \/ at + Len(b) <= Len(m))
        /\ b[1] \in Values
    BY RequestFacts, Zenon
  <1>2. PICK e : e = Patch(d, at, x)
    BY Zenon
  <1>3. Wrote(d, at, x, e)
    BY <1>1, <1>2, PatchWrites, Zenon
  <1>4. /\ e \in Seq(Values)
        /\ Len(d) <= Len(e) /\ at + Len(x) <= Len(e) /\ (Len(e) = Len(d) \/ Len(e) = at + Len(x))
    BY <1>3, Zenon DEF Wrote
  <1>5. Len(x) \in Nat /\ Len(d) \in Nat /\ Len(e) \in Nat
    BY <1>4, SMT
  <1>6. Len(e) <= MaxLen
    BY <1>1, <1>4, <1>5, Bounds, SMT
  <1>7. ASSUME NEW a \in Addrs, a < Len(e)
        PROVE  \/ a < Len(d) /\ e[a + 1] = d[a + 1]
               \/ Inside(at, at + Len(b), a) /\ e[a + 1] = b[1]
    <2>0. a \in Nat
      BY AddrFacts, Zenon
    <2>1. /\ at <= a /\ a < at + Len(x) => e[a + 1] = x[a - at + 1]
          /\ ~ (at <= a /\ a < at + Len(x)) => a < Len(d) /\ e[a + 1] = d[a + 1]
      BY <1>3, <1>7, <2>0, Zenon DEF Wrote
    <2>2. CASE at <= a /\ a < at + Len(x)
      <3>1. a - at + 1 \in 1 .. Len(x) /\ Inside(at, at + Len(b), a)
        BY <1>1, <1>5, <2>0, <2>2, SMT DEF Inside
      <3> QED BY <2>1, <2>2, <3>1, Zenon
    <2> QED BY <2>1, <2>2, Zenon
  <1>8. DirectPart(d, at, b, e)
    BY <1>4, <1>6, <1>7, Zenon DEF DirectPart
  <1> QED BY <1>2, <1>3, <1>8, Zenon

\* The write is in the file, and accepted.
LEMMA DirectSound ==
    ASSUME NEW o, NEW stop, NEW r, NEW d, NEW n, NEW m, NEW w, NEW c, Sound(o, stop, r, d, n, m, w, c),
           DOMAIN r = {}, o.kind = "direct"
    PROVE  /\ Sound(Idle, FALSE, r, Patch(d, o.at, o.bytes), Max({n, o.at + Len(o.bytes)}),
                    Patch(m, o.at, o.bytes), Written(w, o.at, o.bytes), Settled(Written(w, o.at, o.bytes), c))
           /\ ~ stop /\ o.at \in Nat /\ Len(o.bytes) \in Nat
  <1>1. /\ Image(r, d, n) /\ Reflects(m, w)
        /\ c \in [Addrs -> SUBSET Values] /\ Recent(r, d, c)
        /\ Waiting(o, stop, r, d, n, m, w, c)
    BY SoundFacts, Zenon
  <1>2. Awaits(o, stop, r, d, n, m, w, c)
    BY <1>1, WaitingKinds, Zenon
  <1>3. PICK at, b : at = o.at /\ b = o.bytes
    BY Zenon
  <1>4. ~ stop /\ Request(at, b, m, c) /\ InView(r, d, n, Len(m), w)
    BY <1>2, <1>3, Zenon DEF Awaits
  <1>5. /\ at \in Nat /\ b \in Seq(Values) /\ Len(b) \in Nat /\ 1 <= Len(b) /\ at + Len(b) \in Nat
        /\ at + Len(b) <= MaxLen /\ at <= Len(m) /\ (at = Len(m) \/ at + Len(b) <= Len(m))
        /\ b[1] \in Values
    BY <1>4, RequestFacts, Zenon
  <1>6. /\ Apart(r) /\ d \in Seq(Values) /\ Len(d) \in Nat /\ Len(d) <= MaxLen
        /\ n \in Nat /\ n <= Len(d) /\ \A j \in DOMAIN r : j <= n
    BY <1>1, ImageFacts, Zenon
  <1>7. at <= n /\ at <= Len(d)
    BY <1>1, <1>4, DirectFits, Zenon
  <1>8. \A i \in 1 .. Len(b) : b[i] = b[1]
    BY <1>4, Zenon DEF Request
  <1>9. PICK e : e = Patch(d, at, b)
    BY Zenon
  <1>10. DirectPart(d, at, b, e) /\ Wrote(d, at, b, e)
    <2>1. Len(b) <= Len(b)
      BY <1>5, SMT
    <2>2. DirectPart(d, at, b, Patch(d, at, b)) /\ Wrote(d, at, b, Patch(d, at, b))
      BY <1>4, <1>5, <1>6, <1>7, <1>8, <2>1, PatchPart, Zenon
    <2> QED BY <1>9, <2>2, Zenon
  <1>11. PICK k : k = Max({n, at + Len(b)})
    BY Zenon
  <1>12. k \in Nat /\ n <= k /\ at + Len(b) <= k /\ (k = n \/ k = at + Len(b))
    BY <1>5, <1>6, <1>11, LargerIs, Zenon
  <1>13. Len(d) <= Len(e) /\ at + Len(b) <= Len(e) /\ e \in Seq(Values)
    BY <1>10, Zenon DEF Wrote
  <1>14. k <= Len(e) /\ Len(e) \in Nat
    BY <1>5, <1>6, <1>12, <1>13, SMT
  <1>15. Image(r, e, k) /\ Recent(r, e, c)
    BY <1>1, <1>4, <1>10, <1>12, <1>14, DirectImage, Zenon
  <1>16. Reflects(Patch(m, at, b), Written(w, at, b)) /\ Len(Patch(m, at, b)) = Grown(m, at, b)
    BY <1>1, <1>4, AcceptReflects, Zenon
  <1>17. ASSUME NEW a \in Addrs, a < Grown(m, at, b) PROVE Shows(r, k, a) /\ Sees(r, e, k, a) \in Written(w, at, b)[a]
    <2>0. a \in Nat
      BY AddrFacts, Zenon
    <2>1. Written(w, at, b)[a] = IF Inside(at, at + Len(b), a) THEN {b[1]} ELSE w[a]
      BY Zenon DEF Written
    <2>2. CASE Inside(at, at + Len(b), a)
      <3>1. a < k /\ a < Len(e) /\ at <= a /\ a < at + Len(b) /\ a - at + 1 \in 1 .. Len(b)
        BY <1>5, <1>12, <1>14, <2>0, <2>2, SMT DEF Inside
      <3>2. e[a + 1] = b[a - at + 1]
        BY <1>10, <2>0, <3>1, Zenon DEF Wrote
      <3>3. Sees(r, e, k, a) = e[a + 1] /\ Shows(r, k, a)
        BY <3>1, NothingPending, Zenon
      <3>4. b[a - at + 1] = b[1]
        BY <1>8, <3>1, Zenon
      <3> QED BY <2>1, <2>2, <3>2, <3>3, <3>4, Zenon
    <2>3. CASE ~ Inside(at, at + Len(b), a)
      <3>1. ~ (at <= a /\ a < at + Len(b))
        BY <2>3, Zenon DEF Inside
      <3>2. a < Len(m)
        <4>1. CASE at = Len(m)
          <5>1. a < at + Len(b)
            BY <1>17, <4>1, Zenon DEF Grown
          <5> QED BY <1>5, <2>0, <3>1, <4>1, <5>1, SMT
        <4>2. CASE at # Len(m)
          BY <1>17, <4>2, Zenon DEF Grown
        <4> QED BY <4>1, <4>2, Zenon
      <3>3. Shows(r, n, a) /\ Sees(r, d, n, a) \in w[a]
        BY <1>4, <3>2, Zenon DEF InView
      <3>4. a < n /\ Sees(r, d, n, a) = d[a + 1]
        BY <3>3, NothingPending, Zenon
      <3>5. a < k /\ a < Len(e)
        BY <1>6, <1>12, <1>14, <2>0, <3>4, SMT
      <3>6. e[a + 1] = d[a + 1]
        BY <1>10, <2>0, <3>1, <3>5, Zenon DEF Wrote
      <3>7. Sees(r, e, k, a) = e[a + 1] /\ Shows(r, k, a)
        BY <3>5, NothingPending, Zenon
      <3> QED BY <2>1, <2>3, <3>3, <3>4, <3>6, <3>7, Zenon
    <2> QED BY <2>2, <2>3, Zenon
  <1>18. InView(r, e, k, Len(Patch(m, at, b)), Written(w, at, b))
    BY <1>16, <1>17, Zenon DEF InView
  <1>19. Sound(Idle, FALSE, r, e, k, Patch(m, at, b), Written(w, at, b), Settled(Written(w, at, b), c))
    BY <1>1, <1>15, <1>16, <1>18, SettledSound, Zenon
  <1> QED BY <1>3, <1>4, <1>5, <1>9, <1>11, <1>19, Zenon

\* The write failed half way.
LEMMA DirectFailSound ==
    ASSUME NEW o, NEW stop, NEW r, NEW d, NEW n, NEW m, NEW w, NEW c, Sound(o, stop, r, d, n, m, w, c),
           DOMAIN r = {}, o.kind = "direct", NEW part \in Nat, part < Len(o.bytes),
           NEW e, e = IF part = 0 THEN d ELSE Patch(d, o.at, SubSeq(o.bytes, 1, part))
    PROVE  Sound(Idle, (o.kind = "truncate"), r, e, n, m, AfterFailure(o, m, w), c)
  <1>1. /\ Image(r, d, n) /\ Reflects(m, w)
        /\ c \in [Addrs -> SUBSET Values] /\ Recent(r, d, c)
        /\ Waiting(o, stop, r, d, n, m, w, c)
    BY SoundFacts, Zenon
  <1>2. Awaits(o, stop, r, d, n, m, w, c)
    BY <1>1, WaitingKinds, Zenon
  <1>3. PICK at, b : at = o.at /\ b = o.bytes
    BY Zenon
  <1>4. o = WriteOp("direct", at, b) /\ Request(at, b, m, c) /\ InView(r, d, n, Len(m), w)
    BY <1>2, <1>3, Zenon DEF Awaits
  <1>5. /\ at \in Nat /\ b \in Seq(Values) /\ Len(b) \in Nat /\ 1 <= Len(b) /\ at + Len(b) \in Nat
        /\ at + Len(b) <= MaxLen /\ at <= Len(m) /\ (at = Len(m) \/ at + Len(b) <= Len(m))
        /\ b[1] \in Values
    BY <1>4, RequestFacts, Zenon
  <1>6. /\ Apart(r) /\ d \in Seq(Values) /\ Len(d) \in Nat /\ Len(d) <= MaxLen
        /\ n \in Nat /\ n <= Len(d) /\ \A j \in DOMAIN r : j <= n
    BY <1>1, ImageFacts, Zenon
  <1>7. at <= n /\ at <= Len(d)
    BY <1>1, <1>4, DirectFits, Zenon
  <1>8. \A i \in 1 .. Len(b) : b[i] = b[1]
    BY <1>4, Zenon DEF Request
  <1>9. DirectPart(d, at, b, e)
    <2>1. CASE part = 0
      <3>1. e = d /\ Len(d) <= Len(d)
        BY <1>6, <2>1, SMT
      <3> QED BY <1>6, <3>1, Zenon DEF DirectPart
    <2>2. CASE part # 0
      <3>1. PICK x : x = SubSeq(b, 1, part)
        BY Zenon
      <3>2. x \in Seq(Values) /\ Len(x) = part /\ \A i \in 1 .. part : x[i] = b[i] /\ i \in 1 .. Len(b)
        BY <1>3, <1>5, <3>1, SMT
      <3>3. Len(x) <= Len(b) /\ \A i \in 1 .. Len(x) : x[i] = b[1]
        <4>1. part <= Len(b)
          BY <1>3, <1>5, SMT
        <4> QED BY <1>8, <3>2, <4>1, Zenon
      <3>4. DirectPart(d, at, b, Patch(d, at, x))
        BY <1>4, <1>6, <1>7, <3>2, <3>3, PatchPart, Zenon
      <3> QED BY <1>3, <2>2, <3>1, <3>4, Zenon
    <2> QED BY <2>1, <2>2, Zenon
  <1>10. n <= Len(e)
    <2>1. Len(d) <= Len(e) /\ e \in Seq(Values)
      BY <1>9, Zenon DEF DirectPart
    <2> QED BY <1>6, <2>1, SMT
  <1>11. Image(r, e, n) /\ Recent(r, e, c)
    BY <1>1, <1>4, <1>6, <1>9, <1>10, DirectImage, Zenon
  <1>12. PICK v : v = AfterFailure(o, m, w)
    BY Zenon
  <1>13. Widened(at, b, m, w, v)
    <2>1. Widened(at, b, m, w, AfterFailure(WriteOp("direct", at, b), m, w))
      BY <1>1, <1>4, FailureGrows, Zenon
    <2> QED BY <1>4, <1>12, <2>1, Zenon
  <1>14. ASSUME NEW a \in Addrs, a < Len(m) PROVE Shows(r, n, a) /\ Sees(r, e, n, a) \in v[a]
    <2>0. v[a] = IF Inside(at, at + Len(b), a) /\ a < Len(m) THEN w[a] \cup {b[1]} ELSE w[a]
      BY <1>13, Zenon DEF Widened
    <2>1. Shows(r, n, a) /\ Sees(r, d, n, a) \in w[a]
      BY <1>4, <1>14, Zenon DEF InView
    <2>2. a < n /\ Sees(r, d, n, a) = d[a + 1] /\ Sees(r, e, n, a) = e[a + 1]
      BY <2>1, NothingPending, Zenon
    <2>3. a < Len(e)
      <3>1. e \in Seq(Values)
        BY <1>9, Zenon DEF DirectPart
      <3> QED BY <1>6, <1>10, <2>2, <3>1, AddrFacts, SMT
    <2>4. \/ a < Len(d) /\ e[a + 1] = d[a + 1]
          \/ Inside(at, at + Len(b), a) /\ e[a + 1] = b[1]
      BY <1>9, <2>3, Zenon DEF DirectPart
    <2> QED BY <1>14, <2>0, <2>1, <2>2, <2>4, Zenon
  <1>15. InView(r, e, n, Len(m), v)
    BY <1>14, Zenon DEF InView
  <1>16. Waiting(Idle, (o.kind = "truncate"), r, e, n, m, v, c)
    BY <1>15, Zenon DEF Waiting
  <1>17. Sound(Idle, (o.kind = "truncate"), r, e, n, m, v, c)
    BY <1>1, <1>11, <1>13, <1>16, Zenon DEF Sound, Widened
  <1> QED BY <1>12, <1>17, Zenon

\* A write that write_at or append lets in.
NewWrite(at, b, m) ==
    /\ at \in Nat /\ b \in Seq(Values) /\ 1 <= Len(b) /\ at + Len(b) <= MaxLen
    /\ at <= Len(m) /\ (at = Len(m) \/ at + Len(b) <= Len(m))
    /\ \A i \in 1 .. Len(b) : b[i] = b[1]

\* The file may hold its bytes from here on.
Allowing(c, at, b) == [a \in Addrs |-> IF In(a, at, Len(b)) THEN c[a] \cup {b[1]} ELSE c[a]]

Allows(c, at, b, v) ==
    /\ v \in [Addrs -> SUBSET Values]
    /\ \A a \in Addrs : v[a] = IF Inside(at, at + Len(b), a) THEN c[a] \cup {b[1]} ELSE c[a]

LEMMA AllowedRequest ==
    ASSUME NEW at, NEW b, NEW m, NewWrite(at, b, m), NEW c \in [Addrs -> SUBSET Values]
    PROVE  Allows(c, at, b, Allowing(c, at, b)) /\ Request(at, b, m, Allowing(c, at, b))
  <1>1. at \in Nat /\ b \in Seq(Values) /\ 1 <= Len(b)
    BY Zenon DEF NewWrite
  <1>2. Len(b) \in Nat /\ b[1] \in Values
    BY <1>1, SMT
  <1>3. PICK v : v = Allowing(c, at, b)
    BY Zenon
  <1>4. ASSUME NEW a \in Addrs PROVE v[a] = IF Inside(at, at + Len(b), a) THEN c[a] \cup {b[1]} ELSE c[a]
    <2>1. In(a, at, Len(b)) <=> Inside(at, at + Len(b), a)
      BY <1>1, <1>2, InIs, Zenon
    <2>2. v[a] = IF In(a, at, Len(b)) THEN c[a] \cup {b[1]} ELSE c[a]
      BY <1>3, Zenon DEF Allowing
    <2> QED BY <2>1, <2>2, Zenon
  <1>5. v \in [Addrs -> SUBSET Values]
    <2>1. \A a \in Addrs : (IF In(a, at, Len(b)) THEN c[a] \cup {b[1]} ELSE c[a]) \in SUBSET Values
      <3>1. \A a \in Addrs : c[a] \in SUBSET Values
        BY Zenon
      <3> QED BY <1>2, <3>1, Zenon
    <2> QED BY <1>3, <2>1, Zenon DEF Allowing
  <1>6. \A a \in Addrs : Inside(at, at + Len(b), a) => b[1] \in v[a]
    BY <1>4, Zenon
  <1>7. Allows(c, at, b, v)
    BY <1>4, <1>5, Zenon DEF Allows
  <1>8. Request(at, b, m, v)
    BY <1>6, Zenon DEF NewWrite, Request
  <1> QED BY <1>3, <1>7, <1>8, Zenon

LEMMA AllowsRecent ==
    ASSUME NEW r, NEW d, NEW c, Recent(r, d, c), NEW at, NEW b, NEW v, Allows(c, at, b, v)
    PROVE  Recent(r, d, v)
  <1>1. \A a \in Addrs : \A x : x \in c[a] => x \in v[a]
    BY Zenon DEF Allows
  <1> QED BY <1>1, Zenon DEF Recent

\* Between operations the image shows what it should.
LEMMA IdleView ==
    ASSUME NEW r, NEW d, NEW n, NEW m, NEW w, NEW c, Sound(Idle, FALSE, r, d, n, m, w, c)
    PROVE  InView(r, d, n, Len(m), w)
  <1>1. Awaits(Idle, FALSE, r, d, n, m, w, c)
    BY SoundFacts, WaitingKinds, Zenon
  <1>2. Idle.kind = "idle"
    BY SMT DEF Idle
  <1> QED BY <1>1, <1>2, Zenon DEF Awaits

\* A write that is issued on its own waits for its turn.
LEMMA DirectStarts ==
    ASSUME NEW r, NEW d, NEW n, NEW m, NEW w, NEW c, Sound(Idle, FALSE, r, d, n, m, w, c),
           NEW at, NEW b, NewWrite(at, b, m)
    PROVE  Sound(WriteOp("direct", at, b), FALSE, r, d, n, m, w, Allowing(c, at, b))
  <1>1. /\ Image(r, d, n) /\ Reflects(m, w)
        /\ c \in [Addrs -> SUBSET Values] /\ Recent(r, d, c)
        /\ Waiting(Idle, FALSE, r, d, n, m, w, c)
    BY SoundFacts, Zenon
  <1>2. InView(r, d, n, Len(m), w)
    BY IdleView, Zenon
  <1>3. PICK v : v = Allowing(c, at, b)
    BY Zenon
  <1>4. Allows(c, at, b, v) /\ Request(at, b, m, v)
    <2>1. Allows(c, at, b, Allowing(c, at, b)) /\ Request(at, b, m, Allowing(c, at, b))
      BY <1>1, AllowedRequest, Zenon
    <2> QED BY <1>3, <2>1, Zenon
  <1>5. v \in [Addrs -> SUBSET Values] /\ Recent(r, d, v)
    BY <1>1, <1>4, AllowsRecent, Zenon DEF Allows
  <1>6. at \in Nat /\ b \in Seq(Values)
    BY Zenon DEF NewWrite
  <1>7. Waiting(WriteOp("direct", at, b), FALSE, r, d, n, m, w, v)
    BY <1>2, <1>4, <1>6, Zenon DEF Waiting
  <1>8. Sound(WriteOp("direct", at, b), FALSE, r, d, n, m, w, v)
    BY <1>1, <1>5, <1>7, Zenon DEF Sound
  <1> QED BY <1>3, <1>8, Zenon

\* A write that the runs take up is seen at once; its flush may follow, or it is accepted.
LEMMA AbsorbStarts ==
    ASSUME NEW r, NEW d, NEW n, NEW m, NEW w, NEW c, Sound(Idle, FALSE, r, d, n, m, w, c),
           NEW at, NEW b, NewWrite(at, b, m), NEW lo, NEW hi, NEW x, NEW q, Absorbed(r, d, n, at, b, lo, hi, x, q)
    PROVE  /\ Sound(WriteOp("write", at, b), FALSE, q, d, n, m, w, Allowing(c, at, b))
           /\ Sound(Idle, FALSE, q, d, n, Patch(m, at, b), Written(w, at, b), Allowing(c, at, b))
  <1>1. /\ Image(r, d, n) /\ Reflects(m, w)
        /\ c \in [Addrs -> SUBSET Values] /\ Recent(r, d, c)
        /\ Waiting(Idle, FALSE, r, d, n, m, w, c)
    BY SoundFacts, Zenon
  <1>2. InView(r, d, n, Len(m), w)
    BY IdleView, Zenon
  <1>3. PICK v : v = Allowing(c, at, b)
    BY Zenon
  <1>4. Allows(c, at, b, v) /\ Request(at, b, m, v)
    <2>1. Allows(c, at, b, Allowing(c, at, b)) /\ Request(at, b, m, Allowing(c, at, b))
      BY <1>1, AllowedRequest, Zenon
    <2> QED BY <1>3, <2>1, Zenon
  <1>5. v \in [Addrs -> SUBSET Values] /\ Recent(r, d, v)
    BY <1>1, <1>4, AllowsRecent, Zenon DEF Allows
  <1>6. /\ at \in Nat /\ b \in Seq(Values) /\ Len(b) \in Nat /\ 1 <= Len(b) /\ at + Len(b) \in Nat
        /\ at + Len(b) <= MaxLen /\ at <= Len(m) /\ (at = Len(m) \/ at + Len(b) <= Len(m))
        /\ b[1] \in Values
    BY <1>4, RequestFacts, Zenon
  <1>7. Image(q, d, n)
    BY AbsorbedImage, Zenon
  <1>8. ASSUME NEW a \in Addrs
        PROVE  /\ Inside(at, at + Len(b), a) => Over(q, a) # {} /\ Byte(q, a) = b[1] /\ b[1] \in v[a]
               /\ ~ Inside(at, at + Len(b), a) =>
                    /\ Over(q, a) # {} <=> Over(r, a) # {}
                    /\ Over(r, a) # {} => Byte(q, a) = Byte(r, a)
    <2>0. a \in Nat
      BY AddrFacts, Zenon
    <2>1. /\ Inside(at, at + Len(b), a) => Over(q, a) # {} /\ Byte(q, a) = b[a - at + 1]
          /\ ~ Inside(at, at + Len(b), a) =>
               /\ Over(q, a) # {} <=> Over(r, a) # {}
               /\ Over(r, a) # {} => Byte(q, a) = Byte(r, a)
      BY <2>0, AbsorbedBytes, SMT
    <2>2. Inside(at, at + Len(b), a) => a - at + 1 \in 1 .. Len(b)
      BY <1>6, <2>0, SMT DEF Inside
    <2>3. Inside(at, at + Len(b), a) => b[a - at + 1] = b[1] /\ b[1] \in v[a]
      BY <1>4, <2>2, Zenon DEF Request
    <2> QED BY <2>1, <2>3, Zenon
  <1>9. Recent(q, d, v)
    <2>1. ASSUME NEW a \in Addrs, Over(q, a) # {} PROVE Byte(q, a) \in v[a]
      <3>1. Over(r, a) # {} => Byte(r, a) \in v[a]
        BY <1>5, Zenon DEF Recent
      <3> QED BY <1>8, <2>1, <3>1, Zenon
    <2> QED BY <1>5, <2>1, Zenon DEF Recent
  <1>10. ASSUME NEW a \in Addrs, a < Grown(m, at, b) PROVE Shows(q, n, a) /\ Sees(q, d, n, a) \in Written(w, at, b)[a]
    <2>0. a \in Nat
      BY AddrFacts, Zenon
    <2>1. Written(w, at, b)[a] = IF Inside(at, at + Len(b), a) THEN {b[1]} ELSE w[a]
      BY Zenon DEF Written
    <2>2. CASE Inside(at, at + Len(b), a)
      <3>1. Over(q, a) # {} /\ Byte(q, a) = b[1]
        BY <1>8, <2>2, Zenon
      <3> QED BY <2>1, <2>2, <3>1, Zenon DEF Shows, Sees
    <2>3. CASE ~ Inside(at, at + Len(b), a)
      <3>1. ~ (at <= a /\ a < at + Len(b))
        BY <2>3, Zenon DEF Inside
      <3>2. a < Len(m)
        <4>1. CASE at = Len(m)
          <5>1. a < at + Len(b)
            BY <1>10, <4>1, Zenon DEF Grown
          <5> QED BY <1>6, <2>0, <3>1, <4>1, <5>1, SMT
        <4>2. CASE at # Len(m)
          BY <1>10, <4>2, Zenon DEF Grown
        <4> QED BY <4>1, <4>2, Zenon
      <3>3. Shows(r, n, a) /\ Sees(r, d, n, a) \in w[a]
        BY <1>2, <3>2, Zenon DEF InView
      <3>4. (Over(q, a) # {} <=> Over(r, a) # {}) /\ (Over(r, a) # {} => Byte(q, a) = Byte(r, a))
        BY <1>8, <2>3, Zenon
      <3>5. Shows(q, n, a) /\ Sees(q, d, n, a) = Sees(r, d, n, a)
        BY <3>3, <3>4, Zenon DEF Shows, Sees
      <3> QED BY <2>1, <2>3, <3>3, <3>5, Zenon
    <2> QED BY <2>2, <2>3, Zenon
  <1>11. InView(q, d, n, Grown(m, at, b), Written(w, at, b))
    BY <1>10, Zenon DEF InView
  <1>12. Waiting(WriteOp("write", at, b), FALSE, q, d, n, m, w, v)
    BY <1>4, <1>6, <1>11, Zenon DEF Waiting
  <1>13. Sound(WriteOp("write", at, b), FALSE, q, d, n, m, w, v)
    BY <1>1, <1>5, <1>7, <1>9, <1>12, Zenon DEF Sound
  <1>14. Reflects(Patch(m, at, b), Written(w, at, b)) /\ Len(Patch(m, at, b)) = Grown(m, at, b)
    BY <1>1, <1>4, AcceptReflects, Zenon
  <1>15. Waiting(Idle, FALSE, q, d, n, Patch(m, at, b), Written(w, at, b), v)
    BY <1>11, <1>14, Zenon DEF Waiting
  <1>16. Sound(Idle, FALSE, q, d, n, Patch(m, at, b), Written(w, at, b), v)
    BY <1>5, <1>7, <1>9, <1>14, <1>15, Zenon DEF Sound
  <1> QED BY <1>3, <1>13, <1>16, Zenon

\* The write continues what the image shows, so its run leaves no hole behind the file.
LEMMA WriteFollows ==
    ASSUME NEW r, NEW d, NEW n, NEW m, NEW w, NEW c, Sound(Idle, FALSE, r, d, n, m, w, c),
           NEW at, NEW b, NewWrite(at, b, m)
    PROVE  at = 0 \/ Shows(r, n, at - 1)
  <1>1. at \in Nat /\ at <= Len(m)
    BY Zenon DEF NewWrite
  <1>2. m \in Seq(Values) /\ Len(m) <= MaxLen
    BY SoundFacts, Zenon DEF Reflects
  <1>3. at # 0 => at - 1 \in Addrs /\ at - 1 < Len(m)
    BY <1>1, <1>2, Bounds, SMT DEF Addrs
  <1>4. InView(r, d, n, Len(m), w)
    BY IdleView, Zenon
  <1> QED BY <1>3, <1>4, Zenon DEF InView

\* The other operations that flush begin.
LEMMA FlushStarts ==
    ASSUME NEW r, NEW d, NEW n, NEW m, NEW w, NEW c, Sound(Idle, FALSE, r, d, n, m, w, c)
    PROVE  /\ Sound([kind |-> "flush"], FALSE, r, d, n, m, w, c)
           /\ \A x \in Modes : Sound([kind |-> "mode", mode |-> x], FALSE, r, d, n, m, w, c)
  <1>1. /\ Image(r, d, n) /\ Reflects(m, w)
        /\ c \in [Addrs -> SUBSET Values] /\ Recent(r, d, c)
        /\ Waiting(Idle, FALSE, r, d, n, m, w, c)
    BY SoundFacts, Zenon
  <1>2. InView(r, d, n, Len(m), w)
    BY IdleView, Zenon
  <1>3. Waiting([kind |-> "flush"], FALSE, r, d, n, m, w, c)
    BY <1>2, Zenon DEF Waiting
  <1>4. \A x \in Modes : Waiting([kind |-> "mode", mode |-> x], FALSE, r, d, n, m, w, c)
    BY <1>2, Zenon DEF Waiting
  <1> QED BY <1>1, <1>3, <1>4, Zenon DEF Sound

\* What the file may hold after a truncation.
Shortened(c, n, l) ==
    [a \in Addrs |-> IF a < l THEN c[a] \cup (IF a < n THEN {} ELSE {Zero}) ELSE {}]

LEMMA TruncateStarts ==
    ASSUME NEW r, NEW d, NEW n, NEW m, NEW w, NEW c, Sound(Idle, FALSE, r, d, n, m, w, c),
           NEW l \in Nat, l < Len(m), NEW q, Cut(r, l, q), NEW e, SetLen(d, l, e)
    PROVE  Sound([kind |-> "truncate", len |-> l], FALSE, q, e, l, m, w, Shortened(c, n, l))
  <1>1. /\ Image(r, d, n) /\ Reflects(m, w)
        /\ c \in [Addrs -> SUBSET Values] /\ Recent(r, d, c)
        /\ Waiting(Idle, FALSE, r, d, n, m, w, c)
    BY SoundFacts, Zenon
  <1>2. InView(r, d, n, Len(m), w)
    BY IdleView, Zenon
  <1>3. /\ Apart(r) /\ d \in Seq(Values) /\ Len(d) \in Nat /\ Len(d) <= MaxLen
        /\ n \in Nat /\ n <= Len(d) /\ \A k \in DOMAIN r : k <= n
    BY <1>1, ImageFacts, Zenon
  <1>4. Resized(d, l, e)
    BY ResizedFile, Zenon
  <1>5. l <= MaxLen /\ Len(m) \in Nat
    <2>1. m \in Seq(Values) /\ Len(m) <= MaxLen
      BY <1>1, Zenon DEF Reflects
    <2> QED BY <2>1, Bounds, SMT
  <1>6. /\ Image(q, e, l)
        /\ \A a \in Nat : a < l => Shows(q, l, a)
        /\ \A a \in Nat : a < l /\ Shows(r, n, a) => Sees(q, e, l, a) = Sees(r, d, n, a)
    BY <1>1, <1>4, <1>5, CutImage, SMT
  <1>7. PICK v : v = Shortened(c, n, l)
    BY Zenon
  <1>8. \A a \in Addrs : v[a] = IF a < l THEN c[a] \cup (IF a < n THEN {} ELSE {Zero}) ELSE {}
    BY <1>7, Zenon DEF Shortened
  <1>9. v \in [Addrs -> SUBSET Values]
    <2>1. \A a \in Addrs : (IF a < l THEN c[a] \cup (IF a < n THEN {} ELSE {Zero}) ELSE {}) \in SUBSET Values
      <3>1. \A a \in Addrs : c[a] \in SUBSET Values
        BY <1>1, Zenon
      <3>2. Zero \in Values
        BY Zenon DEF Values
      <3> QED BY <3>1, <3>2, Zenon
    <2> QED BY <1>7, <2>1, Zenon DEF Shortened
  <1>10. ASSUME NEW a \in Addrs, a < Len(e) PROVE e[a + 1] \in v[a]
    <2>0. a \in Nat /\ a < l /\ e[a + 1] = IF a < Len(d) THEN d[a + 1] ELSE Zero
      BY <1>4, <1>10, AddrFacts, Zenon DEF Resized
    <2>1. CASE a < Len(d)
      <3>1. d[a + 1] \in c[a]
        BY <1>1, <2>1, Zenon DEF Recent
      <3> QED BY <1>8, <2>0, <2>1, <3>1, Zenon
    <2>2. CASE ~ (a < Len(d))
      <3>1. ~ (a < n)
        BY <1>3, <2>0, <2>2, SMT
      <3> QED BY <1>8, <2>0, <2>2, <3>1, Zenon
    <2> QED BY <2>1, <2>2, Zenon
  <1>11. ASSUME NEW a \in Addrs, Over(q, a) # {} PROVE Byte(q, a) \in v[a]
    <2>0. a \in Nat
      BY AddrFacts, Zenon
    <2>1. a < l
      BY <1>11, <2>0, CutAbove, Zenon
    <2>2. Over(q, a) = Over(r, a) /\ (Over(r, a) # {} => Byte(q, a) = Byte(r, a))
      BY <2>0, <2>1, CutBelow, SMT
    <2>3. Byte(r, a) \in c[a]
      BY <1>1, <1>11, <2>2, Zenon DEF Recent
    <2> QED BY <1>8, <1>11, <2>1, <2>2, <2>3, Zenon
  <1>12. Recent(q, e, v)
    BY <1>10, <1>11, Zenon DEF Recent
  <1>13. ASSUME NEW a \in Addrs, a < l PROVE Shows(q, l, a) /\ Sees(q, e, l, a) \in w[a]
    <2>1. a \in Nat /\ a < Len(m)
      BY <1>5, <1>13, AddrFacts, SMT
    <2>2. Shows(r, n, a) /\ Sees(r, d, n, a) \in w[a]
      BY <1>2, <2>1, Zenon DEF InView
    <2> QED BY <1>6, <1>13, <2>1, <2>2, Zenon
  <1>14. InView(q, e, l, l, w)
    BY <1>13, Zenon DEF InView
  <1>15. Waiting([kind |-> "truncate", len |-> l], FALSE, q, e, l, m, w, v)
    BY <1>14, Zenon DEF Waiting
  <1>16. Sound([kind |-> "truncate", len |-> l], FALSE, q, e, l, m, w, v)
    BY <1>1, <1>6, <1>9, <1>12, <1>15, Zenon DEF Sound
  <1> QED BY <1>7, <1>16, Zenon

\* The queued writes are discarded.
LEMMA DiscardSound ==
    ASSUME NEW o, NEW stop, NEW r, NEW d, NEW n, NEW m, NEW w, NEW c, Sound(o, stop, r, d, n, m, w, c)
    PROVE  Sound(Idle, TRUE, Part(r, {}), d, n, m, w, c)
  <1>1. /\ Image(r, d, n) /\ Reflects(m, w)
        /\ c \in [Addrs -> SUBSET Values] /\ Recent(r, d, c)
        /\ Waiting(o, stop, r, d, n, m, w, c)
    BY SoundFacts, Zenon
  <1>2. PICK q : q = Part(r, {})
    BY Zenon
  <1>3. DOMAIN q = {} /\ Apart(q)
    <2>1. Apart(r) /\ {} \in SUBSET DOMAIN r
      BY <1>1, Zenon DEF Image
    <2>2. Apart(Part(r, {})) /\ DOMAIN Part(r, {}) = {}
      BY <2>1, PartOver, Zenon
    <2> QED BY <1>2, <2>2, Zenon
  <1>4. Image(q, d, n)
    BY <1>1, <1>3, Zenon DEF Image
  <1>5. Recent(q, d, c)
    <2>1. \A a : Over(q, a) = {}
      BY <1>3, NothingPending, Zenon
    <2> QED BY <1>1, <2>1, Zenon DEF Recent
  <1>6. Waiting(Idle, TRUE, q, d, n, m, w, c)
    BY Zenon DEF Waiting
  <1>7. Sound(Idle, TRUE, q, d, n, m, w, c)
    BY <1>1, <1>4, <1>5, <1>6, Zenon DEF Sound
  <1> QED BY <1>2, <1>7, Zenon

\* A part of the joined run, or nothing of it, was written before the rest is put back.
LEMMA PartIssued ==
    ASSUME NEW r, NEW d, NEW n, Image(r, d, n), NEW T, NEW lo, NEW hi, Leads(r, T, lo, hi),
           NEW b, Viewing(r, d, n, lo, hi, b), NEW q, Refilled(r, T, lo, hi, b, q),
           NEW part \in Nat, part < Len(b),
           NEW e, e = IF part = 0 THEN d ELSE Patch(d, lo, SubSeq(b, 1, part))
    PROVE  PutBack(r, d, n, T, lo, hi, b, q, e)
  <1>1. /\ Apart(r) /\ d \in Seq(Values) /\ Len(d) \in Nat /\ Len(d) <= MaxLen
        /\ n \in Nat /\ n <= Len(d) /\ \A j \in DOMAIN r : j <= n
    BY ImageFacts, Zenon
  <1>2. Window(r, T, lo, hi)
    BY <1>1, LeadingWindow, Zenon
  <1>3. lo \in Nat /\ hi \in Nat /\ hi <= MaxLen /\ b \in Seq(Values) /\ Len(b) = hi - lo
    BY <1>2, Zenon DEF Window, Viewing
  <1>4. lo <= Len(d)
    <2>1. lo \in DOMAIN r
      BY Zenon DEF Leads
    <2>2. lo <= n
      BY <1>1, <2>1, Zenon
    <2> QED BY <1>1, <1>3, <2>2, SMT
  <1>5. CASE part = 0
    <2>1. e = d /\ Len(d) <= Len(d)
      BY <1>1, <1>5, SMT
    <2> QED BY <1>1, <2>1, Zenon DEF PutBack
  <1>6. CASE part # 0
    <2>1. PICK x : x = SubSeq(b, 1, part)
      BY Zenon
    <2>2. x \in Seq(Values) /\ Len(x) = part /\ \A i \in 1 .. part : x[i] = b[i]
      BY <1>3, <2>1, SMT
    <2>3. Wrote(d, lo, x, e)
      <3>1. Wrote(d, lo, x, Patch(d, lo, x))
        BY <1>1, <1>3, <1>4, <2>2, PatchWrites, Zenon
      <3> QED BY <1>6, <2>1, <3>1, Zenon
    <2>4. /\ e \in Seq(Values)
          /\ Len(d) <= Len(e) /\ lo + Len(x) <= Len(e) /\ (Len(e) = Len(d) \/ Len(e) = lo + Len(x))
      BY <2>3, Zenon DEF Wrote
    <2>5. lo + Len(x) < hi /\ Len(e) \in Nat
      BY <1>3, <2>2, <2>4, SMT
    <2>6. Len(e) <= MaxLen
      BY <1>1, <1>3, <2>2, <2>4, <2>5, Bounds, SMT
    <2>7. ASSUME NEW a \in Nat, a < Len(e)
          PROVE  /\ Inside(lo, hi, a) => (a < Len(d) /\ e[a + 1] = d[a + 1]) \/ e[a + 1] = Sees(r, d, n, a)
                 /\ ~ Inside(lo, hi, a) => a < Len(d) /\ e[a + 1] = d[a + 1]
      <3>1. /\ lo <= a /\ a < lo + Len(x) => e[a + 1] = x[a - lo + 1]
            /\ ~ (lo <= a /\ a < lo + Len(x)) => a < Len(d) /\ e[a + 1] = d[a + 1]
        BY <2>3, <2>7, Zenon DEF Wrote
      <3>2. CASE lo <= a /\ a < lo + Len(x)
        <4>1. a - lo + 1 \in 1 .. part /\ Inside(lo, hi, a)
          BY <1>3, <2>2, <2>5, <3>2, SMT DEF Inside
        <4>2. b[a - lo + 1] = Sees(r, d, n, a)
          BY <4>1, Zenon DEF Viewing
        <4> QED BY <2>2, <3>1, <3>2, <4>1, <4>2, Zenon
      <3> QED BY <3>1, <3>2, Zenon
    <2> QED BY <2>4, <2>6, <2>7, Zenon DEF PutBack
  <1> QED BY <1>5, <1>6, Zenon

\* The runs that absorb makes: v says what each byte becomes, f is the merged run.
Merges(r, at, b, lo, hi, v, f, q) ==
    /\ v = [a \in Nat |-> IF Inside(at, at + Len(b), a) THEN b[a - at + 1] ELSE Byte(r, a)]
    /\ f = [i \in 1 .. (hi - lo) |-> v[lo + i - 1]]
    /\ q = [k \in (DOMAIN r \ Meets(r, at, Len(b))) \cup {lo} |-> IF k = lo THEN f ELSE r[k]]

LEMMA MergedRuns ==
    ASSUME NEW r, NEW d, NEW n, Image(r, d, n), NEW at, NEW b \in Seq(Values), NEW lo, NEW hi,
           Spans(r, at, Len(b), lo, hi), at = 0 \/ Shows(r, n, at - 1), NEW v, NEW f, NEW q,
           Merges(r, at, b, lo, hi, v, f, q)
    PROVE  Absorbed(r, d, n, at, b, lo, hi, f, q)
  <1>1. Apart(r) /\ at \in Nat /\ Len(b) \in Nat
    BY Zenon DEF Spans
  <1>2. Window(r, Meets(r, at, Len(b)), lo, hi)
    BY SpanWindow, Zenon
  <1>3. lo \in Nat /\ hi \in Nat /\ lo < hi
    BY <1>2, Zenon DEF Window
  <1>4. \A a \in Nat : v[a] = IF Inside(at, at + Len(b), a) THEN b[a - at + 1] ELSE Byte(r, a)
    BY Zenon DEF Merges
  <1>5. ASSUME NEW a \in Nat, Inside(lo, hi, a) PROVE v[a] \in Values
    <2>1. CASE Inside(at, at + Len(b), a)
      <3>1. a - at + 1 \in 1 .. Len(b)
        BY <1>1, <2>1, SMT DEF Inside
      <3>2. b[a - at + 1] \in Values
        BY <3>1, SequenceValues, Zenon
      <3> QED BY <1>4, <2>1, <3>2, Zenon
    <2>2. CASE ~ Inside(at, at + Len(b), a)
      <3>1. Over(r, a) # {}
        BY <1>5, <2>2, SpanCovered, Zenon
      <3>2. PICK k \in Over(r, a) : TRUE
        BY <3>1, Zenon
      <3>3. a \in Int
        BY SMT
      <3>4. Byte(r, a) \in Values
        BY <1>1, <3>2, <3>3, OneRun, Zenon
      <3> QED BY <1>4, <2>2, <3>4, Zenon
    <2> QED BY <2>1, <2>2, Zenon
  <1>6. Lists(v, lo, hi, f)
    BY <1>3, <1>5, Zenon DEF Lists, Merges
  <1>7. /\ f \in Seq(Values) /\ Len(f) = hi - lo
        /\ \A a \in Nat : Inside(lo, hi, a) => f[a - lo + 1] = v[a]
    <2>1. Spells(v, lo, hi, f)
      BY <1>6, Listed, Zenon
    <2> QED BY <2>1, Zenon DEF Spells
  <1>8. Refilled(r, Meets(r, at, Len(b)), lo, hi, f, q)
    BY <1>1, <1>2, <1>7, Zenon DEF Refilled, Merges
  <1>9. \A a \in Nat : Inside(lo, hi, a) =>
          f[a - lo + 1] = IF Inside(at, at + Len(b), a) THEN b[a - at + 1] ELSE Byte(r, a)
    <2> SUFFICES ASSUME NEW a \in Nat, Inside(lo, hi, a)
                 PROVE  f[a - lo + 1] = IF Inside(at, at + Len(b), a) THEN b[a - at + 1] ELSE Byte(r, a)
      BY Zenon
    <2>1. v[a] = IF Inside(at, at + Len(b), a) THEN b[a - at + 1] ELSE Byte(r, a)
      BY <1>4, Zenon
    <2>2. f[a - lo + 1] = v[a]
      BY <1>7, Zenon
    <2> QED BY <2>1, <2>2, Zenon
  <1> QED BY <1>8, <1>9, Zenon DEF Absorbed

LEMMA WrittenIs ==
    ASSUME NEW w, NEW at \in Nat, NEW b, Len(b) \in Nat
    PROVE  [a \in Addrs |-> IF In(a, at, Len(b)) THEN {b[1]} ELSE w[a]] = Written(w, at, b)
  <1>1. \A a \in Addrs : In(a, at, Len(b)) <=> Inside(at, at + Len(b), a)
    BY InIs, Zenon
  <1>2. \A a \in Addrs : (IF In(a, at, Len(b)) THEN {b[1]} ELSE w[a])
                           = (IF Inside(at, at + Len(b), a) THEN {b[1]} ELSE w[a])
    BY <1>1, Zenon
  <1> QED BY <1>2, Zenon DEF Written

\* A file that was just opened.
LEMMA OpenedSound ==
    ASSUME NEW d, d = Fill(0, InitLen), NEW r, DOMAIN r = {}, r = [k \in {} |-> <<>>],
           NEW w, w = [a \in Addrs |-> IF a < InitLen THEN {d[a + 1]} ELSE {}]
    PROVE  Sound(Idle, FALSE, r, d, InitLen, d, w, w)
  <1>1. InitLen \in Nat /\ InitLen <= MaxLen /\ MaxLen \in Nat /\ 0 \in Values
    BY Bounds, SMT DEF Values
  <1>2. d = [i \in 1 .. InitLen |-> 0]
    BY Zenon DEF Fill
  <1>3. d \in [1 .. InitLen -> Values] /\ \A i \in 1 .. InitLen : d[i] = 0
    BY <1>1, <1>2, Zenon
  <1>4. d \in Seq(Values) /\ Len(d) = InitLen
    BY <1>1, <1>3, MadeSequence, Zenon
  <1>5. r \in [DOMAIN r -> Seq(Values)]
    BY Zenon
  <1>6. Apart(r)
    BY <1>5, Zenon DEF Apart
  <1>7. InitLen <= Len(d)
    BY <1>1, <1>4, SMT
  <1>8. Image(r, d, InitLen)
    BY <1>1, <1>4, <1>6, <1>7, Zenon DEF Image
  <1>9. \A a \in Addrs : w[a] = IF a < InitLen THEN {d[a + 1]} ELSE {}
    BY Zenon
  <1>10. \A a \in Addrs : a < InitLen => d[a + 1] \in Values
    <2>1. \A a \in Addrs : a < InitLen => a + 1 \in 1 .. InitLen
      BY <1>1, AddrFacts, SMT
    <2> QED BY <1>1, <1>3, <2>1, Zenon
  <1>11. w \in [Addrs -> SUBSET Values]
    <2>1. \A a \in Addrs : (IF a < InitLen THEN {d[a + 1]} ELSE {}) \in SUBSET Values
      BY <1>10, Zenon
    <2> QED BY <2>1, Zenon
  <1>12. \A a \in Addrs : (w[a] = {} <=> InitLen <= a) /\ (a < InitLen => d[a + 1] \in w[a])
    <2>1. \A a \in Addrs : a < InitLen <=> ~ (InitLen <= a)
      BY <1>1, AddrFacts, SMT
    <2> QED BY <1>9, <2>1, Zenon
  <1>13. Reflects(d, w)
    BY <1>1, <1>4, <1>11, <1>12, Zenon DEF Reflects
  <1>14. Recent(r, d, w)
    <2>1. \A a : Over(r, a) = {}
      BY NothingPending, Zenon
    <2> QED BY <1>4, <1>12, <2>1, Zenon DEF Recent
  <1>15. InView(r, d, InitLen, Len(d), w)
    <2>1. ASSUME NEW a \in Addrs, a < InitLen
          PROVE  Shows(r, InitLen, a) /\ Sees(r, d, InitLen, a) = d[a + 1]
      BY <2>1, NothingPending, Zenon
    <2> QED BY <1>4, <1>12, <2>1, Zenon DEF InView
  <1>16. Waiting(Idle, FALSE, r, d, InitLen, d, w, w)
    BY <1>15, Zenon DEF Waiting
  <1> QED BY <1>8, <1>11, <1>13, <1>14, <1>16, Zenon DEF Sound
=============================================================================
