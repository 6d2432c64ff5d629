----------------------- MODULE BufferedWritesProofs -------------------------
(***************************************************************************)
(* The write gathering neither loses nor resurrects a byte, for every page *)
(* size, budget, file length and number of writes and failures.            *)
(*                                                                         *)
(* Why the checked invariants are not inductive: ImageShowsLastWrites says *)
(* nothing while an operation waits for its flush, and the steps of the    *)
(* flush are taken then.  GatheringInv says what the image shows under     *)
(* each waiting operation: what it showed before, what a truncation will   *)
(* leave of that, or the write that the runs have taken up already.  It    *)
(* needs that no run starts beyond the end of the file, or a join would    *)
(* write over a hole, and that the file and the runs together hold only    *)
(* what the history allows, because a failed flush puts bytes of the file  *)
(* that were read back into a pending run.                                 *)
(***************************************************************************)
EXTENDS GatheredRuns, FiniteSetTheorems, WellFoundedInduction, TLAPS

\* A set of numbers has a least element,
LEMMA LeastNat ==
    ASSUME NEW T \in SUBSET Nat, T # {}
    PROVE  \E m \in T : \A y \in T : m <= y
  <1> DEFINE Below == {p \in Nat \X Nat : p[1] < p[2]}
  <1>1. IsWellFoundedOn(Below, Nat)
    <2>1. OpToRel(<, Nat) = Below
      BY Zenon DEF OpToRel
    <2> QED BY <2>1, NatLessThanWellFounded, Zenon
  <1> HIDE DEF Below
  <1>2. PICK m \in T : \A y \in T : ~(<<y, m>> \in Below)
    BY <1>1, WFMin, Zenon
  <1>3. ASSUME NEW y \in T, y < m PROVE FALSE
    <2>1. <<y, m>> \in Nat \X Nat /\ <<y, m>>[1] = y /\ <<y, m>>[2] = m
      BY Zenon
    <2>2. <<y, m>> \in Below
      BY <2>1, <1>3, Zenon DEF Below
    <2> QED BY <2>2, <1>2, Zenon
  <1> QED BY <1>3

\* and a bounded one a greatest.
LEMMA GreatestNat ==
    ASSUME NEW T \in SUBSET Nat, T # {}, NEW bound \in Nat, \A y \in T : y <= bound
    PROVE  \E m \in T : \A y \in T : y <= m
  <1> DEFINE above == {n \in Nat : \A y \in T : y <= n}
  <1>1. above \in SUBSET Nat /\ above # {}
    BY Zenon
  <1>2. PICK m \in above : \A n \in above : m <= n
    BY <1>1, LeastNat, Zenon
  <1>3. m \in T
    <2>1. SUFFICES ASSUME m \notin T PROVE FALSE
      BY Zenon
    <2>2. m > 0
      <3>1. PICK y \in T : TRUE
        BY Zenon
      <3>2. y \in Nat /\ y <= m /\ y # m
        BY <2>1, <1>2, Zenon
      <3> QED BY <3>2
    <2>3. m - 1 \in above
      BY <2>1, <2>2, <1>2
    <2> QED BY <2>2, <2>3, <1>2
  <1> QED BY <1>2, <1>3, Zenon

\* So Min and Max are what their names say.
LEMMA LeastIs ==
    ASSUME NEW S \in SUBSET Nat, S # {}
    PROVE  Min(S) \in S /\ \A y \in S : Min(S) <= y
  <1>1. \E m \in S : \A y \in S : m <= y
    BY LeastNat, Zenon
  <1> QED BY <1>1, Zenon DEF Min

LEMMA GreatestIs ==
    ASSUME NEW S \in SUBSET Nat, S # {}, NEW bound \in Nat, \A y \in S : y <= bound
    PROVE  Max(S) \in S /\ \A y \in S : y <= Max(S)
  <1>1. PICK m \in S : \A y \in S : y <= m
    BY GreatestNat, Zenon
  <1>2. \A y \in S : m >= y
    BY <1>1, SMT
  <1>3. Max(S) \in S /\ \A y \in S : Max(S) >= y
    BY <1>1, <1>2, Zenon DEF Max
  <1> QED BY <1>3, SMT

\* The pending bytes are finitely many.
LEMMA HeldFinite ==
    ASSUME NEW r, Apart(r)
    PROVE  IsFiniteSet(Held(r))
  <1>1. Held(r) \in SUBSET (0 .. MaxLen)
    BY HeldIsOver, Zenon
  <1>2. IsFiniteSet(0 .. MaxLen)
    <2>1. 0 \in Int /\ MaxLen \in Int
      BY Bounds, SMT
    <2> QED BY <2>1, FS_Interval, Zenon
  <1> QED BY <1>1, <1>2, FS_Subset, Zenon

\* What taking the runs of a window out does to their count,
LEMMA CountRemoved ==
    ASSUME NEW r, Apart(r), NEW T, NEW lo, NEW hi, Window(r, T, lo, hi)
    PROVE  Cardinality(Held(Part(r, DOMAIN r \ T)))
             = Cardinality(Held(r)) - Cardinality(Held(Part(r, T)))
  <1> DEFINE all == Held(r)
             out == Held(Part(r, T))
  <1>1. IsFiniteSet(all)
    BY HeldFinite, Zenon
  <1>2. out = {a \in all : Inside(lo, hi, a)} /\ Held(Part(r, DOMAIN r \ T)) = all \ out
    BY PartHeld, Zenon
  <1> HIDE DEF all, out
  <1>3. all \cap out = out
    BY <1>2, Zenon
  <1>4. Cardinality(all \ out) = Cardinality(all) - Cardinality(all \cap out)
    BY <1>1, FS_Difference, Zenon
  <1>5. Cardinality(Held(Part(r, DOMAIN r \ T))) = Cardinality(all) - Cardinality(out)
    BY <1>2, <1>3, <1>4, Zenon
  <1> QED BY <1>5, Zenon DEF all, out

\* and what putting one run in their place does.
LEMMA CountRefilled ==
    ASSUME NEW r, NEW T, NEW lo, NEW hi, NEW m, NEW q, Refilled(r, T, lo, hi, m, q)
    PROVE  Cardinality(Held(q)) = (Cardinality(Held(r)) - Cardinality(Held(Part(r, T)))) + (hi - lo)
  <1>1. Apart(r) /\ Window(r, T, lo, hi) /\ T \in SUBSET DOMAIN r /\ lo \in Nat /\ hi \in Nat /\ lo < hi
    BY Zenon DEF Refilled, Window
  <1>2. PICK rest : rest = Held(Part(r, DOMAIN r \ T))
    BY Zenon
  <1>3. PICK new : new = lo .. (hi - 1)
    BY Zenon
  <1>4. Held(q) = rest \cup new /\ rest \cap new = {}
    <2>1. /\ Held(q) = Held(Part(r, DOMAIN r \ T)) \cup (lo .. (hi - 1))
          /\ Held(Part(r, DOMAIN r \ T)) \cap (lo .. (hi - 1)) = {}
      BY RefilledHeld, Zenon
    <2> QED BY <1>2, <1>3, <2>1, Zenon
  <1>5. Cardinality(rest) = Cardinality(Held(r)) - Cardinality(Held(Part(r, T)))
    BY <1>1, <1>2, CountRemoved, Zenon
  <1>6. IsFiniteSet(rest)
    <2>1. (DOMAIN r \ T) \in SUBSET DOMAIN r
      BY Zenon
    <2>2. Apart(Part(r, DOMAIN r \ T))
      BY <1>1, <2>1, PartOver, Zenon
    <2> QED BY <1>2, <2>2, HeldFinite, Zenon
  <1>7. IsFiniteSet(new) /\ Cardinality(new) = hi - lo
    <2>1. lo \in Int /\ hi - 1 \in Int /\ ~ (lo > hi - 1) /\ (hi - 1) - lo + 1 = hi - lo
      BY <1>1, SMT
    <2>2. IsFiniteSet(lo .. (hi - 1)) /\ Cardinality(lo .. (hi - 1)) = IF lo > hi - 1 THEN 0 ELSE (hi - 1) - lo + 1
      BY <2>1, FS_Interval, Zenon
    <2> QED BY <1>3, <2>1, <2>2, Zenon
  <1>8. Cardinality(rest \cup new) = Cardinality(rest) + Cardinality(new) - Cardinality(rest \cap new)
    BY <1>6, <1>7, FS_Union, Zenon
  <1>9. Cardinality(rest) \in Nat /\ Cardinality({}) = 0
    BY <1>6, FS_CardinalityType, FS_EmptySet, Zenon
  <1>10. Cardinality(Held(q)) = Cardinality(rest) + (hi - lo) - 0
    BY <1>4, <1>7, <1>8, <1>9, Zenon
  <1>11. Cardinality(Held(q)) = Cardinality(rest) + (hi - lo)
    BY <1>1, <1>9, <1>10, SMT
  <1> QED BY <1>5, <1>11, Zenon

\* flush starts with the first run, and the runs it joins come before all others.
LEMMA FirstRun ==
    ASSUME Apart(runs), DOMAIN runs # {}
    PROVE  First \in DOMAIN runs /\ \A k \in DOMAIN runs : First <= k
  <1>1. DOMAIN runs \in SUBSET Nat
    BY RunFacts, Zenon
  <1> QED BY <1>1, LeastIs, Zenon DEF First

LEMMA LeadingSpan ==
    ASSUME Apart(runs), NEW S, Leading(S)
    PROVE  Leads(runs, S, First, RunEnd(Max(S)))
  <1>1. S \subseteq DOMAIN runs /\ First \in S /\ DOMAIN runs # {}
    BY Zenon DEF Leading
  <1>2. S \in SUBSET Nat /\ S # {} /\ MaxLen \in Nat /\ \A k \in S : k <= MaxLen
    <2>1. \A k \in S : k \in Nat /\ k \in Addrs
      BY <1>1, RunFacts, Zenon
    <2>2. \A k \in S : k <= MaxLen
      BY <2>1, Bounds, SMT DEF Addrs
    <2> QED BY <1>1, <2>1, <2>2, Bounds, Zenon
  <1>3. Max(S) \in S /\ \A k \in S : k <= Max(S)
    BY <1>2, GreatestIs, Zenon
  <1>4. \A k \in DOMAIN runs : First <= k
    BY <1>1, FirstRun, Zenon
  <1> QED BY <1>1, <1>3, <1>4, Zenon DEF Leads, Leading, RunEnd

\* Nothing is pending when nothing is held.
LEMMA NothingHeld ==
    ASSUME NEW r, DOMAIN r = {}
    PROVE  Cardinality(Held(r)) = 0
  <1>1. Held(r) = {}
    BY Zenon DEF Held
  <1> QED BY <1>1, FS_EmptySet, Zenon

(***************************************************************************)
(* The invariant and the steps.                                            *)
(***************************************************************************)
\* pending_bytes counts what is pending, and nothing is pending in unbuffered mode.
Counted ==
    /\ pendingBytes = Cardinality(Held(runs))
    /\ mode = "Unbuffered" => DOMAIN runs = {}

GatheringInv ==
    /\ mode \in Modes /\ writes \in 0 .. MaxWrites /\ stopped \in BOOLEAN
    /\ Counted
    /\ Sound(op, stopped, runs, fileBytes, onDiskLen, mirror, want, recent)

LEMMA GatheringInitEstablishes == GatheringInit => GatheringInv
  <1> SUFFICES ASSUME GatheringInit PROVE GatheringInv
    BY Zenon
  <1>1. runs = [k \in {} |-> <<>>] /\ DOMAIN runs = {}
    BY Zenon DEF GatheringInit
  <1>2. Sound(Idle, FALSE, runs, fileBytes, InitLen, fileBytes, want, want)
    <2>1. fileBytes = Fill(0, InitLen) /\ want = [a \in Addrs |-> IF a < InitLen THEN {fileBytes[a + 1]} ELSE {}]
      BY Zenon DEF GatheringInit
    <2> QED BY <1>1, <2>1, OpenedSound, Zenon
  <1>3. Sound(op, stopped, runs, fileBytes, onDiskLen, mirror, want, recent)
    <2>1. op = Idle /\ stopped = FALSE /\ onDiskLen = InitLen /\ mirror = fileBytes /\ recent = want
      BY Zenon DEF GatheringInit
    <2> QED BY <1>2, <2>1, Zenon
  <1>4. Counted
    BY <1>1, NothingHeld, Zenon DEF GatheringInit, Counted
  <1>5. 0 \in 0 .. MaxWrites
    BY Bounds, SMT
  <1>6. mode \in Modes /\ writes \in 0 .. MaxWrites /\ stopped \in BOOLEAN
    BY <1>5, Zenon DEF GatheringInit, Modes
  <1> QED BY <1>3, <1>4, <1>6, Zenon DEF GatheringInv

LEMMA InvFacts ==
    ASSUME GatheringInv
    PROVE  /\ Sound(op, stopped, runs, fileBytes, onDiskLen, mirror, want, recent)
           /\ Image(runs, fileBytes, onDiskLen) /\ Apart(runs)
           /\ pendingBytes = Cardinality(Held(runs))
           /\ mode \in Modes /\ writes \in 0 .. MaxWrites /\ stopped \in BOOLEAN
           /\ mode = "Unbuffered" => DOMAIN runs = {}
  <1>1. Sound(op, stopped, runs, fileBytes, onDiskLen, mirror, want, recent)
    BY Zenon DEF GatheringInv
  <1>2. Image(runs, fileBytes, onDiskLen)
    BY <1>1, SoundFacts, Zenon
  <1>3. Apart(runs)
    BY <1>2, Zenon DEF Image
  <1> QED BY <1>1, <1>2, <1>3, Zenon DEF GatheringInv, Counted

\* What is known of the leading runs that are joined: they fill a window that starts within the file,
\* and their bytes are what the image shows there.
LEMMA LeadingJoin ==
    ASSUME Image(runs, fileBytes, onDiskLen), NEW S, Leading(S)
    PROVE  /\ Leads(runs, S, First, RunEnd(Max(S))) /\ Window(runs, S, First, RunEnd(Max(S)))
           /\ Viewing(runs, fileBytes, onDiskLen, First, RunEnd(Max(S)), JoinedBytes(S))
           /\ First <= Len(fileBytes)
  <1>1. Apart(runs)
    BY Zenon DEF Image
  <1>2. Leads(runs, S, First, RunEnd(Max(S)))
    BY <1>1, LeadingSpan, Zenon
  <1>3. Window(runs, S, First, RunEnd(Max(S)))
    BY <1>1, <1>2, LeadingWindow, Zenon
  <1>4. Viewing(runs, fileBytes, onDiskLen, First, RunEnd(Max(S)), JoinedBytes(S))
    BY <1>2, LeadingBytes, Zenon
  <1>5. First <= Len(fileBytes)
    <2>1. First \in DOMAIN runs
      BY Zenon DEF Leading
    <2>2. First \in Nat /\ First <= onDiskLen /\ onDiskLen \in Nat /\ onDiskLen <= Len(fileBytes) /\ Len(fileBytes) \in Nat
      BY <1>1, <2>1, RunFacts, ImageFacts, Zenon
    <2> QED BY <2>2, SMT
  <1> QED BY <1>2, <1>3, <1>4, <1>5, Zenon

LEMMA JoinedIsLeading ==
    ASSUME Apart(runs), DOMAIN runs # {}
    PROVE  Leading(Joined)
  <1>1. First \in DOMAIN runs /\ \A k \in DOMAIN runs : First <= k
    BY FirstRun, Zenon
  <1> QED BY <1>1, JoinedLeads, Zenon

\* flush issues one joined run.
LEMMA FlushStepPreserves ==
    ASSUME GatheringInv, FlushStep
    PROVE  GatheringInv'
  <1>1. DOMAIN runs # {}
    BY Zenon DEF FlushStep
  <1>2. Leading(Joined)
    BY <1>1, InvFacts, JoinedIsLeading, Zenon
  <1>3. PICK hi : hi = RunEnd(Max(Joined))
    BY Zenon
  <1>4. PICK b : b = JoinedBytes(Joined)
    BY Zenon
  <1>5. /\ Leads(runs, Joined, First, hi) /\ Window(runs, Joined, First, hi)
        /\ Viewing(runs, fileBytes, onDiskLen, First, hi, b) /\ First <= Len(fileBytes)
    BY <1>2, <1>3, <1>4, InvFacts, LeadingJoin, Zenon
  <1>6. /\ fileBytes' = Patch(fileBytes, First, b) /\ onDiskLen' = Max({onDiskLen, hi})
        /\ runs' = Part(runs, DOMAIN runs \ Joined)
        /\ pendingBytes' = pendingBytes - Cardinality(Held(Part(runs, Joined)))
    BY <1>3, <1>4, Zenon DEF FlushStep, Without, Bytes, Part
  <1>7. /\ mode' = mode /\ mirror' = mirror /\ op' = op /\ writes' = writes
        /\ want' = want /\ recent' = recent /\ stopped' = stopped
    BY Zenon DEF FlushStep
  <1>8. /\ First \in Nat /\ hi \in Nat /\ b \in Seq(Values) /\ fileBytes \in Seq(Values) /\ onDiskLen \in Nat
    BY <1>5, InvFacts, ImageFacts, Zenon DEF Window, Viewing
  <1>9. Wrote(fileBytes, First, b, fileBytes')
    BY <1>5, <1>6, <1>8, PatchWrites, Zenon
  <1>10. onDiskLen' \in Nat /\ onDiskLen <= onDiskLen' /\ hi <= onDiskLen' /\ (onDiskLen' = onDiskLen \/ onDiskLen' = hi)
    BY <1>6, <1>8, LargerIs, Zenon
  <1>11. IssuedRun(runs, fileBytes, onDiskLen, Joined, First, hi, b, runs', fileBytes', onDiskLen')
    BY <1>5, <1>6, <1>9, <1>10, InvFacts, Zenon DEF IssuedRun
  <1>12. Keeps(runs, fileBytes, onDiskLen, runs', fileBytes', onDiskLen')
    BY <1>11, IssuedKeeps, Zenon
  <1>13. Sound(op, stopped, runs', fileBytes', onDiskLen', mirror, want, recent)
    BY <1>12, InvFacts, KeepsSound, Zenon
  <1>14. pendingBytes' = Cardinality(Held(runs'))
    BY <1>5, <1>6, InvFacts, CountRemoved, Zenon
  <1>15. mode' # "Unbuffered"
    BY <1>1, <1>7, InvFacts, Zenon
  <1> QED BY <1>7, <1>13, <1>14, <1>15, InvFacts, Zenon DEF GatheringInv, Counted

\* restore puts the joined runs back as one run.
LEMMA RestoreRefills ==
    ASSUME Image(runs, fileBytes, onDiskLen), NEW S, Leading(S), Restore(S, S)
    PROVE  /\ Refilled(runs, S, First, RunEnd(Max(S)), JoinedBytes(S), runs')
           /\ pendingBytes' = (pendingBytes - Cardinality(Held(Part(runs, S)))) + (RunEnd(Max(S)) - First)
  <1>1. /\ Window(runs, S, First, RunEnd(Max(S)))
        /\ JoinedBytes(S) \in Seq(Values) /\ Len(JoinedBytes(S)) = RunEnd(Max(S)) - First
    BY LeadingJoin, Zenon DEF Viewing
  <1>2. (DOMAIN runs \ S) \cup {First} \cup (S \ S) = (DOMAIN runs \ S) \cup {First}
    BY Zenon
  <1>3. runs' = [k \in (DOMAIN runs \ S) \cup {First} |-> IF k = First THEN JoinedBytes(S) ELSE runs[k]]
    BY <1>2, Zenon DEF Restore
  <1>4. pendingBytes' = (pendingBytes - Cardinality(Held(Part(runs, S)))) + (RunEnd(Max(S)) - First)
    BY <1>1, Zenon DEF Restore, Bytes, Part
  <1> QED BY <1>1, <1>3, <1>4, Zenon DEF Refilled, Image

\* A flush that fails after a part of the joined bytes was written.
LEMMA FailedFlushPreserves ==
    ASSUME GatheringInv, op # Idle, NEW S, Leading(S), Restore(S, S), Fail, onDiskLen' = onDiskLen,
           NEW part \in Nat, part < Len(JoinedBytes(S)),
           fileBytes' = IF part = 0 THEN fileBytes ELSE Patch(fileBytes, First, SubSeq(JoinedBytes(S), 1, part))
    PROVE  GatheringInv'
  <1>1. PICK hi : hi = RunEnd(Max(S))
    BY Zenon
  <1>2. PICK b : b = JoinedBytes(S)
    BY Zenon
  <1>3. /\ Leads(runs, S, First, hi) /\ Window(runs, S, First, hi)
        /\ Viewing(runs, fileBytes, onDiskLen, First, hi, b)
    BY <1>1, <1>2, InvFacts, LeadingJoin, Zenon
  <1>4. /\ Refilled(runs, S, First, hi, b, runs')
        /\ pendingBytes' = (pendingBytes - Cardinality(Held(Part(runs, S)))) + (hi - First)
    BY <1>1, <1>2, InvFacts, RestoreRefills, Zenon
  <1>5. part < Len(b) /\ fileBytes' = IF part = 0 THEN fileBytes ELSE Patch(fileBytes, First, SubSeq(b, 1, part))
    BY <1>2, Zenon
  <1>6. PutBack(runs, fileBytes, onDiskLen, S, First, hi, b, runs', fileBytes')
    BY <1>3, <1>4, <1>5, InvFacts, PartIssued, Zenon
  <1>7. Keeps(runs, fileBytes, onDiskLen, runs', fileBytes', onDiskLen)
    BY <1>6, PutBackKeeps, Zenon
  <1>8. Sound(op, stopped, runs', fileBytes', onDiskLen, mirror, want, recent)
    BY <1>7, InvFacts, KeepsSound, Zenon
  <1>9. Sound(Idle, (op.kind = "truncate"), runs', fileBytes', onDiskLen, mirror, AfterFailure(op, mirror, want), recent)
    BY <1>8, FailSound, Zenon
  <1>10. /\ op' = Idle /\ stopped' = (op.kind = "truncate") /\ mode' = mode /\ mirror' = mirror
         /\ writes' = writes /\ recent' = recent /\ want' = AfterFailure(op, mirror, want)
    BY Zenon DEF Fail, AfterFailure
  <1>11. Sound(op', stopped', runs', fileBytes', onDiskLen', mirror', want', recent')
    BY <1>9, <1>10, Zenon
  <1>12. pendingBytes' = Cardinality(Held(runs'))
    <2>1. Cardinality(Held(runs')) = (Cardinality(Held(runs)) - Cardinality(Held(Part(runs, S)))) + (hi - First)
      BY <1>4, CountRefilled, SMT
    <2>2. pendingBytes = Cardinality(Held(runs))
      BY InvFacts, Zenon
    <2> QED BY <1>4, <2>1, <2>2, Zenon
  <1>13. mode' # "Unbuffered"
    <2>1. DOMAIN runs # {}
      BY Zenon DEF Leading
    <2> QED BY <1>10, <2>1, InvFacts, Zenon
  <1>14. stopped' \in BOOLEAN
    BY <1>10, Zenon
  <1> QED BY <1>10, <1>11, <1>12, <1>13, <1>14, InvFacts, Zenon DEF GatheringInv, Counted

LEMMA IssueFailsPreserves ==
    ASSUME GatheringInv, NEW part \in Addrs, IssueFails(part)
    PROVE  GatheringInv'
  <1>1. /\ op # Idle /\ DOMAIN runs # {} /\ part < Len(JoinedBytes(Joined))
        /\ Restore(Joined, Joined) /\ Fail /\ onDiskLen' = onDiskLen
        /\ fileBytes' = IF part = 0 THEN fileBytes
                        ELSE Patch(fileBytes, First, SubSeq(JoinedBytes(Joined), 1, part))
    BY Zenon DEF IssueFails
  <1>2. Leading(Joined)
    BY <1>1, InvFacts, JoinedIsLeading, Zenon
  <1>3. part \in Nat
    BY AddrFacts, Zenon
  <1> QED BY <1>1, <1>2, <1>3, FailedFlushPreserves, Zenon

\* A gap that cannot be read back: the runs joined so far lead too, and nothing was written.
LEMMA GapReadFailsPreserves ==
    ASSUME GatheringInv, NEW k \in Addrs, GapReadFails(k)
    PROVE  GatheringInv'
  <1>1. PICK S : S = {i \in Joined : i < k}
    BY Zenon
  <1>2. /\ op # Idle /\ k \in DOMAIN runs /\ k # First /\ k \in Joined
        /\ Restore(S, S) /\ Fail /\ onDiskLen' = onDiskLen /\ fileBytes' = fileBytes
    BY <1>1, Zenon DEF GapReadFails
  <1>3. DOMAIN runs # {}
    BY <1>2, Zenon
  <1>4. Leading(Joined)
    BY <1>3, InvFacts, JoinedIsLeading, Zenon
  <1>5. DOMAIN runs \in SUBSET Nat
    BY InvFacts, RunFacts, Zenon
  <1>6. Leading(S)
    <2>1. First \in Joined /\ Joined \subseteq DOMAIN runs /\ \A x \in Joined, j \in DOMAIN runs : j <= x => j \in Joined
      BY <1>4, Zenon DEF Leading
    <2>2. First <= k
      BY <1>2, <1>3, InvFacts, FirstRun, Zenon
    <2>3. First < k
      <3>1. First \in Nat /\ k \in Nat
        BY <1>2, <1>5, <2>1, Zenon
      <3> QED BY <2>2, <3>1, <1>2, SMT
    <2>4. ASSUME NEW x \in S, NEW j \in DOMAIN runs, j <= x PROVE j \in S
      <3>1. x \in Joined /\ x < k /\ j \in Joined /\ x \in Nat /\ j \in Nat /\ k \in Nat
        BY <1>1, <1>2, <1>5, <2>1, <2>4, Zenon
      <3>2. j < k
        BY <3>1, <2>4, SMT
      <3> QED BY <1>1, <3>1, <3>2, Zenon
    <2>5. First \in S /\ S \subseteq DOMAIN runs
      BY <1>1, <2>1, <2>3, Zenon
    <2> QED BY <2>4, <2>5, Zenon DEF Leading
  <1>7. 0 \in Nat /\ 0 < Len(JoinedBytes(S))
    <2>1. /\ Len(JoinedBytes(S)) = RunEnd(Max(S)) - First
          /\ First \in Nat /\ RunEnd(Max(S)) \in Nat /\ First < RunEnd(Max(S))
      BY <1>6, InvFacts, LeadingJoin, Zenon DEF Viewing, Window
    <2> QED BY <2>1, SMT
  <1>8. fileBytes' = IF 0 = 0 THEN fileBytes ELSE Patch(fileBytes, First, SubSeq(JoinedBytes(S), 1, 0))
    BY <1>2, Zenon
  <1> QED BY <1>2, <1>6, <1>7, <1>8, FailedFlushPreserves, Zenon

\* The operations that only wait for a flush.
LEMMA IdleFacts ==
    ASSUME GatheringInv, op = Idle, ~ stopped
    PROVE  Sound(Idle, FALSE, runs, fileBytes, onDiskLen, mirror, want, recent)
  <1>1. stopped = FALSE
    BY InvFacts, Zenon
  <1> QED BY <1>1, InvFacts, Zenon

LEMMA SetModePreserves ==
    ASSUME GatheringInv, NEW m \in Modes, SetMode(m)
    PROVE  GatheringInv'
  <1>1. /\ op = Idle /\ ~ stopped /\ op' = [kind |-> "mode", mode |-> m]
        /\ mode' = mode /\ runs' = runs /\ pendingBytes' = pendingBytes /\ fileBytes' = fileBytes
        /\ onDiskLen' = onDiskLen /\ mirror' = mirror /\ writes' = writes
        /\ want' = want /\ recent' = recent /\ stopped' = stopped
    BY Zenon DEF SetMode
  <1>2. Sound([kind |-> "mode", mode |-> m], FALSE, runs, fileBytes, onDiskLen, mirror, want, recent)
    BY <1>1, IdleFacts, FlushStarts, Zenon
  <1>3. stopped = FALSE
    BY <1>1, InvFacts, Zenon
  <1>4. Sound(op', stopped', runs', fileBytes', onDiskLen', mirror', want', recent')
    BY <1>1, <1>2, <1>3, Zenon
  <1> QED BY <1>1, <1>4, InvFacts, Zenon DEF GatheringInv, Counted

LEMMA BarrierPreserves ==
    ASSUME GatheringInv, Barrier
    PROVE  GatheringInv'
  <1>1. /\ op = Idle /\ ~ stopped /\ op' = [kind |-> "flush"]
        /\ mode' = mode /\ runs' = runs /\ pendingBytes' = pendingBytes /\ fileBytes' = fileBytes
        /\ onDiskLen' = onDiskLen /\ mirror' = mirror /\ writes' = writes
        /\ want' = want /\ recent' = recent /\ stopped' = stopped
    BY Zenon DEF Barrier
  <1>2. Sound([kind |-> "flush"], FALSE, runs, fileBytes, onDiskLen, mirror, want, recent)
    BY <1>1, IdleFacts, FlushStarts, Zenon
  <1>3. stopped = FALSE
    BY <1>1, InvFacts, Zenon
  <1>4. Sound(op', stopped', runs', fileBytes', onDiskLen', mirror', want', recent')
    BY <1>1, <1>2, <1>3, Zenon
  <1> QED BY <1>1, <1>4, InvFacts, Zenon DEF GatheringInv, Counted

\* truncate resizes the file and cuts the pending runs before it flushes.
LEMMA TruncatePreserves ==
    ASSUME GatheringInv, NEW l \in Addrs, Truncate(l)
    PROVE  GatheringInv'
  <1>1. /\ op = Idle /\ ~ stopped /\ l < Len(mirror) /\ op' = [kind |-> "truncate", len |-> l]
        /\ onDiskLen' = l /\ mode' = mode /\ mirror' = mirror /\ writes' = writes
        /\ want' = want /\ stopped' = stopped
    BY Zenon DEF Truncate
  <1>2. l \in Nat
    BY AddrFacts, Zenon
  <1>3. Cut(runs, l, runs')
    BY <1>2, InvFacts, Zenon DEF Truncate, DiscardFrom, Cut
  <1>4. SetLen(fileBytes, l, fileBytes')
    <2>1. fileBytes \in Seq(Values)
      BY InvFacts, ImageFacts, Zenon
    <2> QED BY <1>2, <2>1, Zenon DEF Truncate, SetLen
  <1>5. recent' = Shortened(recent, onDiskLen, l)
    BY Zenon DEF Truncate, Shortened
  <1>6. Sound([kind |-> "truncate", len |-> l], FALSE, runs', fileBytes', l, mirror, want, Shortened(recent, onDiskLen, l))
    <2>1. Sound(Idle, FALSE, runs, fileBytes, onDiskLen, mirror, want, recent)
      BY <1>1, IdleFacts, Zenon
    <2> QED BY <1>1, <1>2, <1>3, <1>4, <2>1, TruncateStarts, Zenon
  <1>7. stopped = FALSE
    BY <1>1, InvFacts, Zenon
  <1>8. Sound(op', stopped', runs', fileBytes', onDiskLen', mirror', want', recent')
    BY <1>1, <1>5, <1>6, <1>7, Zenon
  <1>9. pendingBytes' = Cardinality(Held(runs'))
    BY Zenon DEF Truncate, DiscardFrom
  <1>10. mode' = "Unbuffered" => DOMAIN runs' = {}
    <2>1. DOMAIN runs' = {k \in DOMAIN runs : k < l}
      BY <1>3, CutApart, Zenon
    <2> QED BY <1>1, <2>1, InvFacts, Zenon
  <1> QED BY <1>1, <1>8, <1>9, <1>10, InvFacts, Zenon DEF GatheringInv, Counted

\* discard_pending_writes forgets what is pending.
LEMMA DiscardPreserves ==
    ASSUME GatheringInv, Discard
    PROVE  GatheringInv'
  <1>1. /\ op = Idle /\ op' = op /\ stopped' = TRUE /\ pendingBytes' = 0
        /\ mode' = mode /\ fileBytes' = fileBytes /\ onDiskLen' = onDiskLen /\ mirror' = mirror
        /\ writes' = writes /\ want' = want /\ recent' = recent
    BY Zenon DEF Discard
  <1>2. runs' = Part(runs, {})
    <2>1. DOMAIN runs \ DOMAIN runs = {}
      BY Zenon
    <2> QED BY <2>1, Zenon DEF Discard, Without, Part
  <1>3. Sound(Idle, TRUE, Part(runs, {}), fileBytes, onDiskLen, mirror, want, recent)
    BY InvFacts, DiscardSound, Zenon
  <1>4. Sound(op', stopped', runs', fileBytes', onDiskLen', mirror', want', recent')
    BY <1>1, <1>2, <1>3, Zenon
  <1>5. DOMAIN runs' = {}
    BY <1>2, Zenon DEF Part
  <1>6. pendingBytes' = Cardinality(Held(runs'))
    BY <1>1, <1>5, NothingHeld, Zenon
  <1> QED BY <1>1, <1>4, <1>5, <1>6, InvFacts, Zenon DEF GatheringInv, Counted

\* What follows a flush.
LEMMA FlushedFacts ==
    ASSUME Flushed
    PROVE  /\ DOMAIN runs = {} /\ op' = Idle /\ runs' = runs /\ pendingBytes' = pendingBytes
           /\ writes' = writes /\ stopped' = stopped
  BY Zenon DEF Flushed

LEMMA SettlesInv ==
    ASSUME GatheringInv, Flushed, mode' \in Modes, ~ stopped,
           Sound(Idle, FALSE, runs, fileBytes', onDiskLen', mirror', want', recent')
    PROVE  GatheringInv'
  <1>1. /\ DOMAIN runs = {} /\ op' = Idle /\ runs' = runs /\ pendingBytes' = pendingBytes
        /\ writes' = writes /\ stopped' = stopped
    BY FlushedFacts, Zenon
  <1>2. stopped = FALSE
    BY InvFacts, Zenon
  <1>3. Sound(op', stopped', runs', fileBytes', onDiskLen', mirror', want', recent')
    BY <1>1, <1>2, Zenon
  <1> QED BY <1>1, <1>3, InvFacts, Zenon DEF GatheringInv, Counted

LEMMA WriteDonePreserves ==
    ASSUME GatheringInv, WriteDone
    PROVE  GatheringInv'
  <1>1. /\ op.kind = "write" /\ Flushed /\ mode' = mode /\ fileBytes' = fileBytes /\ onDiskLen' = onDiskLen
        /\ mirror' = Patch(mirror, op.at, op.bytes)
        /\ want' = [a \in Addrs |-> IF In(a, op.at, Len(op.bytes)) THEN {op.bytes[1]} ELSE want[a]]
        /\ recent' = Settled(want', recent)
    BY Zenon DEF WriteDone, Accept, Delivered, Settled
  <1>2. /\ Sound(Idle, FALSE, runs, fileBytes, onDiskLen, Patch(mirror, op.at, op.bytes),
                 Written(want, op.at, op.bytes), Settled(Written(want, op.at, op.bytes), recent))
        /\ ~ stopped /\ op.at \in Nat /\ Len(op.bytes) \in Nat
    BY <1>1, InvFacts, FlushedFacts, WroteSound, Zenon
  <1>3. want' = Written(want, op.at, op.bytes)
    <2>1. [a \in Addrs |-> IF In(a, op.at, Len(op.bytes)) THEN {op.bytes[1]} ELSE want[a]] = Written(want, op.at, op.bytes)
      BY <1>2, WrittenIs, Zenon
    <2> QED BY <1>1, <2>1, Zenon
  <1>4. Sound(Idle, FALSE, runs, fileBytes', onDiskLen', mirror', want', recent')
    BY <1>1, <1>2, <1>3, Zenon
  <1>5. mode' \in Modes
    BY <1>1, InvFacts, Zenon
  <1> QED BY <1>1, <1>2, <1>4, <1>5, SettlesInv, Zenon

LEMMA DirectDonePreserves ==
    ASSUME GatheringInv, DirectDone
    PROVE  GatheringInv'
  <1>1. /\ op.kind = "direct" /\ Flushed /\ mode' = mode
        /\ fileBytes' = Patch(fileBytes, op.at, op.bytes)
        /\ onDiskLen' = Max({onDiskLen, op.at + Len(op.bytes)})
        /\ mirror' = Patch(mirror, op.at, op.bytes)
        /\ want' = [a \in Addrs |-> IF In(a, op.at, Len(op.bytes)) THEN {op.bytes[1]} ELSE want[a]]
        /\ recent' = Settled(want', recent)
    BY Zenon DEF DirectDone, Accept, Delivered, Settled
  <1>2. /\ Sound(Idle, FALSE, runs, Patch(fileBytes, op.at, op.bytes), Max({onDiskLen, op.at + Len(op.bytes)}),
                 Patch(mirror, op.at, op.bytes), Written(want, op.at, op.bytes),
                 Settled(Written(want, op.at, op.bytes), recent))
        /\ ~ stopped /\ op.at \in Nat /\ Len(op.bytes) \in Nat
    BY <1>1, InvFacts, FlushedFacts, DirectSound, Zenon
  <1>3. want' = Written(want, op.at, op.bytes)
    <2>1. [a \in Addrs |-> IF In(a, op.at, Len(op.bytes)) THEN {op.bytes[1]} ELSE want[a]] = Written(want, op.at, op.bytes)
      BY <1>2, WrittenIs, Zenon
    <2> QED BY <1>1, <2>1, Zenon
  <1>4. Sound(Idle, FALSE, runs, fileBytes', onDiskLen', mirror', want', recent')
    BY <1>1, <1>2, <1>3, Zenon
  <1>5. mode' \in Modes
    BY <1>1, InvFacts, Zenon
  <1> QED BY <1>1, <1>2, <1>4, <1>5, SettlesInv, Zenon

LEMMA DirectFailsPreserves ==
    ASSUME GatheringInv, NEW part \in Addrs, DirectFails(part)
    PROVE  GatheringInv'
  <1>1. /\ op.kind = "direct" /\ DOMAIN runs = {} /\ part < Len(op.bytes) /\ Fail
        /\ fileBytes' = IF part = 0 THEN fileBytes ELSE Patch(fileBytes, op.at, SubSeq(op.bytes, 1, part))
        /\ runs' = runs /\ pendingBytes' = pendingBytes /\ onDiskLen' = onDiskLen
    BY Zenon DEF DirectFails
  <1>2. part \in Nat
    BY AddrFacts, Zenon
  <1>3. Sound(Idle, (op.kind = "truncate"), runs, fileBytes', onDiskLen, mirror, AfterFailure(op, mirror, want), recent)
    BY <1>1, <1>2, InvFacts, DirectFailSound, Zenon
  <1>4. /\ op' = Idle /\ stopped' = (op.kind = "truncate") /\ mode' = mode /\ mirror' = mirror
        /\ writes' = writes /\ recent' = recent /\ want' = AfterFailure(op, mirror, want)
    BY <1>1, Zenon DEF Fail, AfterFailure
  <1>5. Sound(op', stopped', runs', fileBytes', onDiskLen', mirror', want', recent')
    BY <1>1, <1>3, <1>4, Zenon
  <1>6. stopped' \in BOOLEAN
    BY <1>4, Zenon
  <1> QED BY <1>1, <1>4, <1>5, <1>6, InvFacts, Zenon DEF GatheringInv, Counted

LEMMA FlushDonePreserves ==
    ASSUME GatheringInv, FlushDone
    PROVE  GatheringInv'
  <1>1. /\ op.kind \in {"flush", "mode"} /\ Flushed /\ mode' = mode /\ fileBytes' = fileBytes /\ onDiskLen' = onDiskLen
        /\ mirror' = mirror /\ want' = want /\ recent' = Settled(want, recent)
    BY Zenon DEF FlushDone, Delivered, Settled
  <1>2. Sound(Idle, FALSE, runs, fileBytes, onDiskLen, mirror, want, Settled(want, recent)) /\ ~ stopped
    BY <1>1, InvFacts, FlushedFacts, FlushedSound, Zenon
  <1>3. Sound(Idle, FALSE, runs, fileBytes', onDiskLen', mirror', want', recent')
    BY <1>1, <1>2, Zenon
  <1>4. mode' \in Modes
    BY <1>1, InvFacts, Zenon
  <1> QED BY <1>1, <1>2, <1>3, <1>4, SettlesInv, Zenon

LEMMA ModeDonePreserves ==
    ASSUME GatheringInv, ModeDone
    PROVE  GatheringInv'
  <1>1. /\ op.kind \in {"flush", "mode"} /\ Flushed /\ fileBytes' = fileBytes /\ onDiskLen' = onDiskLen
        /\ mirror' = mirror /\ want' = want /\ recent' = Settled(want, recent)
    BY Zenon DEF ModeDone, Delivered, Settled
  <1>2. Sound(Idle, FALSE, runs, fileBytes, onDiskLen, mirror, want, Settled(want, recent)) /\ ~ stopped
    BY <1>1, InvFacts, FlushedFacts, FlushedSound, Zenon
  <1>3. Sound(Idle, FALSE, runs, fileBytes', onDiskLen', mirror', want', recent')
    BY <1>1, <1>2, Zenon
  <1>4. mode' \in Modes
    <2>1. op.kind = "mode" /\ mode' = op.mode
      BY Zenon DEF ModeDone
    <2>2. Awaits(op, stopped, runs, fileBytes, onDiskLen, mirror, want, recent)
      BY InvFacts, SoundFacts, WaitingKinds, Zenon
    <2> QED BY <2>1, <2>2, SMT DEF Awaits
  <1> QED BY <1>1, <1>2, <1>3, <1>4, SettlesInv, Zenon

LEMMA TruncateDonePreserves ==
    ASSUME GatheringInv, TruncateDone
    PROVE  GatheringInv'
  <1>1. /\ op.kind = "truncate" /\ Flushed /\ mode' = mode /\ fileBytes' = fileBytes /\ onDiskLen' = onDiskLen
        /\ mirror' = SubSeq(mirror, 1, op.len)
        /\ want' = [a \in Addrs |-> IF a < op.len THEN want[a] ELSE {}]
        /\ recent' = Settled(want', recent)
    BY Zenon DEF TruncateDone, Delivered, Settled
  <1>2. /\ Sound(Idle, FALSE, runs, fileBytes, onDiskLen, SubSeq(mirror, 1, op.len), want', Settled(want', recent))
        /\ ~ stopped
    BY <1>1, InvFacts, FlushedFacts, TruncatedSound, Zenon
  <1>3. Sound(Idle, FALSE, runs, fileBytes', onDiskLen', mirror', want', recent')
    BY <1>1, <1>2, Zenon
  <1>4. mode' \in Modes
    BY <1>1, InvFacts, Zenon
  <1> QED BY <1>1, <1>2, <1>3, <1>4, SettlesInv, Zenon

\* absorb: the write and the runs it touches become one run over the range they span.
LEMMA AbsorbSpans ==
    ASSUME Apart(runs), NEW at, NEW b, NewWrite(at, b, mirror),
           NEW lo, lo = Min({at} \cup Touched(at, Len(b))),
           NEW hi, hi = Max({at + Len(b)} \cup {RunEnd(k) : k \in Touched(at, Len(b))})
    PROVE  Spans(runs, at, Len(b), lo, hi) /\ Touched(at, Len(b)) = Meets(runs, at, Len(b))
  <1>1. at \in Nat /\ Len(b) \in Nat /\ 1 <= Len(b) /\ at + Len(b) <= MaxLen /\ at + Len(b) \in Nat
    BY SMT DEF NewWrite
  <1>2. PICK t : t = Touched(at, Len(b))
    BY Zenon
  <1>3. t = Meets(runs, at, Len(b)) /\ t \subseteq DOMAIN runs
    BY <1>2, Zenon DEF Touched, Meets, RunEnd
  <1>4. PICK ends : ends = {at + Len(b)} \cup {k + Len(runs[k]) : k \in t}
    BY Zenon
  <1>5. lo = Min({at} \cup t) /\ hi = Max(ends)
    BY <1>2, <1>4, Zenon DEF RunEnd
  <1>6. {at} \cup t \in SUBSET Nat /\ {at} \cup t # {}
    BY <1>1, <1>3, RunFacts, Zenon
  <1>7. ends \in SUBSET Nat /\ ends # {} /\ MaxLen \in Nat /\ \A y \in ends : y <= MaxLen
    <2>1. \A k \in t : k + Len(runs[k]) \in Nat /\ k + Len(runs[k]) <= MaxLen
      BY <1>3, RunFacts, Zenon
    <2> QED BY <1>1, <1>4, <2>1, Bounds, Zenon
  <1>8. lo \in {at} \cup t /\ \A y \in {at} \cup t : lo <= y
    BY <1>5, <1>6, LeastIs, Zenon
  <1>9. hi \in ends /\ \A y \in ends : y <= hi
    BY <1>5, <1>7, GreatestIs, Zenon
  <1> QED BY <1>1, <1>2, <1>3, <1>4, <1>8, <1>9, Zenon DEF Spans

LEMMA AbsorbRuns ==
    ASSUME GatheringInv, op = Idle, ~ stopped, NEW at, NEW b, NewWrite(at, b, mirror), Absorb(at, b)
    PROVE  /\ \E lo, hi, x : Absorbed(runs, fileBytes, onDiskLen, at, b, lo, hi, x, runs')
           /\ pendingBytes' = Cardinality(Held(runs'))
  <1>1. at \in Nat /\ Len(b) \in Nat /\ b \in Seq(Values)
    BY SMT DEF NewWrite
  <1>2. PICK lo : lo = Min({at} \cup Touched(at, Len(b)))
    BY Zenon
  <1>3. PICK hi : hi = Max({at + Len(b)} \cup {RunEnd(k) : k \in Touched(at, Len(b))})
    BY Zenon
  <1>4. PICK t : t = Meets(runs, at, Len(b))
    BY Zenon
  <1>5. Spans(runs, at, Len(b), lo, hi) /\ Touched(at, Len(b)) = t
    BY <1>2, <1>3, <1>4, InvFacts, AbsorbSpans, Zenon
  <1>6. /\ runs' = [k \in (DOMAIN runs \ t) \cup {lo} |-> IF k = lo THEN Merged(at, b, lo, hi) ELSE runs[k]]
        /\ pendingBytes' = (pendingBytes - Cardinality(Held(Part(runs, t)))) + (hi - lo)
    BY <1>2, <1>3, <1>5, Zenon DEF Absorb, Bytes, Part
  <1>7. PICK v : v = [a \in Nat |-> IF Inside(at, at + Len(b), a) THEN b[a - at + 1] ELSE Byte(runs, a)]
    BY Zenon
  <1>8. Merged(at, b, lo, hi) = [i \in 1 .. (hi - lo) |-> v[lo + i - 1]]
    <2> DEFINE new(a) == IF a >= at /\ a < at + Len(b) THEN b[a - at + 1] ELSE Pending(a)
    <2>1. Merged(at, b, lo, hi) = [i \in 1 .. (hi - lo) |-> new(lo + i - 1)]
      BY Zenon DEF Merged
    <2>2. ASSUME NEW a \in Nat PROVE v[a] = new(a)
      <3>1. Inside(at, at + Len(b), a) <=> (a >= at /\ a < at + Len(b))
        BY <1>1, SMT DEF Inside
      <3>2. v[a] = IF Inside(at, at + Len(b), a) THEN b[a - at + 1] ELSE Byte(runs, a)
        BY <1>7, Zenon
      <3>3. Pending(a) = Byte(runs, a)
        BY ViewIs, Zenon
      <3> QED BY <3>1, <3>2, <3>3, Zenon
    <2> HIDE DEF new
    <2>3. \A i \in 1 .. (hi - lo) : lo + i - 1 \in Nat
      <3>1. lo \in Nat /\ hi \in Nat
        BY <1>5, SpanFacts, Zenon DEF Spanned
      <3> QED BY <3>1, SMT
    <2>4. \A i \in 1 .. (hi - lo) : v[lo + i - 1] = new(lo + i - 1)
      BY <2>2, <2>3, Zenon
    <2> QED BY <2>1, <2>4, Zenon
  <1>9. at = 0 \/ Shows(runs, onDiskLen, at - 1)
    <2>1. Sound(Idle, FALSE, runs, fileBytes, onDiskLen, mirror, want, recent)
      BY IdleFacts, Zenon
    <2> QED BY <2>1, WriteFollows, Zenon
  <1>10. PICK x : x = [i \in 1 .. (hi - lo) |-> v[lo + i - 1]]
    BY Zenon
  <1>11. runs' = [k \in (DOMAIN runs \ Meets(runs, at, Len(b))) \cup {lo} |-> IF k = lo THEN x ELSE runs[k]]
    BY <1>4, <1>6, <1>8, <1>10, Zenon
  <1>12. Absorbed(runs, fileBytes, onDiskLen, at, b, lo, hi, x, runs')
    <2>1. Merges(runs, at, b, lo, hi, v, x, runs')
      BY <1>7, <1>10, <1>11, Zenon DEF Merges
    <2> QED BY <1>1, <1>5, <1>9, <2>1, InvFacts, MergedRuns, Zenon
  <1>13. Cardinality(Held(runs')) = (Cardinality(Held(runs)) - Cardinality(Held(Part(runs, t)))) + (hi - lo)
    <2>1. Refilled(runs, t, lo, hi, x, runs')
      BY <1>4, <1>12, Zenon DEF Absorbed
    <2> QED BY <2>1, CountRefilled, SMT
  <1>14. pendingBytes' = Cardinality(Held(runs'))
    <2>1. pendingBytes = Cardinality(Held(runs))
      BY InvFacts, Zenon
    <2> QED BY <1>6, <1>13, <2>1, Zenon
  <1> QED BY <1>12, <1>14, Zenon

\* The writes that the model makes.
LEMMA WriteIsNew ==
    ASSUME GatheringInv, NEW at \in 0 .. MaxLen, NEW n \in Lengths, NEW b, b = Fill(writes + 1, n),
           writes < MaxWrites, at <= Len(mirror),
           at + Len(b) <= IF at = Len(mirror) THEN MaxLen ELSE Len(mirror)
    PROVE  NewWrite(at, b, mirror) /\ Len(b) \in Nat
  <1>1. n \in Nat /\ 1 <= n /\ at \in Nat /\ MaxLen \in Nat
    BY Bounds, SMT
  <1>2. writes + 1 \in Values
    <2>1. writes \in 0 .. MaxWrites /\ MaxWrites \in Nat
      BY InvFacts, Bounds, Zenon
    <2>2. writes + 1 \in 0 .. MaxWrites
      BY <2>1, SMT
    <2> QED BY <2>2, Zenon DEF Values
  <1>3. b \in [1 .. n -> Values] /\ \A i \in 1 .. n : b[i] = writes + 1
    BY <1>2, Zenon DEF Fill
  <1>4. b \in Seq(Values) /\ Len(b) = n
    BY <1>1, <1>3, MadeSequence, Zenon
  <1>5. \A i \in 1 .. Len(b) : b[i] = b[1]
    BY <1>1, <1>3, <1>4, SMT
  <1>6. Len(mirror) \in Nat /\ Len(mirror) <= MaxLen
    <2>1. Reflects(mirror, want)
      BY InvFacts, SoundFacts, Zenon
    <2> QED BY <2>1, SMT DEF Reflects
  <1>7. at + Len(b) <= MaxLen /\ (at = Len(mirror) \/ at + Len(b) <= Len(mirror))
    BY <1>1, <1>4, <1>6, SMT
  <1> QED BY <1>1, <1>4, <1>5, <1>7, Zenon DEF NewWrite

LEMMA WritePreserves ==
    ASSUME GatheringInv, NEW at \in 0 .. MaxLen, NEW n \in Lengths, Write(at, Fill(writes + 1, n))
    PROVE  GatheringInv'
  <1>1. PICK b : b = Fill(writes + 1, n)
    BY Zenon
  <1>2. /\ op = Idle /\ ~ stopped /\ writes < MaxWrites /\ writes' = writes + 1 /\ at <= Len(mirror)
        /\ at + Len(b) <= IF at = Len(mirror) THEN MaxLen ELSE Len(mirror)
        /\ recent' = Allowing(recent, at, b)
        /\ mode' = mode /\ fileBytes' = fileBytes /\ onDiskLen' = onDiskLen /\ stopped' = stopped
    BY <1>1, Zenon DEF Write, Allowing
  <1>3. NewWrite(at, b, mirror) /\ Len(b) \in Nat
    BY <1>1, <1>2, WriteIsNew, Zenon
  <1>4. Sound(Idle, FALSE, runs, fileBytes, onDiskLen, mirror, want, recent) /\ stopped = FALSE
    BY <1>2, IdleFacts, InvFacts, Zenon
  <1>5. writes' \in 0 .. MaxWrites
    <2>1. writes \in 0 .. MaxWrites /\ MaxWrites \in Nat
      BY InvFacts, Bounds, Zenon
    <2> QED BY <1>2, <2>1, SMT
  <1>6. CASE Direct(b)
    <2>1. /\ op' = WriteOp("direct", at, b) /\ runs' = runs /\ pendingBytes' = pendingBytes
          /\ mirror' = mirror /\ want' = want
      BY <1>1, <1>6, Zenon DEF Write, WriteOp
    <2>2. Sound(WriteOp("direct", at, b), FALSE, runs, fileBytes, onDiskLen, mirror, want, Allowing(recent, at, b))
      BY <1>3, <1>4, DirectStarts, Zenon
    <2>3. Sound(op', stopped', runs', fileBytes', onDiskLen', mirror', want', recent')
      BY <1>2, <1>4, <2>1, <2>2, Zenon
    <2> QED BY <1>2, <1>5, <2>1, <2>3, InvFacts, Zenon DEF GatheringInv, Counted
  <1>7. CASE ~ Direct(b)
    <2>1. /\ Absorb(at, b)
          /\ \/ op' = WriteOp("write", at, b) /\ mirror' = mirror /\ want' = want
             \/ Accept(at, b) /\ op' = op
      BY <1>1, <1>7, Zenon DEF Write, WriteOp
    <2>2. PICK lo, hi, x : Absorbed(runs, fileBytes, onDiskLen, at, b, lo, hi, x, runs')
      BY <1>2, <1>3, <2>1, AbsorbRuns, Zenon
    <2>3. pendingBytes' = Cardinality(Held(runs'))
      BY <1>2, <1>3, <2>1, AbsorbRuns, Zenon
    <2>4. /\ Sound(WriteOp("write", at, b), FALSE, runs', fileBytes, onDiskLen, mirror, want, Allowing(recent, at, b))
          /\ Sound(Idle, FALSE, runs', fileBytes, onDiskLen, Patch(mirror, at, b), Written(want, at, b),
                   Allowing(recent, at, b))
      BY <1>3, <1>4, <2>2, AbsorbStarts, Zenon
    <2>5. Sound(op', stopped', runs', fileBytes', onDiskLen', mirror', want', recent')
      <3>1. CASE op' = WriteOp("write", at, b) /\ mirror' = mirror /\ want' = want
        BY <1>2, <1>4, <2>4, <3>1, Zenon
      <3>2. CASE Accept(at, b) /\ op' = op
        <4>1. [a \in Addrs |-> IF In(a, at, Len(b)) THEN {b[1]} ELSE want[a]] = Written(want, at, b)
          <5>1. at \in Nat
            BY <1>3, Zenon DEF NewWrite
          <5> QED BY <1>3, <5>1, WrittenIs, Zenon
        <4>2. mirror' = Patch(mirror, at, b) /\ want' = Written(want, at, b)
          BY <3>2, <4>1, Zenon DEF Accept
        <4> QED BY <1>2, <1>4, <2>4, <3>2, <4>2, Zenon
      <3> QED BY <2>1, <3>1, <3>2, Zenon
    <2>6. mode' # "Unbuffered"
      BY <1>2, <1>7, Zenon DEF Direct
    <2> QED BY <1>2, <1>5, <2>3, <2>5, <2>6, InvFacts, Zenon DEF GatheringInv, Counted
  <1> QED BY <1>6, <1>7, Zenon

(***************************************************************************)
(* Every step keeps the invariant, and what follows from it.               *)
(***************************************************************************)

LEMMA GatheringNextPreserves == GatheringInv /\ [GatheringNext]_gatheringVars => GatheringInv'
  <1> SUFFICES ASSUME GatheringInv, [GatheringNext]_gatheringVars PROVE GatheringInv'
    BY Zenon
  <1>1. ASSUME NEW at \in 0 .. MaxLen, NEW n \in Lengths, Write(at, Fill(writes + 1, n)) PROVE GatheringInv'
    BY <1>1, WritePreserves, Zenon
  <1>2. ASSUME NEW m \in Modes, SetMode(m) PROVE GatheringInv'
    BY <1>2, SetModePreserves, Zenon
  <1>3. ASSUME NEW n \in Addrs, Truncate(n) PROVE GatheringInv'
    BY <1>3, TruncatePreserves, Zenon
  <1>4. ASSUME NEW part \in Addrs, IssueFails(part) PROVE GatheringInv'
    BY <1>4, IssueFailsPreserves, Zenon
  <1>5. ASSUME NEW part \in Addrs, DirectFails(part) PROVE GatheringInv'
    BY <1>5, DirectFailsPreserves, Zenon
  <1>6. ASSUME NEW k \in Addrs, GapReadFails(k) PROVE GatheringInv'
    BY <1>6, GapReadFailsPreserves, Zenon
  <1>7. CASE Barrier
    BY <1>7, BarrierPreserves, Zenon
  <1>8. CASE FlushStep
    BY <1>8, FlushStepPreserves, Zenon
  <1>9. CASE WriteDone
    BY <1>9, WriteDonePreserves, Zenon
  <1>10. CASE DirectDone
    BY <1>10, DirectDonePreserves, Zenon
  <1>11. CASE FlushDone
    BY <1>11, FlushDonePreserves, Zenon
  <1>12. CASE ModeDone
    BY <1>12, ModeDonePreserves, Zenon
  <1>13. CASE TruncateDone
    BY <1>13, TruncateDonePreserves, Zenon
  <1>14. CASE Discard
    BY <1>14, DiscardPreserves, Zenon
  <1>15. CASE UNCHANGED gatheringVars
    <2>1. /\ mode' = mode /\ runs' = runs /\ pendingBytes' = pendingBytes /\ fileBytes' = fileBytes
          /\ onDiskLen' = onDiskLen /\ mirror' = mirror /\ op' = op /\ writes' = writes
          /\ want' = want /\ recent' = recent /\ stopped' = stopped
      BY <1>15, Zenon DEF gatheringVars
    <2> QED BY <2>1, Zenon DEF GatheringInv, Counted
  <1> QED
    BY <1>1, <1>2, <1>3, <1>4, <1>5, <1>6, <1>7, <1>8, <1>9, <1>10, <1>11, <1>12, <1>13, <1>14, <1>15, Zenon
    DEF GatheringNext

\* What GatheringInv says is an invariant of the write gathering.
THEOREM GatheringInvariance == GatheringSpec => []GatheringInv
  BY GatheringInitEstablishes, GatheringNextPreserves, PTL DEF GatheringSpec

(***************************************************************************)
(* What invariants_hold asserts: pending runs are not empty, neither       *)
(* overlap nor touch, pending_bytes is what they hold, and unbuffered      *)
(* writes leave nothing pending.                                           *)
(***************************************************************************)
THEOREM QueuedRunsStaySound == GatheringSpec => []QueuedRunsAreSound
  <1>1. GatheringInv => QueuedRunsAreSound
    <2> SUFFICES ASSUME GatheringInv PROVE QueuedRunsAreSound
      BY Zenon
    <2>1. ASSUME NEW k \in DOMAIN runs PROVE k \in Addrs /\ runs[k] # <<>>
      <3>1. k \in Addrs /\ runs[k] \in Seq(Values) /\ 1 <= Len(runs[k])
        BY InvFacts, RunFacts, Zenon
      <3> QED BY <3>1, SMT
    <2>2. \A j, k \in DOMAIN runs : j < k => RunEnd(j) < k
      BY InvFacts, Zenon DEF Apart, RunEnd
    <2>3. pendingBytes = Bytes(DOMAIN runs)
      <3>1. runs = [k \in DOMAIN runs |-> runs[k]]
        BY InvFacts, Zenon DEF Apart
      <3>2. pendingBytes = Cardinality(Held(runs))
        BY InvFacts, Zenon
      <3> QED BY <3>1, <3>2, Zenon DEF Bytes
    <2>4. onDiskLen <= Len(fileBytes)
      BY InvFacts, Zenon DEF Image
    <2> QED BY <2>1, <2>2, <2>3, <2>4, InvFacts, Zenon DEF QueuedRunsAreSound
  <1> QED BY <1>1, GatheringInvariance, PTL

(***************************************************************************)
(* Between two operations a read returns the last accepted write of each   *)
(* byte, or that of a later failed one, from HandleImage and from          *)
(* MirrorImage, whatever joins, partial issues, failed gap reads and       *)
(* retries came before; every byte is in the file or pending.              *)
(***************************************************************************)
THEOREM ImageAlwaysShowsLastWrites == GatheringSpec => []ImageShowsLastWrites
  <1>1. GatheringInv => ImageShowsLastWrites
    <2> SUFFICES ASSUME GatheringInv, op = Idle, ~ stopped, NEW a \in 0 .. (Len(mirror) - 1)
                 PROVE  View(a) \in want[a] /\ mirror[a + 1] \in want[a] /\ (a < onDiskLen \/ Covering(a) # {})
      BY Zenon DEF ImageShowsLastWrites
    <2>1. Sound(Idle, FALSE, runs, fileBytes, onDiskLen, mirror, want, recent)
      BY IdleFacts, Zenon
    <2>2. Reflects(mirror, want) /\ InView(runs, fileBytes, onDiskLen, Len(mirror), want)
      BY <2>1, SoundFacts, IdleView, Zenon
    <2>3. a \in Addrs /\ a < Len(mirror)
      <3>1. Len(mirror) \in Nat /\ Len(mirror) <= MaxLen
        BY <2>2, SMT DEF Reflects
      <3> QED BY <3>1, Bounds, SMT DEF Addrs
    <2>4. mirror[a + 1] \in want[a]
      BY <2>2, <2>3, Zenon DEF Reflects
    <2>5. Shows(runs, onDiskLen, a) /\ Sees(runs, fileBytes, onDiskLen, a) \in want[a]
      BY <2>2, <2>3, Zenon DEF InView
    <2>6. Covering(a) = Over(runs, a) /\ View(a) = Sees(runs, fileBytes, onDiskLen, a)
      BY ViewIs, Zenon
    <2> QED BY <2>4, <2>5, <2>6, Zenon DEF Shows
  <1> QED BY <1>1, GatheringInvariance, PTL

(***************************************************************************)
(* The file holds nothing older than the last completed flush: no order of *)
(* issues, no join that reads clean bytes back and no retry brings back a  *)
(* value that a barrier had replaced.                                      *)
(***************************************************************************)
THEOREM FileAlwaysShowsRecentWrites == GatheringSpec => []FileShowsRecentWrites
  <1>1. GatheringInv => FileShowsRecentWrites
    <2> SUFFICES ASSUME GatheringInv, NEW a \in 0 .. (Min({Len(mirror), onDiskLen}) - 1)
                 PROVE  fileBytes[a + 1] \in recent[a]
      BY Zenon DEF FileShowsRecentWrites
    <2>1. /\ onDiskLen \in Nat /\ onDiskLen <= Len(fileBytes) /\ Len(fileBytes) \in Nat /\ Len(fileBytes) <= MaxLen
      BY InvFacts, ImageFacts, Zenon
    <2>2. Reflects(mirror, want) /\ Recent(runs, fileBytes, recent)
      BY InvFacts, SoundFacts, Zenon
    <2>3. Len(mirror) \in Nat
      BY <2>2, SMT DEF Reflects
    <2>4. Min({Len(mirror), onDiskLen}) \in Nat /\ Min({Len(mirror), onDiskLen}) <= onDiskLen
      BY <2>1, <2>3, SmallerIs, Zenon
    <2>5. PICK l : l = Min({Len(mirror), onDiskLen})
      BY Zenon
    <2>6. a \in Addrs /\ a < Len(fileBytes)
      <3>1. l \in Nat /\ l <= onDiskLen /\ a \in 0 .. (l - 1)
        BY <2>4, <2>5, Zenon
      <3> QED BY <2>1, <3>1, Bounds, SMT DEF Addrs
    <2> QED BY <2>2, <2>6, Zenon DEF Recent
  <1> QED BY <1>1, GatheringInvariance, PTL
=============================================================================
