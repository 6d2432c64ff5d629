-------------------------- MODULE AppendersProofs ---------------------------
(***************************************************************************)
(* Buffered appenders.  The claims of AppenderClaims, proved for any       *)
(* handles, paths and hard links: live appenders exclude each other, no    *)
(* staged edit stands in the way of one, and no commit removes its         *)
(* dataset.  Then the buffer of BufferedAppender, for any sizes: nothing   *)
(* accepted is lost or written twice, and an appender alone on its dataset *)
(* is poisoned only for a cause.                                           *)
(***************************************************************************)
EXTENDS MCAppenders, Integers, TLAPS

\* The claim an appender on handle h holds while it lives.
ClaimOf(h) == [holder |-> h, path |-> path[h]]

Types ==
    /\ stage \in [Handles -> {"none", "opening", "active", "poisoned"}]
    /\ path \in [Handles -> Datasets \cup {NoPath}]
    /\ stale \in [Handles -> BOOLEAN]
    /\ buffered \in [Handles -> BOOLEAN]
    /\ staged \subseteq Edits
    /\ present \subseteq Paths
    /\ committed \in BOOLEAN /\ uncertain \in BOOLEAN /\ closed \in BOOLEAN

\* The claims are those of the live appenders, said of single claims.
ClaimsOK ==
    /\ \A h \in Handles : Live(h) => ClaimOf(h) \in claims
    /\ \A c \in claims : \E h \in Handles : Live(h) /\ c = ClaimOf(h)

IInv == Types /\ ClaimsOK /\ FlushIsNotBlocked /\ AppendersExclude

\* ClaimsOK is the clause of TypeOK about the claims.
LEMMA ClaimsAreThoseOfLiveAppenders == Types /\ ClaimsOK => TypeOK
  <1> SUFFICES ASSUME Types, ClaimsOK PROVE TypeOK
      BY Zenon
  <1>1. claims = {[holder |-> h, path |-> path[h]] : h \in {g \in Handles : Live(g)}}
      BY Zenon DEF ClaimsOK, ClaimOf
  <1> QED
      BY <1>1, Zenon DEF Types, TypeOK

LEMMA InitIsSafe == Init => IInv
  <1> SUFFICES ASSUME Init PROVE IInv
      BY Zenon
  <1>1. Types
      BY Zenon, AppenderClaimsAssumption DEF Init, Types, Edits
  <1>2. \A h \in Handles : ~Live(h)
      BY Zenon DEF Init, Live
  <1>3. ClaimsOK
      BY <1>2, Zenon DEF Init, ClaimsOK
  <1>4. FlushIsNotBlocked /\ AppendersExclude
      BY <1>2, Zenon DEF FlushIsNotBlocked, AppendersExclude
  <1> QED
      BY <1>1, <1>3, <1>4, Zenon DEF IInv

\* Every step keeps the types, but for the claims.
LEMMA TypesAreKept == Types /\ [Next]_vars => Types'
  <1> SUFFICES ASSUME Types, [Next]_vars PROVE Types'
      BY Zenon
  <1> USE DEF Types
  <1>1. ASSUME NEW h \in Handles, NEW p \in Datasets \cup {NoPath}, ReadGeometry(h, p)
        PROVE  Types'
      BY <1>1, Zenon DEF ReadGeometry, session
  <1>2. ASSUME NEW h \in Handles, Claim(h) PROVE Types'
      BY <1>2, Zenon DEF Claim, session
  <1>3. ASSUME NEW h \in Handles, Buffer(h) PROVE Types'
      BY <1>3, Zenon DEF Buffer, session
  <1>4. ASSUME NEW h \in Handles, Flush(h) PROVE Types'
      BY <1>4, Zenon DEF Flush, session
  <1>5. ASSUME NEW h \in Handles, FlushFails(h) PROVE Types'
      BY <1>5, Zenon DEF FlushFails
  <1>6. ASSUME NEW h \in Handles, Drop(h) PROVE Types'
      BY Zenon, <1>6 DEF Drop
  <1>7. Relocated \in [Handles -> BOOLEAN]
      BY Zenon DEF Relocated
  <1>8. ASSUME NEW p \in Paths, NEW kind \in Kinds \ {"delete"}, Stage(kind, p) PROVE Types'
      <2>1. staged' \subseteq Edits
          BY <1>8 DEF Stage, Edits
      <2> QED
          BY <1>8, <2>1, <1>7, Zenon DEF Stage
  <1>9. ASSUME NEW p \in Paths, Delete(p) PROVE Types'
      <2>1. staged' \subseteq Edits
          BY <1>9 DEF Delete, Edits, Kinds
      <2> QED
          BY <1>9, <2>1, <1>7, Zenon DEF Delete
  <1>10. Applied \subseteq Paths
      BY Zenon DEF Applied
  <1>11. CASE Commit
      BY <1>11, <1>7, <1>10, Zenon DEF Commit
  <1>12. CASE CommitRejected
      BY <1>12, <1>7, Zenon DEF CommitRejected
  <1>13. CASE CommitFails
      BY <1>13, <1>7, <1>10, Zenon DEF CommitFails
  <1>14. CASE Close
      BY Zenon, <1>14 DEF Close
  <1>15. CASE UNCHANGED vars
      BY <1>15, Zenon DEF vars
  <1> QED
      BY <1>1, <1>2, <1>3, <1>4, <1>5, <1>6, <1>8, <1>9, <1>11, <1>12, <1>13, <1>14, <1>15, Zenon
      DEF Next

\* The lifecycle and the paths, as far as the invariants look at them, stay.
LEMMA SameAppenders ==
    ASSUME ClaimsOK, AppendersExclude, UNCHANGED <<stage, path, claims>>
    PROVE  ClaimsOK' /\ AppendersExclude'
  BY Zenon DEF ClaimsOK, ClaimOf, AppendersExclude, Live

\* Claims follow the appenders through opening, refusal and release.
LEMMA ClaimsAreKept == IInv /\ [Next]_vars => ClaimsOK' /\ AppendersExclude'
  <1> SUFFICES ASSUME IInv, [Next]_vars PROVE ClaimsOK' /\ AppendersExclude'
      BY Zenon
  <1> USE DEF IInv
  <1>1. ASSUME NEW h \in Handles, NEW p \in Datasets \cup {NoPath}, ReadGeometry(h, p)
        PROVE  ClaimsOK' /\ AppendersExclude'
      <2>1. \A g \in Handles : Live(g)' <=> Live(g)
          BY <1>1, Zenon DEF ReadGeometry, Live, Types
      <2>2. \A g \in Handles : Live(g) => path'[g] = path[g]
          BY <1>1, Zenon DEF ReadGeometry, Live, Types
      <2>3. claims' = claims
          BY <1>1, Zenon DEF ReadGeometry
      <2>4. ClaimsOK'
          BY <2>1, <2>2, <2>3, Zenon DEF ClaimsOK, ClaimOf
      <2>5. AppendersExclude'
          BY <2>1, <2>2, Zenon DEF AppendersExclude
      <2> QED
          BY <2>4, <2>5, Zenon
  <1>2. ASSUME NEW h \in Handles, Claim(h) PROVE ClaimsOK' /\ AppendersExclude'
      <2>1. path' = path /\ ~Live(h)
          BY <1>2, Zenon DEF Claim, Live
      <2>2. \A g \in Handles \ {h} : Live(g)' <=> Live(g)
          BY <1>2, Zenon DEF Claim, Live, Types
      <2>3. CASE MayClaim(path[h])
          <3>1. Live(h)' /\ claims' = claims \cup {ClaimOf(h)}
              BY <1>2, <2>3, Zenon DEF Claim, Live, Types, ClaimOf
          <3>2. ClaimsOK'
              BY <2>1, <2>2, <3>1, Zenon DEF ClaimsOK, ClaimOf
          <3>3. ASSUME NEW g \in Handles \ {h}, Live(g)
                PROVE  path[g] # path[h] /\ path[g] # NoPath /\ path[h] # NoPath
              <4>1. ClaimOf(g) \in claims
                  BY <3>3, Zenon DEF ClaimsOK
              <4>2. ~ConflictsWith(ClaimOf(g), path[h])
                  BY <4>1, <2>3, Zenon DEF MayClaim
              <4> QED
                  BY <4>2, Zenon DEF ConflictsWith, ClaimOf
          <3>4. AppendersExclude'
              BY <2>1, <2>2, <3>3, Zenon DEF AppendersExclude
          <3> QED
              BY <3>2, <3>4, Zenon
      <2>4. CASE ~MayClaim(path[h])
          <3>1. ~Live(h)' /\ claims' = claims
              BY <1>2, <2>4, Zenon DEF Claim, Live, Types
          <3> QED
              BY <2>1, <2>2, <3>1, Zenon DEF ClaimsOK, ClaimOf, AppendersExclude
      <2> QED
          BY <2>3, <2>4, Zenon
  <1>3. ASSUME NEW h \in Handles, FlushFails(h) PROVE ClaimsOK' /\ AppendersExclude'
      <2>1. path' = path /\ claims' = claims /\ \A g \in Handles : Live(g)' <=> Live(g)
          BY <1>3, Zenon DEF FlushFails, Usable, Live, Types
      <2> QED
          BY <2>1, Zenon DEF ClaimsOK, ClaimOf, AppendersExclude
  <1>4. ASSUME NEW h \in Handles, Drop(h) PROVE ClaimsOK' /\ AppendersExclude'
      <2>1. path' = path /\ claims' = Released(h)
          BY <1>4, Zenon DEF Drop
      <2>2. ~Live(h)' /\ \A g \in Handles \ {h} : Live(g)' <=> Live(g)
          BY <1>4, Zenon DEF Drop, Live, Types
      <2>3. ClaimsOK'
          BY <2>1, <2>2 DEF ClaimsOK, ClaimOf, Released
      <2>4. AppendersExclude'
          BY <2>1, <2>2, Zenon DEF AppendersExclude
      <2> QED
          BY <2>3, <2>4, Zenon
  <1>5. CASE UNCHANGED <<stage, path, claims>>
      BY <1>5, SameAppenders, Zenon
  <1> QED
      BY Zenon, <1>1, <1>2, <1>3, <1>4, <1>5
      DEF Next, vars, Buffer, Flush, Stage, Delete, Commit, CommitRejected, CommitFails, Close

\* What stands in the way of an appender depends on what is staged and committed alone.
LEMMA BlockedByStagedOnly ==
    ASSUME FlushIsNotBlocked, UNCHANGED <<staged, committed>>,
           \A h \in Handles : Live(h)' => Live(h) /\ path'[h] = path[h]
    PROVE  FlushIsNotBlocked'
  BY Zenon DEF FlushIsNotBlocked, Blocked, Conflicts

\* With an appender reached by object reference there is nothing staged.
LEMMA ReferenceAppenderIsAlone ==
    ASSUME IInv, NEW h \in Handles, Live(h), path[h] = NoPath
    PROVE  staged = {} /\ committed = FALSE /\ \A p : Claimed(p)
  <1>1. staged = {} /\ ~committed
      BY Zenon DEF IInv, FlushIsNotBlocked, Blocked
  <1>2. committed = FALSE
      BY <1>1, Zenon DEF IInv, Types
  <1>3. ClaimOf(h) \in claims /\ ClaimOf(h).path = NoPath
      BY Zenon DEF IInv, ClaimsOK, ClaimOf
  <1>4. \A p : Claimed(p)
      BY <1>3, Zenon DEF Claimed
  <1> QED
      BY <1>1, <1>2, <1>4, Zenon

\* An edit that stands in the way of a live appender is one its claim refuses.
LEMMA ConflictingEditIsClaimed ==
    ASSUME IInv, NEW h \in Handles, Live(h), path[h] # NoPath, NEW p, Overlaps(path[h], p)
    PROVE  Claimed(p)
  <1>1. ClaimOf(h) \in claims /\ ClaimOf(h).path = path[h]
      BY Zenon DEF IInv, ClaimsOK, ClaimOf
  <1> QED
      BY <1>1, Zenon DEF Claimed

\* Edits that are only taken away, or that no claim refuses, block no live appender.
LEMMA UnclaimedEditsDoNotBlock ==
    ASSUME IInv, UNCHANGED <<stage, path, committed>>, NEW p,
           \/ staged' \subseteq staged
           \/ ~Claimed(p) /\ \A e \in staged' : e \in staged \/ e.path = p
    PROVE  FlushIsNotBlocked'
  <1> SUFFICES ASSUME NEW h \in Handles, Live(h) PROVE ~Blocked(path[h])'
      BY Zenon DEF FlushIsNotBlocked, Live
  <1>1. ~Blocked(path[h])
      BY Zenon DEF IInv, FlushIsNotBlocked
  <1>2. CASE path[h] = NoPath
      BY Zenon, <1>1, <1>2, ReferenceAppenderIsAlone DEF Blocked
  <1>3. CASE path[h] # NoPath
      <2>1. ~Conflicts(path[h])
          BY <1>1, <1>3, Zenon DEF Blocked
      <2>2. ~Claimed(p) => ~Overlaps(path[h], p)
          BY <1>3, ConflictingEditIsClaimed, Zenon
      <2>3. ~Conflicts(path[h])'
          BY <2>1, <2>2, Zenon DEF Conflicts
      <2> QED
          BY <1>3, <2>3, Zenon DEF Blocked
  <1> QED
      BY <1>2, <1>3, Zenon

\* Nothing is staged after the commit; one is only attempted with something staged.
LEMMA CommitDoesNotBlock ==
    ASSUME IInv, UNCHANGED <<stage, path>>, staged' \subseteq staged,
           committed' => committed \/ staged # {}
    PROVE  FlushIsNotBlocked'
  <1> SUFFICES ASSUME NEW h \in Handles, Live(h) PROVE ~Blocked(path[h])'
      BY Zenon DEF FlushIsNotBlocked, Live
  <1>1. ~Blocked(path[h])
      BY Zenon DEF IInv, FlushIsNotBlocked
  <1>2. CASE path[h] = NoPath
      BY <1>1, <1>2, Zenon DEF Blocked
  <1>3. CASE path[h] # NoPath
      BY <1>1, <1>3, Zenon DEF Blocked, Conflicts
  <1> QED
      BY <1>2, <1>3, Zenon

LEMMA FlushesAreKept == IInv /\ [Next]_vars => FlushIsNotBlocked'
  <1> SUFFICES ASSUME IInv, [Next]_vars PROVE FlushIsNotBlocked'
      BY Zenon
  <1>a. Types /\ FlushIsNotBlocked
      BY Zenon DEF IInv
  <1>1. ASSUME NEW h \in Handles, NEW p \in Datasets \cup {NoPath}, ReadGeometry(h, p)
        PROVE  FlushIsNotBlocked'
      <2>1. \A g \in Handles : Live(g)' => Live(g) /\ path'[g] = path[g]
          BY <1>1, <1>a, Zenon DEF ReadGeometry, Live, Types
      <2> QED
          BY <1>1, <1>a, <2>1, BlockedByStagedOnly, Zenon DEF ReadGeometry, session
  <1>2. ASSUME NEW h \in Handles, Claim(h) PROVE FlushIsNotBlocked'
      <2>1. path' = path /\ staged' = staged /\ committed' = committed
          BY <1>2, Zenon DEF Claim, session
      <2>2. \A g \in Handles : Live(g)' => Live(g) \/ (g = h /\ MayClaim(path[h]))
          BY <1>2, <1>a, Zenon DEF Claim, Live, Types
      <2>3. MayClaim(path[h]) => ~Blocked(path[h])
          BY Zenon DEF MayClaim
      <2>4. \A g \in Handles : Live(g)' => ~Blocked(path[g])
          BY <1>a, <2>2, <2>3, Zenon DEF FlushIsNotBlocked
      <2> QED
          BY <2>1, <2>4, Zenon DEF FlushIsNotBlocked, Blocked, Conflicts
  <1>3. ASSUME NEW h \in Handles, Buffer(h) \/ Flush(h) PROVE FlushIsNotBlocked'
      BY <1>3, <1>a, BlockedByStagedOnly, Zenon DEF Buffer, Flush, session, Live
  <1>4. ASSUME NEW h \in Handles, FlushFails(h) \/ Drop(h) PROVE FlushIsNotBlocked'
      <2>1. \A g \in Handles : Live(g)' => Live(g) /\ path'[g] = path[g]
          BY <1>4, <1>a, Zenon DEF FlushFails, Drop, Usable, Live, Types
      <2> QED
          BY <1>4, <1>a, <2>1, BlockedByStagedOnly, Zenon DEF FlushFails, Drop
  <1>5. ASSUME NEW p \in Paths, NEW kind \in Kinds \ {"delete"}, Stage(kind, p)
        PROVE  FlushIsNotBlocked'
      <2>1. \/ staged' \subseteq staged
            \/ ~Claimed(p) /\ \A e \in staged' : e \in staged \/ e.path = p
          BY <1>5, SMTT(30) DEF Stage
      <2> QED
          BY <1>5, <2>1, UnclaimedEditsDoNotBlock, Zenon DEF Stage
  <1>6. ASSUME NEW p \in Paths, Delete(p) PROVE FlushIsNotBlocked'
      <2>1. \/ staged' \subseteq staged
            \/ ~Claimed(p) /\ \A e \in staged' : e \in staged \/ e.path = p
          BY <1>6, SMTT(30) DEF Delete
      <2> QED
          BY <1>6, <2>1, UnclaimedEditsDoNotBlock, Zenon DEF Delete
  <1>7. CASE Commit
      <2>1. committed' => committed \/ staged # {}
          BY <1>7, Zenon DEF Commit
      <2> QED
          BY <1>7, <2>1, CommitDoesNotBlock, Zenon DEF Commit
  <1>8. CASE CommitRejected
      <2>1. committed' => committed \/ staged # {}
          BY <1>8, Zenon DEF CommitRejected
      <2> QED
          BY <1>8, <2>1, CommitDoesNotBlock, Zenon DEF CommitRejected
  <1>9. CASE CommitFails
      <2>1. committed' => committed \/ staged # {}
          BY <1>9, Zenon DEF CommitFails
      <2> QED
          BY <1>9, <2>1, CommitDoesNotBlock, Zenon DEF CommitFails
  <1>10. CASE Close \/ UNCHANGED vars
      BY Zenon, <1>10, <1>a, BlockedByStagedOnly DEF Close, vars, Live
  <1> QED
      BY <1>1, <1>2, <1>3, <1>4, <1>5, <1>6, <1>7, <1>8, <1>9, <1>10, Zenon DEF Next

LEMMA ClaimsInvariant == Spec => []IInv
  <1>1. IInv /\ [Next]_vars => IInv'
      BY TypesAreKept, ClaimsAreKept, FlushesAreKept, Zenon DEF IInv
  <1> QED
      BY InitIsSafe, <1>1, PTL DEF Spec

(***************************************************************************)
(* Whatever is staged, withdrawn, rejected or committed, no staged edit    *)
(* stands in the way of a live appender's flush (claim_for_appender and    *)
(* refuse_if_claimed).                                                     *)
(***************************************************************************)
THEOREM AppendersAreNotBlocked == Spec => []FlushIsNotBlocked
  <1>1. IInv => FlushIsNotBlocked
      BY Zenon DEF IInv
  <1> QED
      BY ClaimsInvariant, <1>1, PTL

(***************************************************************************)
(* Live appenders have different paths, one reached by object reference is *)
(* the only one, and the claims are those of the live appenders            *)
(* (conflicts_with, release_appender_claim).                               *)
(***************************************************************************)
THEOREM LiveAppendersExclude == Spec => [](TypeOK /\ AppendersExclude)
  <1>1. IInv => TypeOK /\ AppendersExclude
      BY ClaimsAreThoseOfLiveAppenders, Zenon DEF IInv
  <1> QED
      BY ClaimsInvariant, <1>1, PTL

(***************************************************************************)
(* No commit, whether it ends well or not, removes the dataset of a live   *)
(* appender.                                                               *)
(***************************************************************************)
THEOREM CommitsKeepClaimedDatasets == Spec => ClaimedDatasetStays
  <1> DEFINE Stays == \A h \in Handles : Live(h) /\ path[h] \in present => path[h] \in present'
  <1>1. ASSUME IInv, [Next]_vars PROVE [Stays]_vars
      <2> SUFFICES ASSUME NEW h \in Handles, Live(h), path[h] \in present
                   PROVE  path[h] \in present'
          BY Zenon
      <2>1. path[h] # NoPath
          BY <1>1, AppenderClaimsAssumption, Zenon DEF IInv, Types
      <2>2. ~Deleted(path[h])
          BY <1>1, <2>1, Zenon DEF IInv, FlushIsNotBlocked, Blocked, Conflicts, Deleted, Overlaps
      <2>3. path[h] \in Applied
          BY <2>2, Zenon DEF Applied
      <2>4. present' \in {present, Applied}
          BY Zenon, <1>1 DEF Next, vars, session, ReadGeometry, Claim, Buffer, Flush, FlushFails, Drop, Stage,
                      Delete, Commit, CommitRejected, CommitFails, Close
      <2> QED
          BY <2>3, <2>4, Zenon
  <1> QED
      BY ClaimsInvariant, <1>1, PTL DEF Spec, ClaimedDatasetStays

(***************************************************************************)
(* Whole elements and whole chunks.                                        *)
(***************************************************************************)
LEMMA DivisionFacts ==
  ASSUME NEW n \in Int, NEW e \in Nat, e > 0
  PROVE  n \div e \in Int /\ n % e \in Nat /\ n % e < e /\ n = e * (n \div e) + (n % e)
  OBVIOUS

LEMMA ProductIsNatural == ASSUME NEW a \in Nat, NEW b \in Nat PROVE a * b \in Nat
  OBVIOUS

LEMMA QuotientIsUnique ==
  ASSUME NEW e \in Nat, e > 0, NEW p \in Int, NEW q \in Int, NEW r \in Nat, NEW s \in Nat,
         r < e, s < e, e * p + r = e * q + s
  PROVE  p = q
  <1>1. ASSUME p > q PROVE FALSE
    <2>1. p - q - 1 \in Nat
      BY <1>1
    <2>2. e * (p - q - 1) \in Nat
      BY <2>1, ProductIsNatural, Zenon
    <2>3. e * (p - q - 1) = e * p - e * q - e
      OBVIOUS
    <2> QED BY <2>2, <2>3
  <1>2. ASSUME q > p PROVE FALSE
    <2>1. q - p - 1 \in Nat
      BY <1>2
    <2>2. e * (q - p - 1) \in Nat
      BY <2>1, ProductIsNatural, Zenon
    <2>3. e * (q - p - 1) = e * q - e * p - e
      OBVIOUS
    <2> QED BY <2>2, <2>3
  <1> QED BY <1>1, <1>2

\* Taking t elements leaves t fewer.
LEMMA RestAfterTake ==
  ASSUME NEW n \in Nat, NEW e \in Nat, e > 0, NEW t \in Nat
  PROVE  (n - t * e) \div e = n \div e - t
  <1> DEFINE m == n - t * e
  <1>1. n \div e \in Int /\ n % e \in Nat /\ n % e < e /\ n = e * (n \div e) + (n % e)
    BY DivisionFacts
  <1>2. m \in Int
    OBVIOUS
  <1>3. m \div e \in Int /\ m % e \in Nat /\ m % e < e /\ m = e * (m \div e) + (m % e)
    BY <1>2, DivisionFacts, Zenon
  <1>4. m = e * (n \div e - t) + (n % e)
    BY <1>1
  <1> HIDE DEF m
  <1> QED BY <1>1, <1>3, <1>4, QuotientIsUnique

LEMMA MultipleIsWhole ==
  ASSUME NEW e \in Nat, e > 0, NEW p \in Int
  PROVE  (e * p) % e = 0 /\ (e * p) \div e = p
  <1>1. e * p \in Int
    OBVIOUS
  <1>2. /\ (e * p) \div e \in Int /\ (e * p) % e \in Nat /\ (e * p) % e < e
        /\ e * p = e * ((e * p) \div e) + ((e * p) % e)
    BY <1>1, DivisionFacts, Zenon
  <1>3. p = (e * p) \div e
    BY <1>2, QuotientIsUnique
  <1> QED BY <1>2, <1>3

\* The elements of n bytes are in those bytes.
LEMMA ElementsFit ==
  ASSUME NEW n \in Int, NEW e \in Nat, e > 0, NEW t \in Nat, t <= n \div e
  PROVE  t * e <= n
  <1>1. n \div e \in Int /\ n % e \in Nat /\ n = e * (n \div e) + (n % e)
    BY DivisionFacts, Zenon
  <1>2. n \div e - t \in Nat
    BY <1>1
  <1>3. e * (n \div e - t) \in Nat
    BY <1>2, ProductIsNatural, Zenon
  <1>4. e * (n \div e - t) = e * (n \div e) - t * e
    BY <1>1
  <1> QED BY <1>1, <1>3, <1>4

\* No bytes are no elements, and more bytes are no fewer.
LEMMA FewerBytes ==
  ASSUME NEW m \in Int, NEW n \in Int, m <= n, NEW e \in Nat, e > 0
  PROVE  m \div e <= n \div e
  <1>1. /\ m \div e \in Int /\ m % e \in Nat /\ m % e < e /\ m = e * (m \div e) + (m % e)
        /\ n \div e \in Int /\ n % e \in Nat /\ n % e < e /\ n = e * (n \div e) + (n % e)
    BY DivisionFacts, Zenon
  <1>2. ASSUME m \div e > n \div e PROVE FALSE
    <2>1. m \div e - (n \div e) - 1 \in Nat
      BY <1>1, <1>2
    <2>2. e * (m \div e - (n \div e) - 1) \in Nat
      BY <2>1, ProductIsNatural, Zenon
    <2>3. e * (m \div e - (n \div e) - 1) = e * (m \div e) - e * (n \div e) - e
      BY <1>1
    <2> QED BY <1>1, <2>2, <2>3
  <1> QED BY <1>1, <1>2

\* What brings a length to a chunk boundary (BatchTake, write_complete_chunks).
LEMMA BoundaryFacts ==
  ASSUME NEW c \in Nat, c > 0, NEW d \in Nat, NEW k \in Int
  PROVE  LET b == (c - (d % c)) % c
         IN  b \in Nat /\ b < c /\ (d + (b + k * c)) % c = 0
  <1> DEFINE b == (c - (d % c)) % c
  <1>1. d \div c \in Int /\ d % c \in Nat /\ d % c < c /\ d = c * (d \div c) + (d % c)
    BY DivisionFacts
  <1>2. b \in Nat /\ b < c
    BY <1>1, DivisionFacts
  <1>3. b = IF d % c = 0 THEN 0 ELSE c - (d % c)
    <2>1. CASE d % c = 0
      <3>1. (c * 1) % c = 0
        BY MultipleIsWhole
      <3> QED BY <2>1, <3>1
    <2>2. CASE d % c # 0
      BY <1>1, <2>2
    <2> QED BY <2>1, <2>2, Zenon
  <1> HIDE DEF b
  <1>4. \E p \in Int : d + (b + k * c) = c * p
    <2>1. PICK q \in Int, r \in Nat : d = c * q + r /\ r = d % c
      BY <1>1, Zenon
    <2>2. CASE r = 0
      <3>1. b = 0
        BY <1>3, <2>1, <2>2, Zenon
      <3>2. d + (b + k * c) = c * (q + k)
        BY <2>1, <2>2, <3>1
      <3> QED BY <3>2
    <2>3. CASE r # 0
      <3>1. b = c - r
        BY <1>3, <2>1, <2>3, Zenon
      <3>2. d + (b + k * c) = c * (q + k + 1)
        BY <2>1, <3>1
      <3> QED BY <3>2
    <2> QED BY <2>2, <2>3, Zenon
  <1>5. (d + (b + k * c)) % c = 0
    BY <1>4, MultipleIsWhole, Zenon
  <1> QED BY <1>2, <1>5, Zenon DEF b

(***************************************************************************)
(* The buffer of one appender (BufferedAppender).                          *)
(*                                                                         *)
(* Holds says that a dataset shows the first bytes of the appender, up to  *)
(* lo, once and in order.  It is true of the elements and the buffer       *)
(* outside a failed write; between the failure and the second reading of   *)
(* the length it is true of some prefix of what was being written, which   *)
(* is as long as the dataset grew unless another append landed.            *)
(***************************************************************************)
Settings ==
    [maximum : Nat \cup {Unlimited}, lossy : BOOLEAN, batched : BOOLEAN,
     mine : {"reject", "allow"}, theirs : {"reject", "allow"}]
Buffers ==
    [lo : Nat, hi : Nat, life : {"unopened", "opening", "active", "poisoned", "stopped"}, mistyped : BOOLEAN]
Calls ==
    [pc : {"none", "idle", "settle", "chunks", "guard", "before", "write", "landed"},
     kind : {"none", "append", "flush", "finish"}, mark : Nat, take : Nat, before : Nat]
Others == [pc : {"idle", "append"}, left : Nat, dim : Nat]
Pasts  == [foreign : BOOLEAN, raced : BOOLEAN, blind : BOOLEAN, promised : Nat]

BufferTypes ==
    /\ elements \in Seq(Int) /\ setting \in Settings /\ standing \in {"open", "uncertain", "closed"}
    /\ buffer \in Buffers /\ call \in Calls /\ other \in Others /\ faults \in Nat /\ past \in Pasts

\* The own elements of e are the first w of the appender, in order.
Shows(e, w) ==
    /\ \A i \in 1..Len(e) : e[i] # Appender!Foreign => \E k \in 0..(w - 1) : e[i] = k * ElementSize
    /\ \A k \in 0..(w - 1) : \E i \in 1..Len(e) : e[i] = k * ElementSize
    /\ \A i, j \in 1..Len(e) : i < j /\ e[i] # Appender!Foreign /\ e[j] # Appender!Foreign => e[i] < e[j]

Holds(e, lo) == \E w \in Nat : lo = w * ElementSize /\ Shows(e, w)

\* Where the appender's calls stand: the steps of a call, its kind, and the life of the buffer.
Steps(b, c) ==
    /\ c.pc = "none" <=> b.life \in {"unopened", "opening"}
    /\ c.pc \in {"none", "idle"} <=> c.kind = "none"
    /\ c.pc = "none" => b.lo = 0 /\ b.hi = 0
    /\ c.pc \in {"settle", "chunks"} => c.kind = "append"
    /\ c.pc = "guard" => c.kind = "flush"
    /\ c.pc \in {"settle", "chunks", "guard", "before", "write"} => b.life = "active"
    /\ c.pc = "landed" => b.life = "poisoned"

\* A write that lost track of the length was the last one.
Tracks(b, c, p) ==
    /\ p.blind => c.pc = "idle" /\ b.life \in {"poisoned", "stopped"}
    /\ p.raced /\ c.pc \notin {"write", "landed"} => c.pc = "idle" /\ b.life \in {"poisoned", "stopped"}

\* What was accepted and is promised to be kept.
Keeps(b, c, p) == p.promised = IF c.kind = "append" THEN c.mark ELSE b.hi

Written(e, b, c, p) ==
    /\ ~p.blind /\ c.pc # "landed" /\ (p.raced => c.pc = "write") => Holds(e, b.lo)
    /\ c.pc = "write" /\ ~p.raced => c.before = Len(e)
    /\ c.pc = "landed" => \E t \in 0..c.take : /\ Holds(e, b.lo + t * ElementSize)
                                               /\ ~p.raced => Len(e) = c.before + t

BufferInv ==
    /\ BufferTypes
    /\ Steps(buffer, call)
    /\ Tracks(buffer, call, past)
    /\ Keeps(buffer, call, past)
    /\ Written(elements, buffer, call, past)

\* Nothing has happened that may poison the appender.
Clean == ~past.foreign /\ faults = 0 /\ standing = "open" /\ ~buffer.mistyped

\* The elements in n bytes fit the dataset e under the maximum of s.
Fits(e, s, n) == s.maximum # Unlimited => Len(e) + (n \div ElementSize) <= s.maximum

Tailless(e, s, n) == s.lossy /\ s.mine = "reject" => (Len(e) + n) % Chunk = 0

\* What keeps the writes of an appender acceptable to the engine.
Acceptable(e, s, b, c) ==
    /\ b.life # "poisoned"
    /\ b.lo <= b.hi
    /\ c.kind = "append" => b.lo <= c.mark
    /\ Fits(e, s, 0)
    /\ b.life \in {"opening", "active"} => Tailless(e, s, 0)
    /\ b.life = "active" => IF c.pc = "settle" THEN Fits(e, s, c.mark - b.lo) ELSE Fits(e, s, b.hi - b.lo)
    /\ c.pc \in {"guard", "before", "write"} => c.take <= (b.hi - b.lo) \div ElementSize
    /\ c.pc \in {"before", "write"} /\ c.kind # "finish" => Tailless(e, s, c.take)

CleanInv == Clean => Acceptable(elements, setting, buffer, call)

AppenderInv == BufferInv /\ CleanInv

LEMMA ConstantFacts ==
    /\ Chunk \in Nat /\ Chunk > 0
    /\ ElementSize \in Nat /\ ElementSize > 0
    /\ FullBatch \in Nat /\ FullBatch > 0
    /\ Maxima \subseteq Nat /\ Unlimited \notin Nat /\ Lengths \subseteq Nat /\ Submissions \subseteq Nat
  BY AppenderAssumption DEF Appender!ConstantsOK

\* Lands(t, items) takes the dataset from e to f.
Extends(f, e, items, t) == f = e \o SubSeq(items, 1, t)

\* Lands: the first t of the items are added at the end.
LEMMA LandedElements ==
  ASSUME NEW e \in Seq(Int), NEW items \in Seq(Int), NEW t \in 0..Len(items), NEW f, Extends(f, e, items, t)
  PROVE  /\ f \in Seq(Int)
         /\ Len(f) = Len(e) + t
         /\ \A i \in 1..Len(e) : f[i] = e[i]
         /\ \A i \in 1..t : f[Len(e) + i] = items[i]
         /\ t = 0 => f = e
  <1>1. SubSeq(items, 1, t) \in Seq(Int) /\ Len(SubSeq(items, 1, t)) = t
    OBVIOUS
  <1>2. \A i \in 1..t : SubSeq(items, 1, t)[i] = items[i]
    OBVIOUS
  <1> USE DEF Extends
  <1>3. f \in Seq(Int) /\ Len(f) = Len(e) + t
    BY <1>1, SMTT(30)
  <1>4. \A i \in 1..Len(e) : f[i] = e[i]
    BY <1>1, SMTT(30)
  <1>5. \A i \in 1..t : f[Len(e) + i] = items[i]
    BY <1>1, <1>2, SMTT(30)
  <1>6. t = 0 => f = e
    BY <1>1, SMTT(30)
  <1> QED BY <1>3, <1>4, <1>5, <1>6, Zenon

\* Elements of the other handle do not change what is shown of the appender.
LEMMA TheirsLand ==
  ASSUME NEW e \in Seq(Int), NEW n \in Nat, NEW t \in 0..n, NEW f, Extends(f, e, Appender!Theirs(n), t)
  PROVE  /\ f \in Seq(Int)
         /\ Len(f) = Len(e) + t
         /\ t = 0 => f = e
         /\ \A lo : Holds(e, lo) => Holds(f, lo)
  <1>1. Appender!Theirs(n) \in Seq(Int) /\ Len(Appender!Theirs(n)) = n
    BY DEF Appender!Theirs, Appender!Foreign
  <1>2. /\ f \in Seq(Int)
        /\ Len(f) = Len(e) + t
        /\ \A i \in 1..Len(e) : f[i] = e[i]
        /\ \A i \in 1..t : f[Len(e) + i] = Appender!Theirs(n)[i]
        /\ t = 0 => f = e
    BY <1>1, LandedElements, Zenon
  <1>3. \A i \in 1..Len(f) : i \in 1..Len(e) \/ f[i] = Appender!Foreign
    <2> SUFFICES ASSUME NEW i \in 1..Len(f), i \notin 1..Len(e) PROVE f[i] = Appender!Foreign
      BY Zenon
    <2>1. i - Len(e) \in 1..t /\ i = Len(e) + (i - Len(e))
      BY <1>2, SMTT(30)
    <2>2. f[i] = Appender!Theirs(n)[i - Len(e)]
      BY <1>2, <2>1, SMTT(30)
    <2> QED BY <2>1, <2>2, SMTT(30) DEF Appender!Theirs
  <1>4. 1..Len(e) \subseteq 1..Len(f)
    BY <1>2, SMTT(30)
  <1>5. ASSUME NEW w \in Nat, Shows(e, w) PROVE Shows(f, w)
    <2>1. ASSUME NEW i \in 1..Len(f), f[i] # Appender!Foreign PROVE i \in 1..Len(e) /\ f[i] = e[i]
      BY <1>2, <1>3, <2>1, Zenon
    <2>2. \A i \in 1..Len(f) : f[i] # Appender!Foreign => \E k \in 0..(w - 1) : f[i] = k * ElementSize
      BY <1>5, <2>1, Zenon DEF Shows
    <2>3. ASSUME NEW k \in 0..(w - 1) PROVE \E i \in 1..Len(f) : f[i] = k * ElementSize
      BY <1>2, <1>4, <1>5, Zenon DEF Shows
    <2>4. ASSUME NEW i \in 1..Len(f), NEW j \in 1..Len(f), i < j,
                 f[i] # Appender!Foreign, f[j] # Appender!Foreign
          PROVE  f[i] < f[j]
      <3>1. i \in 1..Len(e) /\ f[i] = e[i] /\ j \in 1..Len(e) /\ f[j] = e[j]
        BY <2>1, <2>4, Zenon
      <3> QED BY <1>5, <2>4, <3>1, Zenon DEF Shows
    <2> QED BY <2>2, <2>3, <2>4, Zenon DEF Shows
  <1> QED BY <1>2, <1>5, Zenon DEF Holds

\* The first n elements of a buffer that begins at lo.
Heads(items, n, lo) == Len(items) = n /\ \A i \in 1..n : items[i] = lo + (i - 1) * ElementSize

\* The first t elements of the buffer follow what is shown of the appender.
LEMMA HeadLands ==
  ASSUME NEW e \in Seq(Int), NEW lo \in Nat, NEW n \in Nat, NEW t \in 0..n, NEW items \in Seq(Int), NEW f,
         Heads(items, n, lo), Extends(f, e, items, t)
  PROVE  /\ f \in Seq(Int)
         /\ Len(f) = Len(e) + t
         /\ Holds(e, lo) => Holds(f, lo + t * ElementSize)
  <1>2. \A i \in 1..n : items[i] = lo + (i - 1) * ElementSize
    BY Zenon DEF Heads
  <1>4. /\ f \in Seq(Int)
        /\ Len(f) = Len(e) + t
        /\ \A i \in 1..Len(e) : f[i] = e[i]
        /\ \A i \in 1..t : f[Len(e) + i] = items[i]
        /\ t = 0 => f = e
    <2>1. t \in 0..Len(items)
      BY Zenon DEF Heads
    <2> QED BY <2>1, LandedElements, Zenon
  <1>5. ASSUME NEW w \in Nat, lo = w * ElementSize, Shows(e, w) PROVE Holds(f, lo + t * ElementSize)
    <2> DEFINE v == w + t
    <2> HIDE DEF v
    <2>1. lo + t * ElementSize = v * ElementSize /\ v \in Nat
      BY <1>5, ConstantFacts, SMTT(30) DEF v
    <2>2. \A i \in 1..t : f[Len(e) + i] = (w + i - 1) * ElementSize
      <3> SUFFICES ASSUME NEW i \in 1..t PROVE f[Len(e) + i] = (w + i - 1) * ElementSize
        BY Zenon
      <3>0. i \in 1..n
        BY SMTT(30)
      <3>1. f[Len(e) + i] = lo + (i - 1) * ElementSize
        BY <1>2, <1>4, <3>0, Zenon
      <3>2. w * ElementSize + (i - 1) * ElementSize = (w + i - 1) * ElementSize
        BY ConstantFacts, SMTT(30)
      <3> QED BY <1>5, <3>1, <3>2, Zenon
    <2>3. \A i \in 1..Len(f) : i \in 1..Len(e) \/ (i - Len(e) \in 1..t /\ i = Len(e) + (i - Len(e)))
      BY <1>4, SMTT(30)
    <2>4. ASSUME NEW i \in 1..Len(f), f[i] # Appender!Foreign
          PROVE  \E k \in 0..(v - 1) : f[i] = k * ElementSize
      <3>1. CASE i \in 1..Len(e)
        <4>1. PICK k \in 0..(w - 1) : e[i] = k * ElementSize
          BY <1>4, <1>5, <2>4, <3>1, Zenon DEF Shows
        <4>2. k \in 0..(v - 1)
          BY SMTT(30) DEF v
        <4> QED BY <1>4, <3>1, <4>1, <4>2, Zenon
      <3>2. CASE i - Len(e) \in 1..t /\ i = Len(e) + (i - Len(e))
        <4>1. f[i] = (w + (i - Len(e)) - 1) * ElementSize
          BY <2>2, <3>2, Zenon
        <4>2. w + (i - Len(e)) - 1 \in 0..(v - 1)
          BY <3>2, SMTT(30) DEF v
        <4> QED BY <4>1, <4>2, Zenon
      <3> QED BY <2>3, <3>1, <3>2, Zenon
    <2>5. ASSUME NEW k \in 0..(v - 1) PROVE \E i \in 1..Len(f) : f[i] = k * ElementSize
      <3>1. CASE k < w
        <4>1. k \in 0..(w - 1)
          BY <2>1, <3>1, SMTT(30)
        <4>2. PICK i \in 1..Len(e) : e[i] = k * ElementSize
          BY <1>5, <4>1, Zenon DEF Shows
        <4>3. i \in 1..Len(f) /\ f[i] = k * ElementSize
          BY <1>4, <4>2, SMTT(30)
        <4> QED BY <4>3, Zenon
      <3>2. CASE k >= w
        <4>1. k - w + 1 \in 1..t /\ w + (k - w + 1) - 1 = k /\ Len(e) + (k - w + 1) \in 1..Len(f)
          BY <1>4, <3>2, SMTT(30) DEF v
        <4>2. f[Len(e) + (k - w + 1)] = k * ElementSize
          BY <2>2, <4>1, Zenon
        <4> QED BY <4>1, <4>2, Zenon
      <3>3. k < w \/ k >= w
        BY <2>1, SMTT(30)
      <3> QED BY <3>1, <3>2, <3>3, Zenon
    <2>6. ASSUME NEW i \in 1..Len(f), NEW j \in 1..Len(f), i < j,
                 f[i] # Appender!Foreign, f[j] # Appender!Foreign
          PROVE  f[i] < f[j]
      <3>1. CASE j \in 1..Len(e)
        <4>1. i \in 1..Len(e)
          BY <2>6, <3>1, SMTT(30)
        <4> QED BY <1>4, <1>5, <2>6, <3>1, <4>1, Zenon DEF Shows
      <3>2. CASE j - Len(e) \in 1..t /\ j = Len(e) + (j - Len(e))
        <4>0. w + (j - Len(e)) - 1 \in Nat
          BY <3>2, SMTT(30)
        <4>1. f[j] = (w + (j - Len(e)) - 1) * ElementSize
          BY <2>2, <3>2, Zenon
        <4>2. \E k \in Nat : k < w + (j - Len(e)) - 1 /\ f[i] = k * ElementSize
          <5>1. CASE i \in 1..Len(e)
            <6>1. PICK k \in 0..(w - 1) : e[i] = k * ElementSize
              BY <1>4, <1>5, <2>6, <5>1, Zenon DEF Shows
            <6>2. k \in Nat /\ k < w + (j - Len(e)) - 1
              BY <3>2, SMTT(30)
            <6> QED BY <1>4, <5>1, <6>1, <6>2, Zenon
          <5>2. CASE i - Len(e) \in 1..t /\ i = Len(e) + (i - Len(e))
            <6>1. f[i] = (w + (i - Len(e)) - 1) * ElementSize
              BY <2>2, <5>2, Zenon
            <6>2. w + (i - Len(e)) - 1 \in Nat
              BY <5>2, SMTT(30)
            <6>3. i \in Int /\ j \in Int /\ Len(e) \in Int /\ i < j
              BY <1>4, <2>6, SMTT(30)
            <6>4. w + (i - Len(e)) - 1 < w + (j - Len(e)) - 1
              BY <6>3, SMTT(30)
            <6> QED BY <6>1, <6>2, <6>4, Zenon
          <5> QED BY <2>3, <5>1, <5>2, Zenon
        <4>3. ASSUME NEW k \in Nat, NEW l \in Nat, k < l PROVE k * ElementSize < l * ElementSize
          BY <4>3, ConstantFacts, SMTT(30)
        <4> QED BY <4>0, <4>1, <4>2, <4>3, Zenon
      <3> QED BY <2>3, <3>1, <3>2, Zenon
    <2>7. Shows(f, v)
      <3>1. /\ \A i \in 1..Len(f) : f[i] # Appender!Foreign => \E k \in 0..(v - 1) : f[i] = k * ElementSize
            /\ \A k \in 0..(v - 1) : \E i \in 1..Len(f) : f[i] = k * ElementSize
        BY <2>4, <2>5, Zenon
      <3>2. \A i, j \in 1..Len(f) :
                i < j /\ f[i] # Appender!Foreign /\ f[j] # Appender!Foreign => f[i] < f[j]
        BY <2>6, Zenon
      <3> QED BY <3>1, <3>2, Zenon DEF Shows
    <2> QED BY <2>1, <2>7, Zenon DEF Holds
  <1> QED BY <1>4, <1>5, Zenon DEF Holds

LEMMA LengthIsNatural == ASSUME NEW e \in Seq(Int) PROVE Len(e) \in Nat
  OBVIOUS

\* The parts of the records.
LEMMA BufferFacts ==
  ASSUME BufferTypes
  PROVE  /\ buffer.lo \in Nat /\ buffer.hi \in Nat /\ buffer.mistyped \in BOOLEAN
         /\ buffer.life \in {"unopened", "opening", "active", "poisoned", "stopped"}
         /\ call.pc \in {"none", "idle", "settle", "chunks", "guard", "before", "write", "landed"}
         /\ call.kind \in {"none", "append", "flush", "finish"}
         /\ call.mark \in Nat /\ call.take \in Nat /\ call.before \in Nat
         /\ past.foreign \in BOOLEAN /\ past.raced \in BOOLEAN /\ past.blind \in BOOLEAN /\ past.promised \in Nat
         /\ Len(elements) \in Nat
  BY Zenon, LengthIsNatural DEF BufferTypes, Buffers, Calls, Pasts

\* A call that has written nothing is refused, and its input is taken back (settle).
LEMMA ReturnFacts ==
  ASSUME BufferTypes, NEW b \in Buffers, NEW ok \in BOOLEAN, Appender!Return(b, ok)
  PROVE  /\ buffer' \in Buffers /\ call' \in Calls
         /\ call'.pc = "idle" /\ call'.kind = "none"
         /\ buffer'.lo = b.lo
         /\ buffer'.hi = IF call.kind = "append" /\ ~ok /\ b.life = "active" THEN call.mark ELSE b.hi
         /\ buffer'.life = IF call.kind = "finish" THEN "stopped" ELSE b.life
         /\ buffer'.mistyped = b.mistyped
  <1>1. call' = [pc |-> "idle", kind |-> "none", mark |-> 0, take |-> 0, before |-> 0]
    BY Zenon DEF Appender!Return, Appender!None
  <1>2. call.mark \in Nat
    BY BufferFacts, Zenon
  <1>3. /\ buffer'.lo = b.lo
        /\ buffer'.hi = IF call.kind = "append" /\ ~ok /\ b.life = "active" THEN call.mark ELSE b.hi
        /\ buffer'.life = IF call.kind = "finish" THEN "stopped" ELSE b.life
        /\ buffer'.mistyped = b.mistyped
    BY Zenon DEF Appender!Return, Appender!Returned, Buffers
  <1>4. buffer' \in Buffers
    BY <1>2, Zenon DEF Appender!Return, Appender!Returned, Buffers
  <1>5. call' \in Calls
    BY <1>1, Zenon DEF Calls
  <1> QED BY <1>1, <1>3, <1>4, <1>5, Zenon

LEMMA RefusedCallKeeps ==
  ASSUME BufferInv, call.pc \in {"settle", "chunks", "guard", "before"}, Appender!Return(buffer, FALSE),
         UNCHANGED <<elements, past>>
  PROVE  /\ buffer' \in Buffers /\ call' \in Calls
         /\ Steps(buffer', call') /\ Tracks(buffer', call', past') /\ Keeps(buffer', call', past')
         /\ Written(elements', buffer', call', past')
  <1>1. /\ buffer' \in Buffers /\ call' \in Calls
        /\ call'.pc = "idle" /\ call'.kind = "none"
        /\ buffer'.lo = buffer.lo
        /\ buffer'.hi = IF call.kind = "append" /\ ~FALSE /\ buffer.life = "active" THEN call.mark ELSE buffer.hi
        /\ buffer'.life = IF call.kind = "finish" THEN "stopped" ELSE buffer.life
    BY ReturnFacts, Zenon DEF BufferInv, BufferTypes
  <1>2. buffer.life = "active" /\ past.raced = FALSE /\ past.blind = FALSE
    BY BufferFacts, Zenon DEF BufferInv, Steps, Tracks
  <1>3. Steps(buffer', call')
    BY <1>1, <1>2, Zenon DEF Steps
  <1>4. Tracks(buffer', call', past')
    BY <1>2, Zenon DEF Tracks
  <1>5. Keeps(buffer', call', past')
    BY <1>1, <1>2, Zenon DEF BufferInv, Keeps
  <1>6. Written(elements', buffer', call', past')
    BY <1>1, <1>2, Zenon DEF BufferInv, Written
  <1> QED BY <1>1, <1>3, <1>4, <1>5, <1>6, Zenon

LEMMA BufferInit == Appender!Init => AppenderInv
  <1> SUFFICES ASSUME Appender!Init PROVE AppenderInv
    BY Zenon
  <1>1. PICK n \in Lengths : elements = [i \in 1..n |-> Appender!Foreign]
    BY Zenon DEF Appender!Init
  <1>2. n \in Nat
    BY ConstantFacts, Zenon
  <1>3. elements \in Seq(Int) /\ Len(elements) = n /\ \A i \in 1..n : elements[i] = Appender!Foreign
    BY <1>1, <1>2 DEF Appender!Foreign
  <1>4. /\ buffer = [lo |-> 0, hi |-> 0, life |-> "unopened", mistyped |-> FALSE]
        /\ call = [pc |-> "none", kind |-> "none", mark |-> 0, take |-> 0, before |-> 0]
        /\ other = [pc |-> "idle", left |-> 0, dim |-> 0]
        /\ past = [foreign |-> FALSE, raced |-> FALSE, blind |-> FALSE, promised |-> 0]
        /\ faults = 0 /\ standing = "open"
    BY Zenon DEF Appender!Init, Appender!None, Appender!Resting
  <1>5. setting \in Settings
    <2>1. Maxima \subseteq Nat
      BY ConstantFacts, Zenon
    <2> QED BY <2>1, Zenon DEF Appender!Init, Settings
  <1>6. BufferTypes
    BY <1>3, <1>4, <1>5, Zenon DEF BufferTypes, Buffers, Calls, Others, Pasts
  <1>7. Shows(elements, 0)
    BY <1>2, <1>3, SMTT(30) DEF Shows
  <1>8. Holds(elements, 0)
    <2>1. 0 = 0 * ElementSize
      BY ConstantFacts, SMTT(30)
    <2> QED BY <1>7, <2>1, Zenon DEF Holds
  <1>9. Steps(buffer, call) /\ Tracks(buffer, call, past) /\ Keeps(buffer, call, past)
    BY <1>4, Zenon DEF Steps, Tracks, Keeps
  <1>10. Written(elements, buffer, call, past)
    BY <1>4, <1>8, Zenon DEF Written
  <1>11. Fits(elements, setting, 0)
    <2>1. 0 \div ElementSize = 0
      BY ConstantFacts, SMTT(30)
    <2>2. setting.maximum # Unlimited => setting.maximum \in Nat /\ n <= setting.maximum
      BY <1>3, <1>5, ZenonT(30) DEF Settings, Appender!Init, Appender!Finite, Appender!Dim
    <2> QED BY <1>2, <1>3, <2>1, <2>2, SMTT(30) DEF Fits
  <1>12. Acceptable(elements, setting, buffer, call)
    BY <1>4, <1>11, SMTT(30) DEF Acceptable
  <1> QED BY <1>6, <1>9, <1>10, <1>12, Zenon DEF AppenderInv, BufferInv, CleanInv

\* BufferState::new reads the geometry.
LEMMA OpenKeepsBuffer == AppenderInv /\ Appender!Open => AppenderInv'
  <1> SUFFICES ASSUME AppenderInv, Appender!Open PROVE AppenderInv'
    BY Zenon
  <1>1. /\ buffer.life = "unopened" /\ buffer' = [buffer EXCEPT !.life = "opening"]
        /\ UNCHANGED <<elements, setting, standing, call, other, faults, past>>
        /\ ~Appender!Protected(Len(elements), setting.mine)
    BY Zenon DEF Appender!Open, Appender!Dim
  <1>2. BufferTypes
    BY Zenon DEF AppenderInv, BufferInv
  <1>3. /\ buffer' \in Buffers /\ buffer'.life = "opening"
        /\ buffer'.lo = buffer.lo /\ buffer'.hi = buffer.hi /\ buffer'.mistyped = buffer.mistyped
    BY <1>1, <1>2, Zenon DEF BufferTypes, Buffers
  <1>4. BufferTypes'
    BY <1>1, <1>2, <1>3, Zenon DEF BufferTypes
  <1>5. call.pc = "none" /\ call.kind = "none"
    BY <1>1, Zenon DEF AppenderInv, BufferInv, Steps
  <1>6. Steps(buffer', call')
    BY <1>1, <1>3, <1>5, Zenon DEF AppenderInv, BufferInv, Steps
  <1>7. Tracks(buffer', call', past') /\ Keeps(buffer', call', past')
    BY <1>1, <1>3, <1>5, Zenon DEF AppenderInv, BufferInv, Tracks, Keeps
  <1>8. Written(elements', buffer', call', past')
    BY <1>1, <1>3, <1>5, Zenon DEF AppenderInv, BufferInv, Written
  <1>9. Tailless(elements, setting, 0)
    <2>1. Len(elements) + 0 = Len(elements)
      BY <1>2, BufferFacts, SMTT(30)
    <2> QED BY <1>1, <2>1, Zenon DEF Tailless, Appender!Protected
  <1>10. ASSUME Clean' PROVE Acceptable(elements', setting', buffer', call')
    <2>1. Acceptable(elements, setting, buffer, call)
      BY <1>1, <1>3, <1>10, Zenon DEF AppenderInv, CleanInv, Clean
    <2> QED BY <1>1, <1>3, <1>5, <1>9, <2>1, Zenon DEF Acceptable
  <1> QED BY <1>4, <1>6, <1>7, <1>8, <1>10, Zenon DEF AppenderInv, BufferInv, CleanInv

\* BufferState::new claims the dataset.
LEMMA ClaimKeepsBuffer == AppenderInv /\ Appender!Claim => AppenderInv'
  <1> SUFFICES ASSUME AppenderInv, Appender!Claim PROVE AppenderInv'
    BY Zenon
  <1>1. /\ buffer.life = "opening" /\ buffer' = [buffer EXCEPT !.life = "active"]
        /\ call' = [pc |-> "idle", kind |-> "none", mark |-> 0, take |-> 0, before |-> 0]
        /\ UNCHANGED <<elements, setting, standing, other, faults, past>>
    BY Zenon DEF Appender!Claim, Appender!None
  <1>2. BufferTypes
    BY Zenon DEF AppenderInv, BufferInv
  <1>3. /\ buffer' \in Buffers /\ buffer'.life = "active"
        /\ buffer'.lo = buffer.lo /\ buffer'.hi = buffer.hi /\ buffer'.mistyped = buffer.mistyped
    BY <1>1, <1>2, Zenon DEF BufferTypes, Buffers
  <1>4. call' \in Calls /\ call'.pc = "idle" /\ call'.kind = "none"
    BY <1>1, Zenon DEF Calls
  <1>5. BufferTypes'
    BY <1>1, <1>2, <1>3, <1>4, Zenon DEF BufferTypes
  <1>6. call.pc = "none" /\ call.kind = "none" /\ buffer.lo = 0 /\ buffer.hi = 0
    BY <1>1, Zenon DEF AppenderInv, BufferInv, Steps
  <1>7. past.raced = FALSE /\ past.blind = FALSE
    BY <1>2, <1>6, BufferFacts, Zenon DEF AppenderInv, BufferInv, Tracks
  <1>8. Steps(buffer', call')
    BY <1>3, <1>4, Zenon DEF Steps
  <1>9. Tracks(buffer', call', past') /\ Keeps(buffer', call', past')
    BY <1>1, <1>3, <1>4, <1>6, <1>7, Zenon DEF AppenderInv, BufferInv, Tracks, Keeps
  <1>10. Written(elements', buffer', call', past')
    BY <1>1, <1>3, <1>4, <1>6, <1>7, Zenon DEF AppenderInv, BufferInv, Written
  <1>11. ASSUME Clean' PROVE Acceptable(elements', setting', buffer', call')
    <2>1. Acceptable(elements, setting, buffer, call)
      BY <1>1, <1>3, <1>11, Zenon DEF AppenderInv, CleanInv, Clean
    <2>2. buffer'.hi - buffer'.lo = 0
      BY <1>3, <1>6
    <2> QED BY <1>1, <1>3, <1>4, <1>6, <2>1, <2>2, Zenon DEF Acceptable
  <1> QED BY <1>5, <1>8, <1>9, <1>10, <1>11, Zenon DEF AppenderInv, BufferInv, CleanInv

\* append and append_raw take the input into the buffer.
LEMMA AcceptKeepsBuffer ==
  ASSUME AppenderInv, NEW bytes \in Submissions, NEW mistyped \in BOOLEAN, Appender!Accept(bytes, mistyped)
  PROVE  AppenderInv'
  <1> DEFINE pc == IF setting.maximum # Unlimited THEN "settle" ELSE "chunks"
  <1>1. /\ call.pc = "idle" /\ buffer.life = "active"
        /\ buffer' = [buffer EXCEPT !.hi = @ + bytes, !.mistyped = @ \/ mistyped]
        /\ call' = [pc |-> pc, kind |-> "append", mark |-> buffer.hi, take |-> 0, before |-> 0]
        /\ UNCHANGED <<elements, setting, standing, other, faults, past>>
    BY Zenon DEF Appender!Accept, Appender!Usable, Appender!Idle, Appender!Active, Appender!None, Appender!Finite
  <1>2. BufferTypes /\ bytes \in Nat
    BY ConstantFacts, Zenon DEF AppenderInv, BufferInv
  <1>3. buffer.hi + bytes \in Nat /\ buffer.hi <= buffer.hi + bytes
    BY <1>2, BufferFacts, SMTT(30)
  <1>4. /\ buffer' \in Buffers /\ buffer'.life = "active"
        /\ buffer'.lo = buffer.lo /\ buffer'.hi = buffer.hi + bytes /\ buffer'.mistyped = (buffer.mistyped \/ mistyped)
    BY <1>1, <1>2, <1>3, Zenon DEF BufferTypes, Buffers
  <1>5. call' \in Calls /\ call'.pc = pc /\ call'.kind = "append" /\ call'.mark = buffer.hi
    BY <1>1, <1>2, BufferFacts, Zenon DEF Calls
  <1>6. BufferTypes'
    BY <1>1, <1>2, <1>4, <1>5, Zenon DEF BufferTypes
  <1>7. past.raced = FALSE /\ past.blind = FALSE /\ call.kind = "none"
    BY <1>1, <1>2, BufferFacts, Zenon DEF AppenderInv, BufferInv, Tracks, Steps
  <1>8. Steps(buffer', call')
    BY <1>4, <1>5, Zenon DEF Steps
  <1>9. Tracks(buffer', call', past') /\ Keeps(buffer', call', past')
    BY <1>1, <1>4, <1>5, <1>7, Zenon DEF AppenderInv, BufferInv, Tracks, Keeps
  <1>10. Written(elements', buffer', call', past')
    BY <1>1, <1>4, <1>5, <1>7, Zenon DEF AppenderInv, BufferInv, Written
  <1>11. ASSUME Clean' PROVE Acceptable(elements', setting', buffer', call')
    <2>1. Acceptable(elements, setting, buffer, call)
      BY <1>1, <1>4, <1>11, Zenon DEF AppenderInv, CleanInv, Clean
    <2>2. buffer'.lo <= buffer'.hi /\ buffer'.lo <= call'.mark
      BY <1>2, <1>3, <1>4, <1>5, <2>1, BufferFacts, SMTT(30) DEF Acceptable
    <2>3. Fits(elements, setting, buffer.hi - buffer.lo)
      BY <1>1, <2>1, Zenon DEF Acceptable
    <2>4. call'.pc # "settle" => Fits(elements, setting, buffer'.hi - buffer'.lo)
      BY <1>5, Zenon DEF Fits
    <2> QED BY <1>1, <1>4, <1>5, <2>1, <2>2, <2>3, <2>4, Zenon DEF Acceptable
  <1> QED BY <1>6, <1>8, <1>9, <1>10, <1>11, Zenon DEF AppenderInv, BufferInv, CleanInv

\* A call of a clean appender that is refused leaves it as acceptable as it was.
LEMMA RefusedCallAccepts ==
  ASSUME BufferInv, Acceptable(elements, setting, buffer, call), call.pc \in {"settle", "guard"},
         Appender!Return(buffer, FALSE), UNCHANGED <<elements, setting>>
  PROVE  Acceptable(elements', setting', buffer', call')
  <1>1. /\ call'.pc = "idle" /\ call'.kind = "none"
        /\ buffer'.lo = buffer.lo
        /\ buffer'.hi = IF call.kind = "append" /\ ~FALSE /\ buffer.life = "active" THEN call.mark ELSE buffer.hi
        /\ buffer'.life = IF call.kind = "finish" THEN "stopped" ELSE buffer.life
    BY ReturnFacts, Zenon DEF BufferInv, BufferTypes
  <1>2. CASE call.pc = "settle"
    <2>1. call.kind = "append" /\ buffer.life = "active"
      BY <1>2, Zenon DEF BufferInv, Steps
    <2> QED BY <1>1, <1>2, <2>1, Zenon DEF Acceptable
  <1>3. CASE call.pc = "guard"
    <2>1. call.kind = "flush" /\ buffer.life = "active"
      BY <1>3, Zenon DEF BufferInv, Steps
    <2> QED BY <1>1, <1>3, <2>1, Zenon DEF Acceptable
  <1> QED BY <1>2, <1>3, Zenon

\* A read of the geometry that fails is a failure, or the session is closed.
LEMMA GeometryFailureIsNotClean ==
  ASSUME BufferTypes, Appender!GeometryFails, UNCHANGED standing
  PROVE  ~Clean' /\ faults' \in Nat
  BY DEF BufferTypes, Appender!GeometryFails, Clean

\* A call goes on to its next step.
LEMMA StepFacts ==
  ASSUME BufferTypes, NEW pc, pc \in {"chunks", "before", "landed"}, Appender!At(pc)
  PROVE  /\ call' \in Calls /\ call'.pc = pc /\ call'.kind = call.kind
         /\ call'.mark = call.mark /\ call'.take = call.take /\ call'.before = call.before
  BY Zenon DEF BufferTypes, Calls, Appender!At

\* The refused part of a step of a call: its reading of the geometry fails.
LEMMA FailedReadingKeeps ==
  ASSUME AppenderInv, call.pc \in {"settle", "chunks", "guard", "before"}, Appender!GeometryFails,
         Appender!Return(buffer, FALSE), UNCHANGED <<elements, setting, standing, other, past>>
  PROVE  AppenderInv'
  <1>1. BufferInv /\ BufferTypes
    BY Zenon DEF AppenderInv, BufferInv
  <1>2. /\ buffer' \in Buffers /\ call' \in Calls
        /\ Steps(buffer', call') /\ Tracks(buffer', call', past') /\ Keeps(buffer', call', past')
        /\ Written(elements', buffer', call', past')
    BY <1>1, RefusedCallKeeps, Zenon
  <1>3. ~Clean' /\ faults' \in Nat
    BY <1>1, GeometryFailureIsNotClean, Zenon
  <1>4. BufferTypes'
    BY <1>1, <1>2, <1>3, Zenon DEF BufferTypes
  <1> QED BY <1>2, <1>3, <1>4, Zenon DEF AppenderInv, BufferInv, CleanInv

\* A call of a session that can be read is refused.
LEMMA RefusalKeeps ==
  ASSUME AppenderInv, call.pc \in {"settle", "guard"}, Appender!Return(buffer, FALSE),
         UNCHANGED <<elements, setting, standing, other, faults, past>>
  PROVE  AppenderInv'
  <1>1. BufferInv /\ BufferTypes
    BY Zenon DEF AppenderInv, BufferInv
  <1>2. /\ buffer' \in Buffers /\ call' \in Calls
        /\ Steps(buffer', call') /\ Tracks(buffer', call', past') /\ Keeps(buffer', call', past')
        /\ Written(elements', buffer', call', past')
    BY <1>1, RefusedCallKeeps, Zenon
  <1>3. buffer'.mistyped = buffer.mistyped
    BY <1>1, ReturnFacts, Zenon DEF BufferTypes
  <1>4. BufferTypes'
    BY <1>1, <1>2, Zenon DEF BufferTypes
  <1>5. ASSUME Clean' PROVE Acceptable(elements', setting', buffer', call')
    <2>1. Acceptable(elements, setting, buffer, call)
      BY <1>3, <1>5, Zenon DEF AppenderInv, CleanInv, Clean
    <2> QED BY <1>1, <2>1, RefusedCallAccepts, Zenon
  <1> QED BY <1>2, <1>4, <1>5, Zenon DEF AppenderInv, BufferInv, CleanInv

\* settle measures what was accepted against the maximum.
LEMMA SettleKeepsBuffer == AppenderInv /\ Appender!Settle => AppenderInv'
  <1> SUFFICES ASSUME AppenderInv, Appender!Settle PROVE AppenderInv'
    BY Zenon
  <1>1. call.pc = "settle" /\ UNCHANGED <<elements, setting, standing, other, past>>
    BY Zenon DEF Appender!Settle
  <1>2. BufferTypes
    BY Zenon DEF AppenderInv, BufferInv
  <1>3. ASSUME Appender!GeometryFails, Appender!Return(buffer, FALSE) PROVE AppenderInv'
    BY <1>1, <1>3, FailedReadingKeeps, Zenon
  <1>4. ASSUME Appender!Return(buffer, FALSE), UNCHANGED faults PROVE AppenderInv'
    BY <1>1, <1>4, RefusalKeeps, Zenon
  <1>5. ASSUME ~Appender!Exceeds, Appender!At("chunks"), UNCHANGED buffer, UNCHANGED faults PROVE AppenderInv'
    <2>1. /\ call' \in Calls /\ call'.pc = "chunks" /\ call'.kind = call.kind
          /\ call'.mark = call.mark /\ call'.take = call.take /\ call'.before = call.before
      BY <1>2, <1>5, StepFacts, Zenon
    <2>2. BufferTypes'
      BY <1>1, <1>2, <1>5, <2>1, ZenonT(30) DEF BufferTypes
    <2>3. Steps(buffer', call')
      BY <1>1, <1>5, <2>1, Zenon DEF AppenderInv, BufferInv, Steps
    <2>4. Tracks(buffer', call', past') /\ Keeps(buffer', call', past')
      BY <1>1, <1>5, <2>1, Zenon DEF AppenderInv, BufferInv, Tracks, Keeps
    <2>5. Written(elements', buffer', call', past')
      BY <1>1, <1>5, <2>1, Zenon DEF AppenderInv, BufferInv, Written
    <2>6. Fits(elements, setting, buffer.hi - buffer.lo)
      <3> SUFFICES ASSUME setting.maximum # Unlimited
                   PROVE  Len(elements) + ((buffer.hi - buffer.lo) \div ElementSize) <= setting.maximum
        BY Zenon DEF Fits
      <3>1. setting.maximum \in Nat
        BY <1>2, Zenon DEF BufferTypes, Settings
      <3>2. (buffer.hi - buffer.lo) \div ElementSize \in Int
        BY <1>2, BufferFacts, ConstantFacts, DivisionFacts, SMTT(30)
      <3>3. ~((buffer.hi - buffer.lo) \div ElementSize > setting.maximum - Len(elements))
        BY <1>5, Zenon DEF Appender!Exceeds, Appender!Available, Appender!Dim
      <3>4. Len(elements) \in Nat
        BY <1>2, BufferFacts, Zenon
      <3> HIDE DEF Fits
      <3> QED BY <3>1, <3>2, <3>3, <3>4, SMTT(30)
    <2>7. ASSUME Clean' PROVE Acceptable(elements', setting', buffer', call')
      <3>1. Acceptable(elements, setting, buffer, call)
        BY <1>1, <1>5, <2>7, Zenon DEF AppenderInv, CleanInv, Clean
      <3> QED BY <1>1, <1>5, <2>1, <2>6, <3>1, Zenon DEF Acceptable
    <2> QED BY <2>2, <2>3, <2>4, <2>5, <2>7, Zenon DEF AppenderInv, BufferInv, CleanInv
  <1> QED BY <1>3, <1>4, <1>5, Zenon DEF Appender!Settle

\* The prefix that write_complete_chunks takes ends at a chunk boundary and is in the buffer.
LEMMA TakesFacts ==
  ASSUME BufferTypes, Appender!Available >= Chunk
  PROVE  /\ Appender!Takes \in Nat
         /\ Appender!Takes <= (buffer.hi - buffer.lo) \div ElementSize
         /\ (Len(elements) + Appender!Takes) % Chunk = 0
  <1> DEFINE a == (buffer.hi - buffer.lo) \div ElementSize
             b == (Chunk - (Len(elements) % Chunk)) % Chunk
             k == (a - b) \div Chunk
  <1>1. a \in Int /\ a >= Chunk
    BY BufferFacts, ConstantFacts, DivisionFacts, SMTT(30) DEF Appender!Available
  <1>2. Len(elements) \in Nat /\ Chunk \in Nat /\ Chunk > 0
    BY BufferFacts, ConstantFacts, Zenon
  <1>3. b \in Nat /\ b < Chunk
    <2>1. Len(elements) % Chunk \in Nat
      BY <1>2, DivisionFacts, SMTT(30)
    <2>2. Chunk - (Len(elements) % Chunk) \in Int
      BY <1>2, <2>1, SMTT(30)
    <2> QED BY <1>2, <2>2, DivisionFacts, Zenon
  <1>4. a - b \in Nat
    BY <1>1, <1>2, <1>3, SMTT(30)
  <1> HIDE DEF a, b
  <1>5. k \in Int /\ (a - b) % Chunk \in Nat /\ a - b = Chunk * k + ((a - b) % Chunk)
    <2>1. a - b \in Int
      BY <1>4, SMTT(30)
    <2> QED BY <1>2, <2>1, DivisionFacts, Zenon
  <1>6. Appender!Takes = b + k * Chunk
    BY Zenon DEF a, b, Appender!Takes, Appender!ToBoundary, Appender!Available, Appender!Dim
  <1>7. (Len(elements) + (b + k * Chunk)) % Chunk = 0
    BY <1>2, <1>5, BoundaryFacts, Zenon DEF b
  <1>8. k >= 0
    <2>1. 0 \div Chunk = 0
      BY <1>2, SMTT(30)
    <2> QED BY <1>2, <1>4, <2>1, FewerBytes, SMTT(30)
  <1> HIDE DEF k
  <1>9. k * Chunk \in Nat /\ k * Chunk = Chunk * k
    BY <1>2, <1>5, <1>8, ProductIsNatural, SMTT(30)
  <1>10. b + k * Chunk \in Nat /\ b + k * Chunk <= a
    BY <1>1, <1>3, <1>4, <1>5, <1>9, SMTT(30)
  <1> QED BY <1>6, <1>7, <1>10, Zenon DEF a

\* write_complete_chunks.
LEMMA ChunksKeepBuffer == AppenderInv /\ Appender!WriteCompleteChunks => AppenderInv'
  <1> SUFFICES ASSUME AppenderInv, Appender!WriteCompleteChunks PROVE AppenderInv'
    BY Zenon
  <1>1. call.pc = "chunks" /\ UNCHANGED <<elements, setting, standing, other>>
    BY Zenon DEF Appender!WriteCompleteChunks
  <1>2. BufferTypes
    BY Zenon DEF AppenderInv, BufferInv
  <1>3. call.kind = "append" /\ buffer.life = "active" /\ past.raced = FALSE /\ past.blind = FALSE
    BY <1>1, <1>2, BufferFacts, Zenon DEF AppenderInv, BufferInv, Steps, Tracks
  <1>4. ASSUME Appender!Return(buffer, TRUE), past' = [past EXCEPT !.promised = buffer.hi], UNCHANGED faults
        PROVE  AppenderInv'
    <2>1. /\ buffer' \in Buffers /\ call' \in Calls
          /\ call'.pc = "idle" /\ call'.kind = "none"
          /\ buffer'.lo = buffer.lo
          /\ buffer'.hi = IF call.kind = "append" /\ ~TRUE /\ buffer.life = "active" THEN call.mark ELSE buffer.hi
          /\ buffer'.life = IF call.kind = "finish" THEN "stopped" ELSE buffer.life
          /\ buffer'.mistyped = buffer.mistyped
      BY <1>2, <1>4, ReturnFacts, Zenon DEF BufferTypes
    <2>2. buffer'.hi = buffer.hi /\ buffer'.life = "active"
      BY <1>3, <2>1, Zenon
    <2>3. /\ past' \in Pasts /\ past'.promised = buffer.hi /\ past'.raced = FALSE /\ past'.blind = FALSE
          /\ past'.foreign = past.foreign
      BY <1>2, <1>3, <1>4, BufferFacts, Zenon DEF BufferTypes, Pasts
    <2>4. BufferTypes'
      BY <1>1, <1>2, <1>4, <2>1, <2>3, Zenon DEF BufferTypes
    <2>5. Steps(buffer', call')
      BY <2>1, <2>2, Zenon DEF Steps
    <2>6. Tracks(buffer', call', past') /\ Keeps(buffer', call', past')
      BY <2>1, <2>2, <2>3, Zenon DEF Tracks, Keeps
    <2>7. Written(elements', buffer', call', past')
      BY <1>1, <1>3, <2>1, <2>3, Zenon DEF AppenderInv, BufferInv, Written
    <2>8. ASSUME Clean' PROVE Acceptable(elements', setting', buffer', call')
      <3>1. Acceptable(elements, setting, buffer, call)
        BY <1>1, <1>4, <2>1, <2>3, <2>8, Zenon DEF AppenderInv, CleanInv, Clean
      <3>2. /\ buffer.lo <= buffer.hi /\ Fits(elements, setting, 0) /\ Tailless(elements, setting, 0)
            /\ Fits(elements, setting, buffer.hi - buffer.lo)
        BY <1>1, <1>3, <3>1, Zenon DEF Acceptable
      <3> QED BY <1>1, <2>1, <2>2, <3>2, Zenon DEF Acceptable
    <2> QED BY <2>4, <2>5, <2>6, <2>7, <2>8, Zenon DEF AppenderInv, BufferInv, CleanInv
  <1>5. ASSUME Appender!Available >= Chunk, call' = [call EXCEPT !.pc = "before", !.take = Appender!Takes],
               UNCHANGED <<buffer, faults, past>>
        PROVE  AppenderInv'
    <2>1. /\ Appender!Takes \in Nat
          /\ Appender!Takes <= (buffer.hi - buffer.lo) \div ElementSize
          /\ (Len(elements) + Appender!Takes) % Chunk = 0
      BY <1>2, <1>5, TakesFacts, Zenon
    <2>2. /\ call' \in Calls /\ call'.pc = "before" /\ call'.kind = call.kind
          /\ call'.mark = call.mark /\ call'.take = Appender!Takes
      BY <1>2, <1>5, <2>1, Zenon DEF BufferTypes, Calls
    <2>3. BufferTypes'
      BY <1>1, <1>2, <1>5, <2>2, Zenon DEF BufferTypes
    <2>4. Steps(buffer', call')
      BY <1>3, <1>5, <2>2, Zenon DEF Steps
    <2>5. Tracks(buffer', call', past') /\ Keeps(buffer', call', past')
      BY <1>3, <1>5, <2>2, Zenon DEF AppenderInv, BufferInv, Tracks, Keeps
    <2>6. Written(elements', buffer', call', past')
      BY <1>1, <1>3, <1>5, <2>2, Zenon DEF AppenderInv, BufferInv, Written
    <2>7. Tailless(elements, setting, Appender!Takes)
      BY <2>1, Zenon DEF Tailless
    <2>8. ASSUME Clean' PROVE Acceptable(elements', setting', buffer', call')
      <3>1. Acceptable(elements, setting, buffer, call)
        BY <1>1, <1>5, <2>8, Zenon DEF AppenderInv, CleanInv, Clean
      <3> QED BY <1>1, <1>3, <1>5, <2>1, <2>2, <2>7, <3>1, Zenon DEF Acceptable
    <2> QED BY <2>3, <2>4, <2>5, <2>6, <2>8, Zenon DEF AppenderInv, BufferInv, CleanInv
  <1>6. ASSUME Appender!GeometryFails, Appender!Return(buffer, FALSE), UNCHANGED past PROVE AppenderInv'
    BY <1>1, <1>6, FailedReadingKeeps, Zenon
  <1> QED BY <1>4, <1>5, <1>6, Zenon DEF Appender!WriteCompleteChunks

\* flush, and the flush of finish and of teardown.
LEMMA FlushKeepsBuffer ==
  ASSUME AppenderInv, NEW kind \in {"flush", "finish"}, Appender!Flush(kind)
  PROVE  AppenderInv'
  <1> DEFINE pc == IF Appender!Guarded(kind) THEN "guard" ELSE "before"
  <1>1. /\ call.pc = "idle" /\ buffer.life = "active"
        /\ Appender!Available > 0
        /\ call' = [pc |-> pc, kind |-> kind, mark |-> 0, take |-> Appender!Available, before |-> 0]
        /\ UNCHANGED <<elements, setting, standing, buffer, other, faults, past>>
    BY Zenon DEF Appender!Flush, Appender!Flushable, Appender!Usable, Appender!Idle, Appender!Active, Appender!None
  <1>2. BufferTypes
    BY Zenon DEF AppenderInv, BufferInv
  <1>3. Appender!Available \in Nat /\ Appender!Available = (buffer.hi - buffer.lo) \div ElementSize
    BY <1>1, <1>2, BufferFacts, ConstantFacts, DivisionFacts, SMTT(30) DEF Appender!Available
  <1>4. /\ call' \in Calls /\ call'.pc = pc /\ pc \in {"guard", "before"} /\ call'.kind = kind
        /\ call'.take = Appender!Available
    BY <1>1, <1>3, Zenon DEF Calls
  <1>5. BufferTypes'
    BY <1>1, <1>2, <1>4, Zenon DEF BufferTypes
  <1>6. past.raced = FALSE /\ past.blind = FALSE /\ call.kind = "none"
    BY <1>1, <1>2, BufferFacts, Zenon DEF AppenderInv, BufferInv, Tracks, Steps
  <1>7. pc = "guard" => kind = "flush"
    BY Zenon DEF Appender!Guarded
  <1>8. pc = "before" => kind = "finish" \/ ~(setting.lossy /\ setting.mine = "reject")
    BY Zenon DEF Appender!Guarded
  <1> HIDE DEF pc
  <1>9. Steps(buffer', call')
    BY <1>1, <1>4, <1>7, Zenon DEF Steps
  <1>10. Tracks(buffer', call', past') /\ Keeps(buffer', call', past')
    <2>1. call'.kind # "append" /\ call.kind # "append"
      BY <1>4, <1>6, Zenon
    <2> QED BY <1>1, <1>6, <2>1, Zenon DEF AppenderInv, BufferInv, Tracks, Keeps
  <1>11. Written(elements', buffer', call', past')
    <2>1. call'.pc \notin {"write", "landed"}
      BY <1>4, Zenon
    <2> QED BY <1>1, <1>6, <2>1, Zenon DEF AppenderInv, BufferInv, Written
  <1>12. ASSUME Clean' PROVE Acceptable(elements', setting', buffer', call')
    <2>1. Acceptable(elements, setting, buffer, call)
      BY <1>1, <1>12, Zenon DEF AppenderInv, CleanInv, Clean
    <2>2. call'.pc = "before" /\ call'.kind # "finish" => Tailless(elements, setting, call'.take)
      BY <1>4, <1>8, Zenon DEF Tailless
    <2>3. /\ buffer.lo <= buffer.hi /\ Fits(elements, setting, 0) /\ Tailless(elements, setting, 0)
          /\ Fits(elements, setting, buffer.hi - buffer.lo)
      BY <1>1, <2>1, Zenon DEF Acceptable
    <2>4. call'.kind # "append" /\ call'.pc \notin {"settle", "write"}
      BY <1>4, Zenon
    <2>5. call'.take <= (buffer.hi - buffer.lo) \div ElementSize
      BY <1>3, <1>4, SMTT(30)
    <2> QED BY <1>1, <2>2, <2>3, <2>4, <2>5, Zenon DEF Acceptable
  <1> QED BY <1>5, <1>9, <1>10, <1>11, <1>12, Zenon DEF AppenderInv, BufferInv, CleanInv

\* The guard of a flush that other writes may follow.
LEMMA GuardKeepsBuffer == AppenderInv /\ Appender!FlushGuard => AppenderInv'
  <1> SUFFICES ASSUME AppenderInv, Appender!FlushGuard PROVE AppenderInv'
    BY Zenon
  <1>1. call.pc = "guard" /\ UNCHANGED <<elements, setting, standing, other, past>>
    BY Zenon DEF Appender!FlushGuard
  <1>2. BufferTypes
    BY Zenon DEF AppenderInv, BufferInv
  <1>3. ASSUME Appender!GeometryFails, Appender!Return(buffer, FALSE) PROVE AppenderInv'
    BY <1>1, <1>3, FailedReadingKeeps, Zenon
  <1>4. ASSUME Appender!Return(buffer, FALSE), UNCHANGED faults PROVE AppenderInv'
    BY <1>1, <1>4, RefusalKeeps, Zenon
  <1>5. ASSUME (Len(elements) + call.take) % Chunk = 0, Appender!At("before"), UNCHANGED buffer, UNCHANGED faults
        PROVE  AppenderInv'
    <2>1. /\ call' \in Calls /\ call'.pc = "before" /\ call'.kind = call.kind
          /\ call'.mark = call.mark /\ call'.take = call.take
      BY <1>2, <1>5, StepFacts, Zenon
    <2>2. call.kind = "flush" /\ buffer.life = "active"
      BY <1>1, Zenon DEF AppenderInv, BufferInv, Steps
    <2>3. BufferTypes'
      BY <1>1, <1>2, <1>5, <2>1, Zenon DEF BufferTypes
    <2>4. Steps(buffer', call')
      BY <1>5, <2>1, <2>2, Zenon DEF Steps
    <2>5. Tracks(buffer', call', past') /\ Keeps(buffer', call', past')
      BY <1>1, <1>5, <2>1, Zenon DEF AppenderInv, BufferInv, Tracks, Keeps
    <2>6. Written(elements', buffer', call', past')
      BY <1>1, <1>5, <2>1, Zenon DEF AppenderInv, BufferInv, Written
    <2>7. Tailless(elements, setting, call.take)
      BY <1>5, Zenon DEF Tailless
    <2>8. ASSUME Clean' PROVE Acceptable(elements', setting', buffer', call')
      <3>1. Acceptable(elements, setting, buffer, call)
        BY <1>1, <1>5, <2>8, Zenon DEF AppenderInv, CleanInv, Clean
      <3> QED BY <1>1, <1>5, <2>1, <2>2, <2>7, <3>1, Zenon DEF Acceptable
    <2> QED BY <2>3, <2>4, <2>5, <2>6, <2>8, Zenon DEF AppenderInv, BufferInv, CleanInv
  <1> QED BY <1>3, <1>4, <1>5, Zenon DEF Appender!FlushGuard, Appender!Dim

\* write_prefix reads the length.
LEMMA BeforeKeepsBuffer == AppenderInv /\ Appender!Before => AppenderInv'
  <1> SUFFICES ASSUME AppenderInv, Appender!Before PROVE AppenderInv'
    BY Zenon
  <1>1. call.pc = "before" /\ UNCHANGED <<elements, setting, standing, other>>
    BY Zenon DEF Appender!Before
  <1>2. BufferTypes
    BY Zenon DEF AppenderInv, BufferInv
  <1>3. buffer.life = "active" /\ past.raced = FALSE /\ past.blind = FALSE /\ call.kind # "none"
    BY <1>1, <1>2, BufferFacts, Zenon DEF AppenderInv, BufferInv, Steps, Tracks
  <1>4. ASSUME Appender!GeometryFails, Appender!Return(buffer, FALSE), UNCHANGED past PROVE AppenderInv'
    BY <1>1, <1>4, FailedReadingKeeps, Zenon
  <1>5. ASSUME call' = [call EXCEPT !.pc = "write", !.before = Len(elements)], past' = [past EXCEPT !.raced = FALSE],
               UNCHANGED <<buffer, faults>>
        PROVE  AppenderInv'
    <2>1. /\ call' \in Calls /\ call'.pc = "write" /\ call'.kind = call.kind
          /\ call'.mark = call.mark /\ call'.take = call.take /\ call'.before = Len(elements)
      BY <1>2, <1>5, BufferFacts, Zenon DEF BufferTypes, Calls
    <2>2. /\ past' \in Pasts /\ past'.promised = past.promised /\ past'.raced = FALSE /\ past'.blind = FALSE
          /\ past'.foreign = past.foreign
      BY <1>2, <1>3, <1>5, Zenon DEF BufferTypes, Pasts
    <2>3. BufferTypes'
      BY <1>1, <1>2, <1>5, <2>1, <2>2, Zenon DEF BufferTypes
    <2>4. Steps(buffer', call')
      BY <1>3, <1>5, <2>1, Zenon DEF Steps
    <2>5. Tracks(buffer', call', past') /\ Keeps(buffer', call', past')
      BY <1>5, <2>1, <2>2, Zenon DEF AppenderInv, BufferInv, Tracks, Keeps
    <2>6. Written(elements', buffer', call', past')
      BY <1>1, <1>3, <1>5, <2>1, <2>2, Zenon DEF AppenderInv, BufferInv, Written
    <2>7. ASSUME Clean' PROVE Acceptable(elements', setting', buffer', call')
      <3>1. Acceptable(elements, setting, buffer, call)
        BY <1>1, <1>5, <2>2, <2>7, Zenon DEF AppenderInv, CleanInv, Clean
      <3> QED BY <1>1, <1>5, <2>1, <3>1, Zenon DEF Acceptable
    <2> QED BY <2>3, <2>4, <2>5, <2>6, <2>7, Zenon DEF AppenderInv, BufferInv, CleanInv
  <1> QED BY <1>4, <1>5, Zenon DEF Appender!Before, Appender!Dim

\* The buffer without its first n elements (drop_front).
LEMMA DroppedFacts ==
  ASSUME BufferTypes, NEW n \in Nat
  PROVE  /\ Appender!Dropped(n) \in Buffers
         /\ Appender!Dropped(n).lo = buffer.lo + n * ElementSize
         /\ Appender!Dropped(n).hi = buffer.hi
         /\ Appender!Dropped(n).life = buffer.life
         /\ Appender!Dropped(n).mistyped = buffer.mistyped
  <1>1. buffer.lo + n * ElementSize \in Nat
    BY BufferFacts, ConstantFacts, ProductIsNatural, SMTT(30)
  <1> QED BY <1>1, Zenon DEF BufferTypes, Buffers, Appender!Dropped

\* What an append of the appender's prefix may leave in the dataset.
LEMMA PrefixLands ==
  ASSUME BufferTypes, NEW t \in 0..call.take, Appender!Lands(t, Appender!HeadElements)
  PROVE  /\ elements' \in Seq(Int)
         /\ Len(elements') = Len(elements) + t
         /\ Holds(elements, buffer.lo) => Holds(elements', buffer.lo + t * ElementSize)
  <1> DEFINE items == Appender!HeadElements
  <1>1. call.take \in Nat /\ buffer.lo \in Nat /\ elements \in Seq(Int)
    BY BufferFacts, Zenon DEF BufferTypes
  <1>2. \A i \in 1..call.take : items[i] = buffer.lo + (i - 1) * ElementSize
    BY Zenon DEF Appender!HeadElements
  <1>3. items \in Seq(Int) /\ Len(items) = call.take
    <2>1. \A i \in 1..call.take : buffer.lo + (i - 1) * ElementSize \in Int
      BY <1>1, ConstantFacts, SMTT(30)
    <2> QED BY <1>1, <2>1, SMTT(30) DEF Appender!HeadElements
  <1>4. Extends(elements', elements, items, t)
    BY Zenon DEF Extends, Appender!Lands
  <1> HIDE DEF items
  <1>5. Heads(items, call.take, buffer.lo)
    BY <1>2, <1>3, Zenon DEF Heads
  <1> QED BY <1>1, <1>3, <1>4, <1>5, HeadLands, Zenon

\* What the engine finds when a clean appender writes.
LEMMA CleanWriteIsAccepted ==
  ASSUME BufferInv, Clean, Acceptable(elements, setting, buffer, call), call.pc = "write"
  PROVE  ~Appender!Refused(call.take, setting.mine, buffer.mistyped)
  <1>1. buffer.life = "active" /\ BufferTypes
    BY Zenon DEF BufferInv, Steps
  <1>2. call.take <= (buffer.hi - buffer.lo) \div ElementSize
    BY Zenon DEF Acceptable
  <1>3. Fits(elements, setting, buffer.hi - buffer.lo) /\ Tailless(elements, setting, 0)
    BY <1>1, Zenon DEF Acceptable
  <1>4. ~(Appender!Finite /\ Appender!Dim + call.take > setting.maximum)
    <2> SUFFICES ASSUME setting.maximum # Unlimited PROVE ~(Len(elements) + call.take > setting.maximum)
      BY Zenon DEF Appender!Finite, Appender!Dim
    <2>1. Len(elements) + ((buffer.hi - buffer.lo) \div ElementSize) <= setting.maximum
      BY <1>3, Zenon DEF Fits
    <2>2. /\ setting.maximum \in Nat /\ Len(elements) \in Nat /\ call.take \in Nat
      BY <1>1, BufferFacts, Zenon DEF BufferTypes, Settings
    <2>3. (buffer.hi - buffer.lo) \div ElementSize \in Int
      BY <1>1, BufferFacts, ConstantFacts, DivisionFacts, SMTT(30)
    <2> QED BY <1>2, <2>1, <2>2, <2>3, SMTT(30)
  <1>5. ~Appender!Protected(Appender!Dim, setting.mine)
    <2>1. Len(elements) + 0 = Len(elements)
      BY <1>1, BufferFacts, SMTT(30)
    <2> QED BY <1>3, <2>1, Zenon DEF Tailless, Appender!Protected, Appender!Dim
  <1> QED BY <1>4, <1>5, Zenon DEF Clean, Appender!Refused

LEMMA CountAfterTake ==
  ASSUME NEW n \in Nat, NEW t \in Nat PROVE (n - t * ElementSize) \div ElementSize = n \div ElementSize - t
  BY RestAfterTake, ConstantFacts, Zenon

\* The room left after a clean appender wrote its prefix.
LEMMA CleanWriteLeavesRoom ==
  ASSUME BufferInv, Acceptable(elements, setting, buffer, call), call.pc = "write",
         Len(elements') = Len(elements) + call.take, UNCHANGED setting,
         buffer'.lo = buffer.lo + call.take * ElementSize, buffer'.hi = buffer.hi
  PROVE  /\ buffer'.lo <= buffer'.hi
         /\ Fits(elements', setting', 0)
         /\ Fits(elements', setting', buffer'.hi - buffer'.lo)
         /\ call.kind # "finish" => Tailless(elements', setting', 0)
  <1> DEFINE n == buffer.hi - buffer.lo
             a == n \div ElementSize
  <1>1. buffer.life = "active" /\ BufferTypes
    BY Zenon DEF BufferInv, Steps
  <1>2. /\ call.take \in Nat /\ Len(elements) \in Nat /\ buffer.lo \in Nat /\ buffer.hi \in Nat
        /\ ElementSize \in Nat /\ ElementSize > 0
    BY <1>1, BufferFacts, ConstantFacts, Zenon
  <1>3. n \in Nat /\ a \in Int
    <2>1. buffer.lo <= buffer.hi
      BY Zenon DEF Acceptable
    <2>2. n \in Nat
      BY <1>2, <2>1, SMTT(30)
    <2> HIDE DEF n
    <2> QED BY <1>2, <2>2, DivisionFacts, SMTT(30)
  <1>4. call.take <= a /\ Fits(elements, setting, n) /\ (call.kind # "finish" => Tailless(elements, setting, call.take))
    BY <1>1, Zenon DEF Acceptable
  <1> HIDE DEF n
  <1>5. call.take * ElementSize <= n /\ call.take * ElementSize \in Nat
    <2>1. n \in Int
      BY <1>3, SMTT(30)
    <2> QED BY <1>2, <1>4, <2>1, ElementsFit, ProductIsNatural, Zenon
  <1>6. buffer'.lo <= buffer'.hi /\ buffer'.hi - buffer'.lo = n - call.take * ElementSize
    BY <1>2, <1>5, SMTT(30) DEF n
  <1>7. (n - call.take * ElementSize) \div ElementSize = a - call.take
    BY <1>2, <1>3, CountAfterTake, Zenon
  <1>8. 0 \div ElementSize = 0
    BY <1>2, SMTT(30)
  <1>9. setting.maximum # Unlimited => setting.maximum \in Nat /\ Len(elements) + a <= setting.maximum
    BY <1>1, <1>4, Zenon DEF Fits, BufferTypes, Settings
  <1> HIDE DEF a
  <1>10. Fits(elements', setting', 0)
    <2>1. setting.maximum # Unlimited => Len(elements') + 0 <= setting.maximum
      BY <1>2, <1>3, <1>4, <1>9, SMTT(30)
    <2> QED BY <1>8, <2>1, Zenon DEF Fits
  <1>11. Fits(elements', setting', buffer'.hi - buffer'.lo)
    <2>1. setting.maximum # Unlimited => Len(elements') + (a - call.take) <= setting.maximum
      BY <1>2, <1>3, <1>9, SMTT(30)
    <2> QED BY <1>6, <1>7, <2>1, Zenon DEF Fits
  <1>12. call.kind # "finish" => Tailless(elements', setting', 0)
    <2>1. Len(elements') + 0 = Len(elements) + call.take
      BY <1>2, SMTT(30)
    <2> QED BY <1>4, <2>1, Zenon DEF Tailless
  <1> QED BY <1>6, <1>10, <1>11, <1>12, Zenon

\* append_prebuilt succeeds: the prefix is in the dataset and leaves the buffer.
LEMMA WriteKeepsBuffer == AppenderInv /\ Appender!Write => AppenderInv'
  <1> SUFFICES ASSUME AppenderInv, Appender!Write PROVE AppenderInv'
    BY Zenon
  <1> DEFINE b == Appender!Dropped(call.take)
  <1>1. /\ call.pc = "write"
        /\ Appender!Lands(call.take, Appender!HeadElements)
        /\ Appender!Return(b, TRUE)
        /\ past' = [past EXCEPT !.promised = buffer.hi, !.raced = FALSE]
        /\ UNCHANGED <<setting, standing, other, faults>>
    BY Zenon DEF Appender!Write, Appender!Promised
  <1>2. BufferInv /\ BufferTypes
    BY Zenon DEF AppenderInv, BufferInv
  <1>3. buffer.life = "active" /\ past.blind = FALSE /\ call.kind # "none"
    BY <1>1, <1>2, BufferFacts, Zenon DEF BufferInv, Steps, Tracks
  <1>4. call.take \in Nat /\ call.take \in 0..call.take
    BY <1>2, BufferFacts, SMTT(30)
  <1>5. /\ b \in Buffers /\ b.lo = buffer.lo + call.take * ElementSize /\ b.hi = buffer.hi
        /\ b.life = buffer.life /\ b.mistyped = buffer.mistyped
    BY <1>2, <1>4, DroppedFacts, Zenon
  <1> HIDE DEF b
  <1>6. /\ buffer' \in Buffers /\ call' \in Calls
        /\ call'.pc = "idle" /\ call'.kind = "none"
        /\ buffer'.lo = b.lo
        /\ buffer'.hi = IF call.kind = "append" /\ ~TRUE /\ b.life = "active" THEN call.mark ELSE b.hi
        /\ buffer'.life = IF call.kind = "finish" THEN "stopped" ELSE b.life
        /\ buffer'.mistyped = b.mistyped
    BY <1>1, <1>2, <1>5, ReturnFacts, Zenon
  <1>7. buffer'.hi = buffer.hi /\ buffer'.lo = buffer.lo + call.take * ElementSize
    BY <1>5, <1>6, Zenon
  <1>8. /\ elements' \in Seq(Int)
        /\ Len(elements') = Len(elements) + call.take
        /\ Holds(elements, buffer.lo) => Holds(elements', buffer.lo + call.take * ElementSize)
    BY <1>1, <1>2, <1>4, PrefixLands, Zenon
  <1>9. /\ past' \in Pasts /\ past'.promised = buffer.hi /\ past'.raced = FALSE /\ past'.blind = FALSE
        /\ past'.foreign = past.foreign
    BY <1>1, <1>2, <1>3, BufferFacts, Zenon DEF BufferTypes, Pasts
  <1>10. BufferTypes'
    BY <1>1, <1>2, <1>6, <1>8, <1>9, Zenon DEF BufferTypes
  <1>11. buffer'.life \in {"active", "stopped"} /\ (buffer'.life = "active" => call.kind # "finish")
    BY <1>3, <1>5, <1>6, Zenon
  <1>12. Steps(buffer', call')
    BY <1>6, <1>11, Zenon DEF Steps
  <1>13. Tracks(buffer', call', past') /\ Keeps(buffer', call', past')
    BY <1>6, <1>7, <1>9, Zenon DEF Tracks, Keeps
  <1>14. Holds(elements, buffer.lo)
    BY <1>1, <1>2, <1>3, Zenon DEF BufferInv, Written
  <1>15. Written(elements', buffer', call', past')
    BY <1>6, <1>7, <1>8, <1>9, <1>14, ZenonT(30) DEF Written
  <1>16. ASSUME Clean' PROVE Acceptable(elements', setting', buffer', call')
    <2>1. Acceptable(elements, setting, buffer, call)
      BY <1>1, <1>5, <1>6, <1>9, <1>16, Zenon DEF AppenderInv, CleanInv, Clean
    <2>2. /\ buffer'.lo <= buffer'.hi
          /\ Fits(elements', setting', 0)
          /\ Fits(elements', setting', buffer'.hi - buffer'.lo)
          /\ call.kind # "finish" => Tailless(elements', setting', 0)
      BY <1>1, <1>2, <1>7, <1>8, <2>1, CleanWriteLeavesRoom, Zenon
    <2> QED BY <1>6, <1>11, <2>2, Zenon DEF Acceptable
  <1> QED BY <1>10, <1>12, <1>13, <1>15, <1>16, Zenon DEF AppenderInv, BufferInv, CleanInv

\* The batches of an append end between its first and its last element.
LEMMA BatchEndsFacts ==
  ASSUME NEW dim \in Nat, NEW n \in Nat, NEW d \in Appender!BatchEnds(dim, n)
  PROVE  d - dim \in 0..n /\ d = dim + (d - dim)
  <1>1. d \in dim..(dim + n)
    BY DEF Appender!BatchEnds
  <1> QED BY <1>1

\* append_prebuilt fails.
LEMMA WriteFailsKeepsBuffer == AppenderInv /\ Appender!WriteFails => AppenderInv'
  <1> SUFFICES ASSUME AppenderInv, Appender!WriteFails PROVE AppenderInv'
    BY Zenon
  <1>1. /\ call.pc = "write" /\ buffer' = [buffer EXCEPT !.life = "poisoned"] /\ Appender!At("landed")
        /\ UNCHANGED <<setting, other, past>>
    BY Zenon DEF Appender!WriteFails
  <1>2. BufferInv /\ BufferTypes
    BY Zenon DEF AppenderInv, BufferInv
  <1>3. /\ buffer' \in Buffers /\ buffer'.life = "poisoned"
        /\ buffer'.lo = buffer.lo /\ buffer'.hi = buffer.hi /\ buffer'.mistyped = buffer.mistyped
    BY <1>1, <1>2, Zenon DEF BufferTypes, Buffers
  <1>4. /\ call' \in Calls /\ call'.pc = "landed" /\ call'.kind = call.kind
        /\ call'.mark = call.mark /\ call'.take = call.take /\ call'.before = call.before
    BY <1>1, <1>2, StepFacts, Zenon
  <1>5. past.blind = FALSE /\ call.kind # "none"
    BY <1>1, <1>2, BufferFacts, Zenon DEF BufferInv, Steps, Tracks
  <1>6. Holds(elements, buffer.lo) /\ (~past.raced => call.before = Len(elements))
    BY <1>1, <1>2, <1>5, Zenon DEF BufferInv, Written
  <1>7. Steps(buffer', call')
    BY <1>3, <1>4, <1>5, Zenon DEF Steps
  <1>8. Tracks(buffer', call', past') /\ Keeps(buffer', call', past')
    BY <1>1, <1>2, <1>3, <1>4, <1>5, Zenon DEF BufferInv, Tracks, Keeps
  <1>9. Len(elements) \in Nat /\ call.take \in Nat /\ buffer.lo \in Nat
    BY <1>2, BufferFacts, Zenon
  <1>10. ASSUME NEW t \in 0..call.take, elements' \in Seq(Int), Len(elements') = Len(elements) + t,
                Holds(elements', buffer.lo + t * ElementSize)
         PROVE  Written(elements', buffer', call', past')
    BY <1>1, <1>3, <1>4, <1>6, <1>10, Zenon DEF Written
  <1>11. CASE Appender!Refused(call.take, setting.mine, buffer.mistyped) /\ UNCHANGED <<elements, standing, faults>>
    <2>1. BufferTypes'
      BY <1>1, <1>2, <1>3, <1>4, <1>11, Zenon DEF BufferTypes
    <2>2. 0 \in 0..call.take /\ Len(elements') = Len(elements) + 0 /\ buffer.lo = buffer.lo + 0 * ElementSize
      BY <1>9, <1>11, ConstantFacts, SMTT(30)
    <2>3. Written(elements', buffer', call', past')
      BY <1>2, <1>6, <1>10, <1>11, <2>2, Zenon DEF BufferTypes
    <2>4. ~Clean'
      <3> SUFFICES ASSUME Clean' PROVE FALSE
        BY Zenon
      <3>1. Clean
        BY <1>1, <1>3, <1>11, Zenon DEF Clean
      <3> QED BY <1>1, <1>2, <1>11, <3>1, CleanWriteIsAccepted, Zenon DEF AppenderInv, CleanInv
    <2> QED BY <1>7, <1>8, <2>1, <2>3, <2>4, Zenon DEF AppenderInv, BufferInv, CleanInv
  <1>12. CASE Appender!Fails(call.take, Appender!HeadElements)
    <2>1. faults' = faults + 1 /\ standing' \in {"open", "uncertain"}
      BY <1>12, Zenon DEF Appender!Fails
    <2>2. PICK d \in Appender!BatchEnds(Len(elements), call.take) :
              Appender!Lands(d - Len(elements), Appender!HeadElements)
      BY <1>12, Zenon DEF Appender!Fails, Appender!Dim
    <2>3. d - Len(elements) \in 0..call.take
      BY <1>9, <2>2, BatchEndsFacts, Zenon
    <2>4. /\ elements' \in Seq(Int)
          /\ Len(elements') = Len(elements) + (d - Len(elements))
          /\ Holds(elements, buffer.lo) => Holds(elements', buffer.lo + (d - Len(elements)) * ElementSize)
      BY <1>2, <2>2, <2>3, PrefixLands, Zenon
    <2>5. Written(elements', buffer', call', past')
      BY <1>6, <1>10, <2>3, <2>4, Zenon
    <2>6. faults' \in Nat /\ faults' # 0 /\ standing' \in {"open", "uncertain", "closed"}
      BY <1>2, <2>1, SMTT(30) DEF BufferTypes
    <2>7. BufferTypes'
      BY <1>1, <1>2, <1>3, <1>4, <2>4, <2>6, Zenon DEF BufferTypes
    <2>8. ~Clean'
      BY <2>6, Zenon DEF Clean
    <2> QED BY <1>7, <1>8, <2>5, <2>7, <2>8, Zenon DEF AppenderInv, BufferInv, CleanInv
  <1> QED BY <1>11, <1>12, Zenon DEF Appender!WriteFails

\* What a failed write is taken to have landed; it is what did land, unless another append came between.
LEMMA LandedFacts ==
  ASSUME BufferTypes
  PROVE  /\ Appender!Landed \in Nat
         /\ \A t \in 0..call.take : Len(elements) = call.before + t => Appender!Landed = t
  <1>1. Len(elements) \in Nat /\ call.take \in Nat /\ call.before \in Nat
    BY BufferFacts, Zenon
  <1> QED BY <1>1, SMTT(30) DEF Appender!Landed, Appender!Least, Appender!Dim

\* write_prefix reads the length again and drops what landed.
LEMMA DropLandedKeepsBuffer == AppenderInv /\ Appender!DropLanded => AppenderInv'
  <1> SUFFICES ASSUME AppenderInv, Appender!DropLanded PROVE AppenderInv'
    BY Zenon
  <1>1. call.pc = "landed" /\ UNCHANGED <<elements, setting, standing, other>>
    BY Zenon DEF Appender!DropLanded
  <1>2. BufferInv /\ BufferTypes
    BY Zenon DEF AppenderInv, BufferInv
  <1>3. buffer.life = "poisoned" /\ past.blind = FALSE
    BY <1>1, <1>2, BufferFacts, Zenon DEF BufferInv, Steps, Tracks
  <1>4. ASSUME NEW n \in Nat, Appender!Return(Appender!Dropped(n), FALSE)
        PROVE  /\ buffer' \in Buffers /\ call' \in Calls
               /\ call'.pc = "idle" /\ call'.kind = "none"
               /\ buffer'.lo = buffer.lo + n * ElementSize /\ buffer'.hi = buffer.hi
               /\ buffer'.life \in {"poisoned", "stopped"} /\ buffer'.mistyped = buffer.mistyped
    <2> DEFINE b == Appender!Dropped(n)
    <2>1. /\ b \in Buffers /\ b.lo = buffer.lo + n * ElementSize /\ b.hi = buffer.hi
          /\ b.life = buffer.life /\ b.mistyped = buffer.mistyped
      BY <1>2, DroppedFacts, Zenon
    <2>2. Appender!Return(b, FALSE)
      BY <1>4, Zenon
    <2> HIDE DEF b
    <2>3. /\ buffer' \in Buffers /\ call' \in Calls
          /\ call'.pc = "idle" /\ call'.kind = "none"
          /\ buffer'.lo = b.lo
          /\ buffer'.hi = IF call.kind = "append" /\ ~FALSE /\ b.life = "active" THEN call.mark ELSE b.hi
          /\ buffer'.life = IF call.kind = "finish" THEN "stopped" ELSE b.life
          /\ buffer'.mistyped = b.mistyped
      BY <1>2, <2>1, <2>2, ReturnFacts, Zenon
    <2>4. buffer'.hi = b.hi /\ buffer'.life \in {"poisoned", "stopped"}
      BY <1>3, <2>1, <2>3, Zenon
    <2> QED BY <2>1, <2>3, <2>4, Zenon
  <1>5. ASSUME Appender!Return(Appender!Dropped(Appender!Landed), FALSE),
               past' = [past EXCEPT !.promised = buffer.hi], UNCHANGED faults
        PROVE  AppenderInv'
    <2>1. /\ Appender!Landed \in Nat
          /\ \A t \in 0..call.take : Len(elements) = call.before + t => Appender!Landed = t
      BY <1>2, LandedFacts, Zenon
    <2>2. /\ buffer' \in Buffers /\ call' \in Calls
          /\ call'.pc = "idle" /\ call'.kind = "none"
          /\ buffer'.lo = buffer.lo + Appender!Landed * ElementSize /\ buffer'.hi = buffer.hi
          /\ buffer'.life \in {"poisoned", "stopped"} /\ buffer'.mistyped = buffer.mistyped
      BY <1>4, <1>5, <2>1, Zenon
    <2>3. /\ past' \in Pasts /\ past'.promised = buffer.hi /\ past'.raced = past.raced /\ past'.blind = FALSE
          /\ past'.foreign = past.foreign
      BY <1>2, <1>3, <1>5, BufferFacts, Zenon DEF BufferTypes, Pasts
    <2>4. BufferTypes'
      BY <1>1, <1>2, <1>5, <2>2, <2>3, Zenon DEF BufferTypes
    <2>5. Steps(buffer', call')
      BY <2>2, Zenon DEF Steps
    <2>6. Tracks(buffer', call', past') /\ Keeps(buffer', call', past')
      BY <2>2, <2>3, Zenon DEF Tracks, Keeps
    <2>7. Written(elements', buffer', call', past')
      <3>1. PICK t \in 0..call.take : /\ Holds(elements, buffer.lo + t * ElementSize)
                                      /\ ~past.raced => Len(elements) = call.before + t
        <4>1. Written(elements, buffer, call, past)
          BY <1>2, Zenon DEF BufferInv
        <4> QED BY <1>1, <4>1, Zenon DEF Written
      <3>2. ~past.raced => Holds(elements', buffer'.lo)
        BY <1>1, <2>1, <2>2, <3>1, Zenon
      <3> QED BY <2>2, <2>3, <3>2, Zenon DEF Written
    <2>8. ~Clean'
      BY <1>1, <1>3, <1>5, <2>2, <2>3, Zenon DEF AppenderInv, CleanInv, Clean, Acceptable
    <2> QED BY <2>4, <2>5, <2>6, <2>7, <2>8, Zenon DEF AppenderInv, BufferInv, CleanInv
  <1>6. ASSUME Appender!GeometryFails, Appender!Return(Appender!Dropped(0), FALSE),
               past' = [past EXCEPT !.promised = buffer.hi, !.blind = TRUE]
        PROVE  AppenderInv'
    <2>1. /\ buffer' \in Buffers /\ call' \in Calls
          /\ call'.pc = "idle" /\ call'.kind = "none" /\ buffer'.hi = buffer.hi
          /\ buffer'.life \in {"poisoned", "stopped"}
      <3>1. 0 \in Nat
        BY Zenon
      <3> QED BY <1>4, <1>6, <3>1, Zenon
    <2>2. past' \in Pasts /\ past'.promised = buffer.hi /\ past'.blind = TRUE
      BY <1>2, <1>6, BufferFacts, Zenon DEF BufferTypes, Pasts
    <2>3. ~Clean' /\ faults' \in Nat
      BY <1>1, <1>2, <1>6, GeometryFailureIsNotClean, Zenon
    <2>4. BufferTypes'
      BY <1>1, <1>2, <2>1, <2>2, <2>3, Zenon DEF BufferTypes
    <2>5. Steps(buffer', call')
      BY <2>1, Zenon DEF Steps
    <2>6. Tracks(buffer', call', past') /\ Keeps(buffer', call', past')
      BY <2>1, <2>2, Zenon DEF Tracks, Keeps
    <2>7. Written(elements', buffer', call', past')
      BY <2>1, <2>2, Zenon DEF Written
    <2> QED BY <2>3, <2>4, <2>5, <2>6, <2>7, Zenon DEF AppenderInv, BufferInv, CleanInv
  <1> QED BY <1>5, <1>6, Zenon DEF Appender!DropLanded

\* finish and Drop with nothing to write, and discard.
LEMMA StopKeepsBuffer == AppenderInv /\ Appender!Stop => AppenderInv'
  <1> SUFFICES ASSUME AppenderInv, Appender!Stop PROVE AppenderInv'
    BY Zenon
  <1>1. /\ call.pc = "idle" /\ buffer.life \in {"active", "poisoned"} /\ buffer' = [buffer EXCEPT !.life = "stopped"]
        /\ UNCHANGED <<elements, setting, standing, call, other, faults, past>>
    BY Zenon DEF Appender!Stop, Appender!Idle
  <1>2. BufferInv /\ BufferTypes
    BY Zenon DEF AppenderInv, BufferInv
  <1>3. /\ buffer' \in Buffers /\ buffer'.life = "stopped"
        /\ buffer'.lo = buffer.lo /\ buffer'.hi = buffer.hi /\ buffer'.mistyped = buffer.mistyped
    BY <1>1, <1>2, Zenon DEF BufferTypes, Buffers
  <1>4. BufferTypes'
    BY <1>1, <1>2, <1>3, Zenon DEF BufferTypes
  <1>5. Steps(buffer', call')
    BY <1>1, <1>2, <1>3, Zenon DEF BufferInv, Steps
  <1>6. Tracks(buffer', call', past') /\ Keeps(buffer', call', past')
    BY <1>1, <1>2, <1>3, Zenon DEF BufferInv, Tracks, Keeps
  <1>7. Written(elements', buffer', call', past')
    BY <1>1, <1>2, <1>3, Zenon DEF BufferInv, Written
  <1>8. ASSUME Clean' PROVE Acceptable(elements', setting', buffer', call')
    <2>1. Acceptable(elements, setting, buffer, call)
      BY <1>1, <1>3, <1>8, Zenon DEF AppenderInv, CleanInv, Clean
    <2> QED BY <1>1, <1>3, <2>1, Zenon DEF Acceptable
  <1> QED BY <1>4, <1>5, <1>6, <1>7, <1>8, Zenon DEF AppenderInv, BufferInv, CleanInv

\* Dataset::append of the other handle begins, or the session ends.
LEMMA OutsideKeepsBuffer ==
  ASSUME AppenderInv, other' \in Others, standing' \in {"open", "uncertain", "closed"},
         standing' = "open" => standing = "open", UNCHANGED <<elements, setting, buffer, call, faults, past>>
  PROVE  AppenderInv'
  <1>1. BufferTypes'
    BY Zenon DEF AppenderInv, BufferInv, BufferTypes
  <1>2. Clean' => Clean
    BY Zenon DEF Clean
  <1> QED BY <1>1, <1>2, Zenon DEF AppenderInv, BufferInv, CleanInv

LEMMA OtherAppendKeepsBuffer ==
  ASSUME AppenderInv, NEW n \in 1..MaxForeign, Appender!OtherAppend(n) PROVE AppenderInv'
  <1>1. Len(elements) \in Nat /\ BufferTypes
    BY BufferFacts, Zenon DEF AppenderInv, BufferInv
  <1>2. /\ other' = [pc |-> "append", left |-> n, dim |-> Len(elements)]
        /\ UNCHANGED <<elements, setting, standing, buffer, call, faults, past>>
    BY Zenon DEF Appender!OtherAppend, Appender!Dim
  <1>3. n \in Nat
    BY SMTT(30)
  <1>4. other' \in Others
    BY <1>1, <1>2, <1>3, Zenon DEF Others
  <1> QED BY <1>1, <1>2, <1>4, OutsideKeepsBuffer, Zenon DEF BufferTypes

LEMMA SessionEndsKeepsBuffer == AppenderInv /\ Appender!SessionEnds => AppenderInv'
  <1> SUFFICES ASSUME AppenderInv, Appender!SessionEnds PROVE AppenderInv'
    BY Zenon
  <1>1. /\ standing' \in {"uncertain", "closed"}
        /\ UNCHANGED <<elements, setting, buffer, call, other, faults, past>>
    BY Zenon DEF Appender!SessionEnds
  <1>2. other' \in Others /\ standing' \in {"open", "uncertain", "closed"} /\ standing' # "open"
    BY <1>1, Zenon DEF AppenderInv, BufferInv, BufferTypes
  <1> QED BY <1>1, <1>2, OutsideKeepsBuffer, Zenon

\* Elements of the other handle land, wherever the appender's call stands.
LEMMA IntrusionKeeps ==
  ASSUME BufferInv, NEW n \in Nat, NEW t \in 0..n, Appender!Lands(t, Appender!Theirs(n)), Appender!Intrudes(t),
         UNCHANGED <<buffer, call>>
  PROVE  /\ elements' \in Seq(Int) /\ past' \in Pasts
         /\ Tracks(buffer', call', past') /\ Keeps(buffer', call', past')
         /\ Written(elements', buffer', call', past')
         /\ ~past'.foreign => ~past.foreign /\ (elements' = elements \/ buffer.life = "unopened")
         /\ Len(elements') = Len(elements) + t
  <1>1. BufferTypes /\ elements \in Seq(Int) /\ past \in Pasts
    BY Zenon DEF BufferInv, BufferTypes
  <1>2. /\ elements' \in Seq(Int)
        /\ Len(elements') = Len(elements) + t
        /\ t = 0 => elements' = elements
        /\ \A lo : Holds(elements, lo) => Holds(elements', lo)
    <2>1. Extends(elements', elements, Appender!Theirs(n), t)
      BY Zenon DEF Extends, Appender!Lands
    <2> QED BY <1>1, <2>1, TheirsLand, Zenon
  <1>3. CASE t = 0
    <2>1. elements' = elements /\ past' = past
      BY <1>2, <1>3, Zenon DEF Appender!Intrudes
    <2> QED BY <1>1, <1>2, <2>1, Zenon DEF BufferInv
  <1>4. CASE t # 0
    <2>1. past' = [past EXCEPT !.foreign = @ \/ buffer.life # "unopened",
                               !.raced = @ \/ call.pc \in {"write", "landed"}]
      BY <1>4, Zenon DEF Appender!Intrudes
    <2>2. /\ past' \in Pasts /\ past'.promised = past.promised /\ past'.blind = past.blind
          /\ past'.foreign = (past.foreign \/ buffer.life # "unopened")
          /\ past'.raced = (past.raced \/ call.pc \in {"write", "landed"})
      BY <1>1, <2>1, Zenon DEF Pasts
    <2>3. Tracks(buffer', call', past') /\ Keeps(buffer', call', past')
      BY <2>2, Zenon DEF BufferInv, Tracks, Keeps
    <2>4. Written(elements', buffer', call', past')
      <3>1. ~past'.blind /\ call'.pc # "landed" /\ (past'.raced => call'.pc = "write") => Holds(elements', buffer'.lo)
        BY <1>2, <2>2, Zenon DEF BufferInv, Written
      <3>2. ~(call'.pc = "write" /\ ~past'.raced)
        BY <2>2, Zenon
      <3>3. call'.pc = "landed" => \E s \in 0..call'.take : /\ Holds(elements', buffer'.lo + s * ElementSize)
                                                            /\ ~past'.raced => Len(elements') = call'.before + s
        BY <1>2, <2>2, Zenon DEF BufferInv, Written
      <3> QED BY <3>1, <3>2, <3>3, Zenon DEF Written
    <2>5. ~past'.foreign => ~past.foreign /\ buffer.life = "unopened"
      BY <2>2, Zenon
    <2> QED BY <1>2, <2>2, <2>3, <2>4, <2>5, Zenon
  <1> QED BY <1>3, <1>4, Zenon

\* The batch that append_batches gives the engine.
LEMMA BatchTakeFacts ==
  ASSUME NEW dim \in Nat, NEW n \in Nat PROVE Appender!BatchTake(dim, n) \in 0..n
  <1> DEFINE b == Appender!ToBoundary(dim)
  <1>1. b \in Nat
    <2>1. dim % Chunk \in Nat
      BY ConstantFacts, DivisionFacts, SMTT(30)
    <2>2. Chunk - (dim % Chunk) \in Int
      BY <2>1, ConstantFacts, SMTT(30)
    <2> QED BY <2>2, ConstantFacts, DivisionFacts, Zenon DEF Appender!ToBoundary
  <1> HIDE DEF b
  <1>2. Appender!BatchTake(dim, n) = IF setting.batched /\ n > b + FullBatch THEN b + FullBatch ELSE n
    BY Zenon DEF b, Appender!BatchTake
  <1>3. CASE setting.batched /\ n > b + FullBatch
    BY <1>1, <1>2, <1>3, ConstantFacts, SMTT(30)
  <1>4. CASE ~(setting.batched /\ n > b + FullBatch)
    BY <1>2, <1>4, SMTT(30)
  <1> QED BY <1>3, <1>4, Zenon

\* A batch of the other handle lands, is refused, or fails part of the way.
LEMMA OtherBatchKeepsBuffer == AppenderInv /\ Appender!OtherBatch => AppenderInv'
  <1> SUFFICES ASSUME AppenderInv, Appender!OtherBatch PROVE AppenderInv'
    BY Zenon
  <1>1. UNCHANGED <<setting, buffer, call>>
    BY Zenon DEF Appender!OtherBatch
  <1>2. BufferInv /\ BufferTypes
    BY Zenon DEF AppenderInv, BufferInv
  <1>3. other.left \in Nat /\ other.dim \in Nat /\ Len(elements) \in Nat
    BY <1>2, BufferFacts, Zenon DEF BufferTypes, Others
  <1>4. Appender!Resting \in Others
    BY Zenon DEF Appender!Resting, Others
  <1>5. ASSUME NEW n \in {other.left, Appender!BatchTake(other.dim, other.left)} PROVE n \in 0..other.left
    <2>1. other.left \in 0..other.left
      BY <1>3, SMTT(30)
    <2> QED BY <1>3, <2>1, BatchTakeFacts, Zenon
  <1>6. ASSUME NEW n \in 0..other.left, ~Appender!Refused(n, setting.theirs, FALSE),
               Appender!Lands(n, Appender!Theirs(n)),
               other' = IF n = other.left THEN Appender!Resting ELSE [other EXCEPT !.left = @ - n, !.dim = @ + n],
               Appender!Intrudes(n), UNCHANGED <<standing, faults>>
        PROVE  AppenderInv'
    <2>1. n \in Nat /\ n \in 0..n /\ other.left - n \in Nat /\ other.dim + n \in Nat
      BY <1>3, SMTT(30)
    <2>2. /\ elements' \in Seq(Int) /\ past' \in Pasts
          /\ Tracks(buffer', call', past') /\ Keeps(buffer', call', past')
          /\ Written(elements', buffer', call', past')
          /\ ~past'.foreign => ~past.foreign /\ (elements' = elements \/ buffer.life = "unopened")
          /\ Len(elements') = Len(elements) + n
      BY <1>1, <1>2, <1>6, <2>1, IntrusionKeeps, Zenon
    <2>3. other' \in Others
      <3>1. [other EXCEPT !.left = @ - n, !.dim = @ + n] \in Others
        BY <1>2, <2>1, Zenon DEF BufferTypes, Others
      <3> QED BY <1>4, <1>6, <3>1, Zenon
    <2>4. BufferTypes'
      BY <1>1, <1>2, <1>6, <2>2, <2>3, Zenon DEF BufferTypes
    <2>5. Steps(buffer', call')
      BY <1>1, <1>2, Zenon DEF BufferInv
    <2>6. ASSUME Clean' PROVE Acceptable(elements', setting', buffer', call')
      <3>1. ~past'.foreign
        BY <2>6, Zenon DEF Clean
      <3>2. Clean
        BY <1>1, <1>6, <2>2, <2>6, <3>1, Zenon DEF Clean
      <3>3. Acceptable(elements, setting, buffer, call)
        BY <3>2, Zenon DEF AppenderInv, CleanInv
      <3>4. CASE elements' = elements
        BY <1>1, <3>3, <3>4, Zenon
      <3>5. CASE buffer.life = "unopened"
        <4>1. call.pc = "none"
          BY <1>2, <3>5, Zenon DEF BufferInv, Steps
        <4>2. Fits(elements', setting', 0)
          <5>1. setting.maximum # Unlimited => setting.maximum \in Nat
            BY <1>2, Zenon DEF BufferTypes, Settings
          <5>2. setting.maximum # Unlimited => ~(Len(elements) + n > setting.maximum)
            BY <1>6, Zenon DEF Appender!Refused, Appender!Finite, Appender!Dim
          <5>3. 0 \div ElementSize = 0
            BY ConstantFacts, SMTT(30)
          <5>4. setting.maximum # Unlimited => Len(elements') + 0 <= setting.maximum
            BY <1>3, <2>1, <2>2, <5>1, <5>2, SMTT(30)
          <5> QED BY <1>1, <5>3, <5>4, Zenon DEF Fits
        <4> QED BY <1>1, <3>3, <3>5, <4>1, <4>2, Zenon DEF Acceptable
      <3> QED BY <2>2, <3>1, <3>4, <3>5, Zenon
    <2> QED BY <2>2, <2>4, <2>5, <2>6, Zenon DEF AppenderInv, BufferInv, CleanInv
  <1>7. ASSUME other' = Appender!Resting, UNCHANGED <<elements, standing, faults, past>> PROVE AppenderInv'
    BY <1>1, <1>2, <1>4, <1>7, OutsideKeepsBuffer, Zenon DEF BufferTypes
  <1>8. ASSUME NEW n \in 0..other.left, Appender!Fails(n, Appender!Theirs(n)), other' = Appender!Resting,
               Appender!Intrudes(Len(elements') - Len(elements))
        PROVE  AppenderInv'
    <2>1. faults' = faults + 1 /\ standing' \in {"open", "uncertain"}
      BY <1>8, Zenon DEF Appender!Fails
    <2>2. PICK d \in Appender!BatchEnds(Len(elements), n) : Appender!Lands(d - Len(elements), Appender!Theirs(n))
      BY <1>8, Zenon DEF Appender!Fails, Appender!Dim
    <2>3. n \in Nat
      BY <1>3, SMTT(30)
    <2>4. d - Len(elements) \in 0..n
      BY <1>3, <2>2, <2>3, BatchEndsFacts, Zenon
    <2>5. Len(elements') - Len(elements) = d - Len(elements)
      <3>1. Extends(elements', elements, Appender!Theirs(n), d - Len(elements)) /\ elements \in Seq(Int)
        BY <1>2, <2>2, Zenon DEF Extends, Appender!Lands, BufferTypes
      <3>2. /\ elements' \in Seq(Int)
            /\ Len(elements') = Len(elements) + (d - Len(elements))
            /\ d - Len(elements) = 0 => elements' = elements
            /\ \A lo : Holds(elements, lo) => Holds(elements', lo)
        BY <2>3, <2>4, <3>1, TheirsLand, Zenon
      <3> QED BY <1>3, <2>4, <3>2, SMTT(30)
    <2>6. /\ elements' \in Seq(Int) /\ past' \in Pasts
          /\ Tracks(buffer', call', past') /\ Keeps(buffer', call', past')
          /\ Written(elements', buffer', call', past')
          /\ ~past'.foreign => ~past.foreign /\ (elements' = elements \/ buffer.life = "unopened")
          /\ Len(elements') = Len(elements) + (d - Len(elements))
      BY <1>1, <1>2, <1>8, <2>2, <2>3, <2>4, <2>5, IntrusionKeeps, Zenon
    <2>7. faults' \in Nat /\ faults' # 0 /\ standing' \in {"open", "uncertain", "closed"}
      BY <1>2, <2>1, SMTT(30) DEF BufferTypes
    <2>8. BufferTypes'
      BY <1>1, <1>2, <1>4, <1>8, <2>6, <2>7, Zenon DEF BufferTypes
    <2>9. ~Clean' /\ Steps(buffer', call')
      BY <1>1, <1>2, <2>7, Zenon DEF Clean, BufferInv
    <2> QED BY <2>6, <2>8, <2>9, Zenon DEF AppenderInv, BufferInv, CleanInv
  <1>9. PICK n \in {other.left, Appender!BatchTake(other.dim, other.left)} :
           \/ /\ ~Appender!Refused(n, setting.theirs, FALSE)
              /\ Appender!Lands(n, Appender!Theirs(n))
              /\ other' = IF n = other.left THEN Appender!Resting ELSE [other EXCEPT !.left = @ - n, !.dim = @ + n]
              /\ Appender!Intrudes(n)
              /\ UNCHANGED <<standing, faults>>
           \/ /\ other' = Appender!Resting
              /\ UNCHANGED <<elements, standing, faults, past>>
           \/ /\ Appender!Fails(n, Appender!Theirs(n))
              /\ other' = Appender!Resting
              /\ Appender!Intrudes(Len(elements') - Len(elements))
    BY Zenon DEF Appender!OtherBatch, Appender!Dim
  <1> QED BY <1>5, <1>6, <1>7, <1>8, <1>9, Zenon

LEMMA AppenderKeeps == AppenderInv /\ Appender!Next => AppenderInv'
  <1> SUFFICES ASSUME AppenderInv, Appender!Next PROVE AppenderInv'
    BY Zenon
  <1>1. CASE Appender!Open \/ Appender!Claim \/ Appender!Settle \/ Appender!WriteCompleteChunks \/ Appender!FlushGuard
    BY <1>1, OpenKeepsBuffer, ClaimKeepsBuffer, SettleKeepsBuffer, ChunksKeepBuffer, GuardKeepsBuffer, Zenon
  <1>2. CASE Appender!Before \/ Appender!Write \/ Appender!WriteFails \/ Appender!DropLanded \/ Appender!Stop
    BY <1>2, BeforeKeepsBuffer, WriteKeepsBuffer, WriteFailsKeepsBuffer, DropLandedKeepsBuffer, StopKeepsBuffer, Zenon
  <1>3. CASE \E bytes \in Submissions, mistyped \in BOOLEAN : Appender!Accept(bytes, mistyped)
    BY <1>3, AcceptKeepsBuffer, Zenon
  <1>4. CASE \E kind \in {"flush", "finish"} : Appender!Flush(kind)
    BY <1>4, FlushKeepsBuffer, Zenon
  <1>5. CASE \E n \in 1..MaxForeign : Appender!OtherAppend(n)
    BY <1>5, OtherAppendKeepsBuffer, Zenon
  <1>6. CASE Appender!OtherBatch \/ Appender!SessionEnds
    BY <1>6, OtherBatchKeepsBuffer, SessionEndsKeepsBuffer, Zenon
  <1> QED BY <1>1, <1>2, <1>3, <1>4, <1>5, <1>6, Zenon DEF Appender!Next

LEMMA AppenderInvariance == SidesSpec => []AppenderInv
  <1>1. SidesInit => AppenderInv
    BY BufferInit, Zenon DEF SidesInit
  <1>2. AppenderInv /\ [SidesNext]_<<side, vars, appender>> => AppenderInv'
    <2> SUFFICES ASSUME AppenderInv, [SidesNext]_<<side, vars, appender>> PROVE AppenderInv'
      BY Zenon
    <2>1. Appender!Next \/ UNCHANGED appender
      BY Zenon DEF SidesNext
    <2>2. CASE UNCHANGED appender
      <3>1. UNCHANGED <<elements, setting, standing, buffer, call, other, faults, past>>
        BY <2>2, Zenon DEF appender
      <3> QED BY <3>1, Zenon DEF AppenderInv, BufferInv, BufferTypes, CleanInv, Clean
    <2> QED BY <2>1, <2>2, AppenderKeeps, Zenon
  <1> QED BY <1>1, <1>2, PTL DEF SidesSpec

\* What Holds says is what UnwrittenFollowsWritten asks.
LEMMA HeldIsAccounted ==
  ASSUME BufferTypes, Holds(elements, buffer.lo) PROVE Appender!Accounted
  <1>1. PICK w \in Nat : buffer.lo = w * ElementSize /\ Shows(elements, w)
    BY Zenon DEF Holds
  <1>2. buffer.lo = ElementSize * w
    BY <1>1, ConstantFacts, SMTT(30)
  <1>3. buffer.lo % ElementSize = 0 /\ buffer.lo \div ElementSize = w
    BY <1>2, ConstantFacts, MultipleIsWhole, SMTT(30)
  <1>4. /\ \A i \in Appender!Own : \E k \in 0..(w - 1) : elements[i] = k * ElementSize
        /\ \A i, j \in Appender!Own : i < j => elements[i] < elements[j]
    BY <1>1, Zenon DEF Shows, Appender!Own, Appender!Dim
  <1>5. \A k \in 0..(w - 1) : \E i \in Appender!Own : elements[i] = k * ElementSize
    <2> SUFFICES ASSUME NEW k \in 0..(w - 1) PROVE \E i \in Appender!Own : elements[i] = k * ElementSize
      BY Zenon
    <2>1. PICK i \in 1..Len(elements) : elements[i] = k * ElementSize
      BY <1>1, Zenon DEF Shows
    <2>2. k * ElementSize \in Nat
      BY ConstantFacts, ProductIsNatural, SMTT(30)
    <2>3. k * ElementSize # Appender!Foreign
      BY <2>2, SMTT(30) DEF Appender!Foreign
    <2> QED BY <2>1, <2>3, Zenon DEF Appender!Own, Appender!Dim
  <1>6. {elements[i] : i \in Appender!Own} = {k * ElementSize : k \in 0..(w - 1)}
    BY <1>4, <1>5, Zenon
  <1> QED BY <1>3, <1>4, <1>6, Zenon DEF Appender!Accounted

(***************************************************************************)
(* Nothing an appender accepted is lost or written twice, for elements,    *)
(* chunks and batches of any size and any number of calls and failures:    *)
(* unwritten() begins where the elements in the dataset end, and ends with *)
(* the last accepted byte (BufferState::write_prefix, settle), wherever    *)
(* the length could be read after a failed write and no other append came  *)
(* between the two readings.                                               *)
(***************************************************************************)
THEOREM UnwrittenIsKept == SidesSpec => []UnwrittenFollowsWritten
  <1>1. AppenderInv => UnwrittenFollowsWritten
    <2> SUFFICES ASSUME AppenderInv, ~past.raced, ~past.blind, call.pc # "landed"
                 PROVE  Appender!Accounted /\ (call.pc = "idle" => buffer.hi = past.promised)
      BY Zenon DEF UnwrittenFollowsWritten, Appender!UnwrittenFollowsWritten, Appender!Idle
    <2>1. BufferTypes /\ Holds(elements, buffer.lo)
      BY Zenon DEF AppenderInv, BufferInv, Written
    <2>2. call.pc = "idle" => buffer.hi = past.promised
      <3> SUFFICES ASSUME call.pc = "idle" PROVE buffer.hi = past.promised
        BY Zenon
      <3>1. call.kind # "append"
        BY Zenon DEF AppenderInv, BufferInv, Steps
      <3> QED BY <3>1, Zenon DEF AppenderInv, BufferInv, Keeps
    <2> QED BY <2>1, <2>2, HeldIsAccounted, Zenon
  <1> QED BY <1>1, AppenderInvariance, PTL

(***************************************************************************)
(* The checks of new, settle, flush and write_complete_chunks together     *)
(* keep every write of an appender that is alone on its dataset acceptable *)
(* to the engine, for any maximum, chunk, filter and policy: it is         *)
(* poisoned by a failure of the file or the session or by elements of the  *)
(* wrong type, and by nothing else.                                        *)
(***************************************************************************)
THEOREM PoisoningHasACause == SidesSpec => []PoisonNeedsCause
  <1>1. AppenderInv => PoisonNeedsCause
    <2> SUFFICES ASSUME AppenderInv, buffer.life = "poisoned"
                 PROVE  past.foreign \/ faults > 0 \/ standing # "open" \/ buffer.mistyped
      BY Zenon DEF PoisonNeedsCause, Appender!PoisonNeedsCause
    <2>1. ~Clean
      BY Zenon DEF AppenderInv, CleanInv, Acceptable
    <2>2. faults # 0 => faults > 0
      BY DEF AppenderInv, BufferInv, BufferTypes
    <2> QED BY <2>1, <2>2, Zenon DEF Clean
  <1> QED BY <1>1, AppenderInvariance, PTL
=============================================================================
