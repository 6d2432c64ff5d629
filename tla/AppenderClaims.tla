--------------------------- MODULE AppenderClaims ---------------------------
(***************************************************************************)
(* The claims of live buffered appenders against the staged edits of the   *)
(* same session: AppenderClaim, claim_for_appender and refuse_if_claimed   *)
(* of src/edit.rs, the staging calls of src/edit/staging.rs, the commit,   *)
(* and the life of a BufferedAppender (src/appender.rs) as far as the      *)
(* claims go.  What an appender buffers is one bit here.                   *)
(*                                                                         *)
(* Handles may be used from several threads, so every acquisition of the   *)
(* session's lock is a step: opening an appender and closing the file take *)
(* two.  The test for a sealed file, which precedes the lock, is part of   *)
(* the step; that window is the subject of SessionHandles.                 *)
(***************************************************************************)
EXTENDS Naturals, Sequences, FiniteSets

CONSTANTS
    Handles,     \* dataset handles on which appenders are opened
    Paths,       \* the paths of the file, sequences of link names
    Datasets,    \* the paths that lead to a dataset
    NoPath,      \* the path of a handle reached by object reference
    MaxStaged    \* bound: the edits staged at a time

ASSUME AppenderClaimsAssumption ==
    /\ Paths \subseteq Seq(STRING)
    /\ Datasets \subseteq Paths
    /\ NoPath \notin Paths
    /\ MaxStaged \in Nat

VARIABLES
    stage,       \* by handle: "none", "opening", "active" or "poisoned"
    path,        \* by handle: the path of the dataset, or NoPath
    stale,       \* by handle: a relocating change ran since it was resolved
    buffered,    \* by handle: the appender holds elements not in the file
    claims,      \* WriteEngine.appender_claims
    staged,      \* WriteEngine.staged
    committed,   \* WriteEngine.committed: a commit has been attempted
    present,     \* the paths of the committed file
    uncertain,   \* an editing outcome is unknown
    closed       \* FileInner.closed

session   == <<staged, committed, present, uncertain, closed>>
vars      == <<stage, path, stale, buffered, claims, staged, committed, present, uncertain, closed>>

\* ObjectPathBuf::starts_with and overlaps.
StartsWith(p, q) == Len(q) <= Len(p) /\ SubSeq(p, 1, Len(q)) = q
Overlaps(p, q)   == StartsWith(p, q) \/ StartsWith(q, p)

\* "create" is a dataset, "edit" a write, append, copy or dataset attribute, "attr" a group's.
Kinds == {"create", "group", "edit", "attr", "delete"}
Edits == [kind : Kinds, path : Paths]

Live(h) == stage[h] \in {"active", "poisoned"}

Init ==
    /\ stage = [h \in Handles |-> "none"]
    /\ path = [h \in Handles |-> NoPath]
    /\ stale = [h \in Handles |-> FALSE]
    /\ buffered = [h \in Handles |-> FALSE]
    /\ claims = {}
    /\ staged = {}
    /\ committed = FALSE
    /\ present = Paths
    /\ uncertain = FALSE
    /\ closed = FALSE

(***************************************************************************)
(* append_conflicts_with_pending, and the rule append_prepare and          *)
(* claim_for_appender apply to a handle without a path.                    *)
(***************************************************************************)
Conflicts(p) == \E e \in staged : e.kind \notin {"group", "attr"} /\ Overlaps(p, e.path)

Blocked(p) == IF p = NoPath THEN staged # {} \/ committed ELSE Conflicts(p)

\* The append target resolves and may be appended to.
Reachable(h) ==
    /\ ~Blocked(path[h])
    /\ IF path[h] = NoPath THEN ~stale[h] ELSE path[h] \in present

(***************************************************************************)
(* BufferState::new: the geometry is read under one lock, and the claim is *)
(* taken under the next.                                                   *)
(***************************************************************************)
ReadGeometry(h, p) ==
    /\ stage[h] = "none"
    /\ ~closed
    /\ ~Blocked(p)
    /\ p = NoPath \/ p \in present
    /\ stage' = [stage EXCEPT ![h] = "opening"]
    /\ path' = [path EXCEPT ![h] = p]
    /\ stale' = [stale EXCEPT ![h] = FALSE]
    /\ UNCHANGED <<buffered, claims>>
    /\ UNCHANGED session

\* Mutant of ConflictsWith: a missing path conflicts with nothing.
ConflictsWithPathOnly(claim, p) == claim.path = p

\* AppenderClaim::conflicts_with.
ConflictsWith(claim, p) == claim.path = NoPath \/ p = NoPath \/ claim.path = p

\* Mutant of MayClaim: what is staged already is not looked at.
MayClaimOverStaged(p) == ~uncertain /\ \A c \in claims : ~ConflictsWith(c, p)

MayClaim(p) ==
    /\ ~uncertain
    /\ \A c \in claims : ~ConflictsWith(c, p)
    /\ ~Blocked(p)

Claim(h) ==
    /\ stage[h] = "opening"
    /\ IF MayClaim(path[h])
       THEN /\ stage' = [stage EXCEPT ![h] = "active"]
            /\ claims' = claims \cup {[holder |-> h, path |-> path[h]]}
       ELSE /\ stage' = [stage EXCEPT ![h] = "none"]
            /\ UNCHANGED claims
    /\ UNCHANGED <<path, stale, buffered>>
    /\ UNCHANGED session

(***************************************************************************)
(* The appender at work.  check_usable refuses a poisoned appender, a      *)
(* closed file and an uncertain session.                                   *)
(***************************************************************************)
Usable(h) == stage[h] = "active" /\ ~closed /\ ~uncertain

\* Elements stay in the buffer, or the call also writes what is complete.
Buffer(h) ==
    /\ Usable(h)
    /\ buffered' = [buffered EXCEPT ![h] = TRUE]
    /\ UNCHANGED <<stage, path, stale, claims>>
    /\ UNCHANGED session

Flush(h) ==
    /\ Usable(h)
    /\ Reachable(h)
    /\ buffered' = [buffered EXCEPT ![h] = FALSE]
    /\ UNCHANGED <<stage, path, stale, claims>>
    /\ UNCHANGED session

\* write_prefix fails: the appender is poisoned and the session may be uncertain.
FlushFails(h) ==
    /\ Usable(h)
    /\ Reachable(h)
    /\ stage' = [stage EXCEPT ![h] = "poisoned"]
    /\ uncertain' \in BOOLEAN
    /\ UNCHANGED <<path, stale, buffered, claims, staged, committed, present, closed>>

\* release_appender_claim.
Released(h) == {c \in claims : c.holder # h}

(***************************************************************************)
(* The end of an appender: finish, discard or drop, and teardown.  Its     *)
(* last flush may fail for any reason and be ignored.                      *)
(***************************************************************************)
Drop(h) ==
    /\ Live(h)
    /\ stage' = [stage EXCEPT ![h] = "none"]
    /\ buffered' = [buffered EXCEPT ![h] = FALSE]
    /\ claims' = Released(h)
    /\ \/ UNCHANGED uncertain
       \/ Usable(h) /\ buffered[h] /\ Reachable(h) /\ uncertain' = TRUE
    /\ UNCHANGED <<path, stale, staged, committed, present, closed>>

(***************************************************************************)
(* Staging.  note(Change::Relocating) runs whether or not the edit is      *)
(* accepted, and leaves the handles without a path stale.                  *)
(***************************************************************************)
Relocated == [h \in Handles |-> stale[h] \/ path[h] = NoPath]

\* Mutant of Claimed: an edit of an ancestor is let through.
ClaimedExactly(p) == \E c \in claims : c.path = NoPath \/ c.path = p

\* refuse_if_claimed.
Claimed(p) == \E c \in claims : c.path = NoPath \/ Overlaps(c.path, p)

Deleted(p) == \E e \in staged : e.kind = "delete" /\ StartsWith(p, e.path)

Creates(e, p) == e.kind \in {"create", "group"} /\ e.path = p

\* deletes_hand_over: the groups between the deleted ancestor and the path are staged again.
HandsOver(p) ==
    \E d \in staged :
        /\ d.kind = "delete" /\ StartsWith(p, d.path)
        /\ \A n \in Len(d.path) .. (Len(p) - 1) :
             [kind |-> "group", path |-> SubSeq(p, 1, n)] \in staged

\* refuse_creation_collision.
Collides(kind, p) ==
    \/ [kind |-> "create", path |-> p] \in staged
    \/ kind = "create" /\ [kind |-> "group", path |-> p] \in staged
    \/ p \in present /\ ~HandsOver(p)

\* create_group, create_dataset, write, append_staged, set_attr and copy at p.
Stage(kind, p) ==
    /\ ~closed
    /\ Cardinality(staged) < MaxStaged
    /\ IF \/ Claimed(p)
          \/ kind \in {"create", "group"} /\ Collides(kind, p)
       THEN UNCHANGED staged
       ELSE staged' = staged \cup {[kind |-> kind, path |-> p]}
    /\ stale' = Relocated
    /\ UNCHANGED <<stage, path, buffered, claims, committed, present, uncertain, closed>>

(***************************************************************************)
(* delete withdraws a staged creation with everything staged below it, and *)
(* stages the removal of what the file holds.                              *)
(***************************************************************************)
Delete(p) ==
    LET withdraws == \E e \in staged : Creates(e, p)
        kept      == IF withdraws
                     THEN {e \in staged : e.kind = "delete" \/ ~StartsWith(e.path, p)}
                     ELSE staged
    IN /\ ~closed
       /\ Cardinality(staged) < MaxStaged
       /\ staged' = IF Claimed(p) THEN staged
                    ELSE IF withdraws /\ (Deleted(p) \/ p \notin present) THEN kept
                    ELSE kept \cup {[kind |-> "delete", path |-> p]}
       /\ stale' = Relocated
       /\ UNCHANGED <<stage, path, buffered, claims, committed, present, uncertain, closed>>

(***************************************************************************)
(* commit().  An empty commit applies nothing.  One refused before it      *)
(* takes what is staged, or rejected by its preparation, keeps it; one     *)
(* that fails later does not.                                              *)
(***************************************************************************)
Applied ==
    {p \in present : ~Deleted(p)} \cup {p \in Paths : \E e \in staged : Creates(e, p)}

Commit ==
    /\ ~closed
    /\ ~uncertain
    /\ staged' = {}
    /\ present' = Applied
    /\ committed' = (committed \/ staged # {})
    /\ stale' = Relocated
    /\ UNCHANGED <<stage, path, buffered, claims, uncertain, closed>>

CommitRejected ==
    /\ ~closed
    /\ committed' \in {committed, committed \/ (staged # {} /\ ~uncertain)}
    /\ stale' = Relocated
    /\ UNCHANGED <<stage, path, buffered, claims, staged, present, uncertain, closed>>

CommitFails ==
    /\ ~closed
    /\ ~uncertain
    /\ staged' = {}
    /\ committed' = (committed \/ staged # {})
    /\ \/ UNCHANGED <<present, uncertain>>
       \/ uncertain' = TRUE /\ present' \in {present, Applied}
    /\ stale' = Relocated
    /\ UNCHANGED <<stage, path, buffered, claims, closed>>

(***************************************************************************)
(* The rest of close(), under a lock of its own after that of its commit:  *)
(* it seals the file, or its finalization fails.                           *)
(***************************************************************************)
Close ==
    /\ ~closed
    /\ \/ closed' = TRUE /\ UNCHANGED uncertain
       \/ uncertain' \in {uncertain, TRUE} /\ UNCHANGED closed
    /\ UNCHANGED <<stage, path, stale, buffered, claims, staged, committed, present>>

Next ==
    \/ \E h \in Handles :
         \/ \E p \in Datasets \cup {NoPath} : ReadGeometry(h, p)
         \/ Claim(h)
         \/ Buffer(h)
         \/ Flush(h)
         \/ FlushFails(h)
         \/ Drop(h)
    \/ \E p \in Paths :
         \/ \E kind \in Kinds \ {"delete"} : Stage(kind, p)
         \/ Delete(p)
    \/ Commit
    \/ CommitRejected
    \/ CommitFails
    \/ Close

Spec == Init /\ [][Next]_vars

(***************************************************************************)
(* Properties.                                                             *)
(***************************************************************************)

\* Types; there is one claim for each live appender, and no other.
TypeOK ==
    /\ stage \in [Handles -> {"none", "opening", "active", "poisoned"}]
    /\ path \in [Handles -> Datasets \cup {NoPath}]
    /\ stale \in [Handles -> BOOLEAN]
    /\ buffered \in [Handles -> BOOLEAN]
    /\ claims = {[holder |-> h, path |-> path[h]] : h \in {g \in Handles : Live(g)}}
    /\ staged \subseteq Edits
    /\ present \subseteq Paths
    /\ committed \in BOOLEAN /\ uncertain \in BOOLEAN /\ closed \in BOOLEAN

(***************************************************************************)
(* No staged edit stands in the way of a live appender: its flush is not   *)
(* refused because of one, whatever was staged, withdrawn, rejected or     *)
(* committed before and during its life (claim_for_appender,               *)
(* refuse_if_claimed; "any staged edit that would make its flush refuse    *)
(* turns accepted data into lost data at drop time").                      *)
(***************************************************************************)
FlushIsNotBlocked == \A h \in Handles : Live(h) => ~Blocked(path[h])

(***************************************************************************)
(* Two live appenders have different paths, and an appender reached by     *)
(* object reference is the only one (AppenderClaim::conflicts_with).       *)
(***************************************************************************)
AppendersExclude ==
    \A g, h \in Handles :
        g # h /\ Live(g) /\ Live(h) => path[g] # path[h] /\ path[g] # NoPath /\ path[h] # NoPath

(***************************************************************************)
(* No commit removes the dataset of a live appender: a deletion of it or   *)
(* of an ancestor is neither staged before the claim nor after it.         *)
(***************************************************************************)
ClaimedDatasetStays ==
    [][\A h \in Handles : Live(h) /\ path[h] \in present => path[h] \in present']_vars
=============================================================================
