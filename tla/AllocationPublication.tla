----------------------- MODULE AllocationPublication -----------------------
(***************************************************************************)
(* Ownership of the storage an immediate append draws                      *)
(* (src/edit/allocation.rs): a batch of allocations is provisional until   *)
(* the file records it as allocated, only then may a reference to it be    *)
(* written, and a batch whose publication is known not to have happened    *)
(* goes back to the session's free space.                                  *)
(*                                                                         *)
(* The types ProvisionalAllocation, ConfirmedPublication and               *)
(* ConfirmedAllocation are the tokens that carry these permissions.  A     *)
(* token outlives the attempt it came from: nothing here takes back a      *)
(* provisional token when its batch is cancelled, and the generation       *)
(* checks alone keep it from being used.  One session is modelled; the     *)
(* Arc::ptr_eq checks refuse the tokens of any other.                      *)
(***************************************************************************)
EXTENDS Integers, FiniteSets

CONSTANTS
    Ranges,         \* the file ranges an append may be given
    MaxSequence     \* bound: the generations explored

ASSUME SequenceAssumption == MaxSequence \in Nat

VARIABLES
    state,          \* AllocationPublication.state
    sequence,       \* AllocationPublication.sequence
    persist,        \* WriteEngine.persist is armed
    pending,        \* AppendAllocator.pending is Some
    saved,          \* the free space that snapshot holds
    free,           \* the space the session may still hand out
    provisional,    \* ProvisionalAllocation values in existence
    publications,   \* generations of the ConfirmedPublication values handed out
    granted,        \* ConfirmedAllocation values in existence
    durable,        \* ranges the file itself records as allocated
    referenced      \* ranges that a reference in the file points to

vars == <<state, sequence, persist, pending, saved, free, provisional, publications,
          granted, durable, referenced>>

Confirmed(c) == [kind |-> "Confirmed", confirmed |-> c, generation |-> c]
Provisional(c, g) == [kind |-> "Provisional", confirmed |-> c, generation |-> g]
Uncertain(c, g) == [kind |-> "Uncertain", confirmed |-> c, generation |-> g]

Token == [range : Ranges, generation : Nat]

\* The file opens with some ranges allocated and referenced, the others free.
Init ==
    /\ state = Confirmed(0)
    /\ sequence = 0
    /\ persist \in BOOLEAN
    /\ pending = FALSE
    /\ saved = {}
    /\ free \in SUBSET Ranges
    /\ provisional = {}
    /\ publications = {}
    /\ granted = {}
    /\ durable = Ranges \ free
    /\ referenced = Ranges \ free

(***************************************************************************)
(* AllocationPublication.                                                  *)
(***************************************************************************)

\* Mutant of Available: an uncertain session goes on allocating.
AlwaysAvailable == TRUE

Available == state.kind # "Uncertain"

BeforeReference == state.kind = "Confirmed"

\* Mutant of NextGeneration: the number of a cancelled batch is used again.
GenerationAfterConfirmed == state.confirmed + 1

\* provision: the first allocation of a batch takes a generation no batch ever had.
NextGeneration == sequence + 1

Generation == IF state.kind = "Confirmed" THEN NextGeneration ELSE state.generation

Provision ==
    /\ Generation <= MaxSequence
    /\ sequence' = IF state.kind = "Confirmed" THEN NextGeneration ELSE sequence
    /\ state' = Provisional(state.confirmed, Generation)

MakeUncertain == state' = Uncertain(state.confirmed, state.generation)

\* Mutant of Confirms: any publication confirms any allocation.
ConfirmsAny(g, t) == TRUE

\* ConfirmedPublication::confirm accepts the allocations of its own generation.
Confirms(g, t) == t.generation = g

\* require: the allocation's generation has been confirmed.
Requires(t) == Available /\ t.generation <= state.confirmed

Snapshots == persist /\ ~pending

Snapshot == IF Snapshots THEN free ELSE saved

\* With the batch's first allocation the queued writes are issued, which may fail.
AllocateFlushFails ==
    /\ state.kind = "Confirmed"
    /\ ~pending
    /\ MakeUncertain
    /\ UNCHANGED <<sequence, persist, pending, saved, free, provisional, publications,
                   granted, durable, referenced>>

\* allocate_prepared: space is drawn, its bytes are written and it is provisioned.
Allocate(r) ==
    /\ Available
    /\ r \in free
    /\ pending' = (pending \/ Snapshots)
    /\ saved' = Snapshot
    /\ free' = free \ {r}
    /\ Provision
    /\ provisional' = provisional \cup {[range |-> r, generation |-> Generation]}
    /\ UNCHANGED <<persist, publications, granted, durable, referenced>>

(***************************************************************************)
(* restore_append_allocation: with a snapshot the batch is undone, unless  *)
(* cutting the file back fails; without one the session is uncertain.      *)
(***************************************************************************)
RestoreFrom(snapshot) ==
    /\ pending' = FALSE
    /\ saved' = {}
    /\ \/ /\ persist
          /\ free' = snapshot
          /\ state' = Confirmed(state.confirmed)
       \/ /\ UNCHANGED free
          /\ MakeUncertain

\* allocate_prepared fails after the snapshot, before or after the provisioning.
AllocateFails ==
    /\ Available
    /\ sequence' \in {sequence} \cup
                     {g \in {NextGeneration} : state.kind = "Confirmed" /\ g <= MaxSequence}
    /\ RestoreFrom(Snapshot)
    /\ UNCHANGED <<persist, provisional, publications, granted, durable, referenced>>

(***************************************************************************)
(* publish_append_allocations.  The persisting publication rewrites the    *)
(* managers, the other one extends the recorded end of file; either way    *)
(* the file then records exactly the handed-out ranges as allocated.       *)
(***************************************************************************)
PublishCurrent ==
    /\ state.kind = "Confirmed"
    /\ publications' = publications \cup {state.confirmed}
    /\ UNCHANGED <<state, sequence, persist, pending, saved, free, provisional,
                   granted, durable, referenced>>

PublishSucceeds ==
    /\ state.kind = "Provisional"
    /\ durable' = Ranges \ free
    /\ state' = Confirmed(state.generation)
    /\ publications' = publications \cup {state.generation}
    /\ pending' = FALSE
    /\ saved' = {}
    /\ UNCHANGED <<sequence, persist, free, provisional, granted, referenced>>

\* A failure before the superblock is written: the attempt is cancelled.
PublishCancelled ==
    /\ state.kind = "Provisional"
    /\ persist
    /\ RestoreFrom(saved)
    /\ UNCHANGED <<sequence, persist, provisional, publications, granted, durable, referenced>>

\* A failure that may have reached the superblock, or any failure without a snapshot.
PublishUncertain ==
    /\ state.kind = "Provisional"
    /\ MakeUncertain
    /\ durable' \in {durable, Ranges \ free}
    /\ UNCHANGED <<sequence, persist, pending, saved, free, provisional, publications,
                   granted, referenced>>

\* confirm: moves an allocation of the published batch to the confirmed ones.
Confirm(g, t) ==
    /\ g \in publications
    /\ t \in provisional
    /\ Confirms(g, t)
    /\ provisional' = provisional \ {t}
    /\ granted' = granted \cup {t}
    /\ UNCHANGED <<state, sequence, persist, pending, saved, free, publications,
                   durable, referenced>>

(***************************************************************************)
(* EditStore::write_at of a reference to a confirmed allocation, which the *)
(* reference takes over.  A failed write may still have landed.            *)
(***************************************************************************)
Reference(t) ==
    /\ t \in granted
    /\ BeforeReference
    /\ Requires(t)
    /\ granted' = granted \ {t}
    /\ \/ referenced' = referenced \cup {t.range} /\ UNCHANGED state
       \/ referenced' \in {referenced, referenced \cup {t.range}} /\ MakeUncertain
    /\ UNCHANGED <<sequence, persist, pending, saved, free, provisional, publications, durable>>

\* EditStore::retire: the storage a completed replacement no longer refers to is free.
Retire(r) ==
    /\ BeforeReference
    /\ r \in referenced
    /\ referenced' = referenced \ {r}
    /\ free' = free \cup {r}
    /\ UNCHANGED <<state, sequence, persist, pending, saved, provisional, publications,
                   granted, durable>>

Next ==
    \/ AllocateFlushFails
    \/ AllocateFails
    \/ \E r \in Ranges : Allocate(r) \/ Retire(r)
    \/ PublishCurrent
    \/ PublishSucceeds
    \/ PublishCancelled
    \/ PublishUncertain
    \/ \E g \in publications : \E t \in provisional : Confirm(g, t)
    \/ \E t \in granted : Reference(t)

Spec == Init /\ [][Next]_vars

(***************************************************************************)
(* Properties.                                                             *)
(***************************************************************************)

\* Types; a snapshot exists only in sessions that persist free space.
TypeOK ==
    /\ state \in [kind : {"Confirmed", "Provisional", "Uncertain"},
                  confirmed : Nat, generation : Nat]
    /\ sequence \in Nat
    /\ persist \in BOOLEAN
    /\ pending \in BOOLEAN
    /\ pending => persist
    /\ saved \subseteq Ranges
    /\ free \subseteq Ranges
    /\ provisional \subseteq Token
    /\ granted \subseteq Token
    /\ publications \subseteq Nat
    /\ durable \subseteq Ranges
    /\ referenced \subseteq Ranges

(***************************************************************************)
(* Whatever the file refers to, the file records as allocated: a crash     *)
(* after any step leaves no reference into space that the next session     *)
(* would hand out again (allocation.rs publishes ownership before          *)
(* references are linked).                                                 *)
(***************************************************************************)
ReferencesAreOwned == referenced \subseteq durable

(***************************************************************************)
(* Confirmed storage has one holder: two confirmed allocations never share *)
(* a range, and a range that is confirmed or referenced is not free, even  *)
(* after cancelled batches left provisional tokens for reused ranges.      *)
(***************************************************************************)
ConfirmedStorageIsExclusive ==
    /\ \A t, u \in granted : t.range = u.range => t = u
    /\ \A t \in granted : t.range \notin free \cup referenced
    /\ referenced \cap free = {}

(***************************************************************************)
(* An uncertain session changes nothing any more: no reference is written, *)
(* no space handed out or returned, and no later step makes it certain     *)
(* again.                                                                  *)
(***************************************************************************)
UncertaintyIsFinal ==
    [][state.kind = "Uncertain" =>
          /\ state' = state
          /\ UNCHANGED <<free, durable, referenced>>]_vars
=============================================================================
