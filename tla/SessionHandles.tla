--------------------------- MODULE SessionHandles ---------------------------
(***************************************************************************)
(* Threads that share a read-write File and one dataset handle: the gate,  *)
(* lock and revision counters of with_engine_mut, close(), and the memo of *)
(* Dataset::resolved (src/reader/mod.rs).                                  *)
(*                                                                         *)
(* The dataset's header moves when a commit rewrites it and is rewritten   *)
(* where it stands by an append; the bytes a moved header leaves behind    *)
(* still parse.  A header is known by the number of changes it reflects.   *)
(* Each load or increment of an atomic, and each section under a lock, is  *)
(* a step; the release and acquire orderings of the code are those of one  *)
(* global order, on which its counters rely.                               *)
(***************************************************************************)
EXTENDS Naturals, Sequences

CONSTANTS
    Writers,     \* threads that edit through the file
    Readers,     \* threads that read through the handle
    MaxChanges,  \* bound: changes to the file
    MaxCalls     \* bound: editing calls

ASSUME SessionHandlesAssumption == MaxChanges \in Nat /\ MaxCalls \in Nat

VARIABLES
    headers,     \* the headers the dataset has had, oldest first, by changes reflected
    changes,     \* changes made to the file
    staged,      \* edits staged and not committed
    closed,      \* FileInner.closed
    revision,    \* FileInner.address_revision and content_revision
    todo,        \* by writer: the steps left of its call
    made,        \* by writer: the changes its call has made
    calls,       \* editing calls begun
    returned,    \* the changes of the calls that have returned
    named,       \* the handle was opened by path
    memo,        \* the handle's DatasetState
    read         \* by reader: its use of the handle

vars == <<headers, changes, staged, closed, revision, todo, made, calls, returned, named, memo, read>>

Current == Len(headers)

NoMemo == [content |-> 0, address |-> 0, at |-> 1, header |-> 0]

Idle == [pc |-> "idle", since |-> {}, live |-> 0, old |-> NoMemo, new |-> NoMemo]

\* The handle was opened just now; an edit may have been staged before.
Init ==
    /\ headers = <<0>>
    /\ changes = 0
    /\ staged \in {0, 1}
    /\ closed = FALSE
    /\ revision = [address |-> 0, content |-> 0]
    /\ todo = [w \in Writers |-> <<>>]
    /\ made = [w \in Writers |-> {}]
    /\ calls = 0
    /\ returned = {}
    /\ named \in BOOLEAN
    /\ memo = NoMemo
    /\ read = [r \in Readers |-> Idle]

(***************************************************************************)
(* The steps of an editing call.  with_engine_mut tests the gate, works    *)
(* under the lock and notes the change: Relocating advances the address    *)
(* revision and then the content revision, InPlace the latter.             *)
(***************************************************************************)

\* Mutant of Relocating: the content revision moves first.
RelocatingContentFirst == [first |-> "content", second |-> "address"]

Relocating == [first |-> "address", second |-> "content"]
InPlace    == "content"

Calls ==
    [ stage  |-> <<"gate", "stage", Relocating.first, Relocating.second>>,
      commit |-> <<"gate", "commit", Relocating.first, Relocating.second>>,
      append |-> <<"gate", "append", InPlace>>,
      close  |-> <<"gate", "commit", Relocating.first, Relocating.second,
                   "gate", "finalize", InPlace, "seal">> ]

Call(w, call) ==
    /\ todo[w] = <<>>
    /\ calls < MaxCalls
    /\ calls' = calls + 1
    /\ todo' = [todo EXCEPT ![w] = Calls[call]]
    /\ made' = [made EXCEPT ![w] = {}]
    /\ UNCHANGED <<headers, changes, staged, closed, revision, returned, named, memo, read>>

\* The writer's next step is one of these, and `left` remains after it.
Takes(w, steps, left) ==
    /\ todo[w] # <<>>
    /\ Head(todo[w]) \in steps
    /\ todo' = [todo EXCEPT ![w] = left]
    /\ returned' = IF left = <<>> THEN returned \cup made[w] ELSE returned
    /\ UNCHANGED <<calls, named, memo, read>>

\* check_mutable.
Gate(w) ==
    /\ Takes(w, {"gate"}, IF closed THEN <<>> ELSE Tail(todo[w]))
    /\ UNCHANGED <<headers, changes, staged, closed, revision, made>>

Stage(w) ==
    /\ Takes(w, {"stage"}, Tail(todo[w]))
    /\ staged' = staged + 1
    /\ UNCHANGED <<headers, changes, closed, revision, made>>

\* A commit with edits moves the header.
Commit(w) ==
    /\ changes < MaxChanges
    /\ Takes(w, {"commit"}, Tail(todo[w]))
    /\ staged' = 0
    /\ IF staged = 0
       THEN UNCHANGED <<headers, changes, made>>
       ELSE /\ changes' = changes + 1
            /\ headers' = Append(headers, changes')
            /\ made' = [made EXCEPT ![w] = {changes'}]
    /\ UNCHANGED <<closed, revision>>

\* A rejected commit keeps its edits; the revisions advance all the same.
CommitRejected(w) ==
    /\ Takes(w, {"commit"}, <<Relocating.first, Relocating.second>>)
    /\ staged > 0
    /\ UNCHANGED <<headers, changes, staged, closed, revision, made>>

AppendInPlace(w) ==
    /\ changes < MaxChanges
    /\ Takes(w, {"append"}, Tail(todo[w]))
    /\ changes' = changes + 1
    /\ headers' = [headers EXCEPT ![Current] = changes']
    /\ made' = [made EXCEPT ![w] = {changes'}]
    /\ UNCHANGED <<staged, closed, revision>>

\* finalize_persist, force_sync and release_status_flags move no header.
Finalize(w) ==
    /\ Takes(w, {"finalize"}, Tail(todo[w]))
    /\ UNCHANGED <<headers, changes, staged, closed, revision, made>>

Note(w) ==
    /\ Takes(w, {"address", "content"}, Tail(todo[w]))
    /\ revision' = [revision EXCEPT ![Head(todo[w])] = @ + 1]
    /\ UNCHANGED <<headers, changes, staged, closed, made>>

Seal(w) ==
    /\ Takes(w, {"seal"}, Tail(todo[w]))
    /\ closed' = TRUE
    /\ UNCHANGED <<headers, changes, staged, revision, made>>

(***************************************************************************)
(* Dataset::resolved.                                                      *)
(***************************************************************************)
Reads(r, pc, to) ==
    /\ read[r].pc = pc
    /\ read' = [read EXCEPT ![r] = to]
    /\ UNCHANGED <<headers, changes, staged, closed, revision, todo, made, calls, returned, named>>

\* The content revision is loaded.
Load(r) ==
    /\ Reads(r, "idle", [Idle EXCEPT !.pc = "compare", !.since = returned, !.live = revision.content])
    /\ UNCHANGED memo

\* A use of the handle ends with the state m; its header is the answer.
Answer(r, m) == [read[r] EXCEPT !.pc = "answered", !.new = m]

\* A memo of that revision is the answer.
Compare(r) ==
    /\ Reads(r, "compare",
             IF memo.content = read[r].live
             THEN Answer(r, memo)
             ELSE [read[r] EXCEPT !.pc = "content", !.old = memo])
    /\ UNCHANGED memo

\* revisions(): the content revision is loaded first.
LoadContent(r) ==
    /\ Reads(r, "content", [read[r] EXCEPT !.pc = "address", !.new.content = revision.content])
    /\ UNCHANGED memo

LoadAddress(r) ==
    /\ Reads(r, "address", [read[r] EXCEPT !.pc = "locate", !.new.address = revision.address])
    /\ UNCHANGED memo

\* Mutant of Kept: one change since is taken for an append.
KeptByContent(r) == read[r].new.content = read[r].old.content + 1

\* A memoized address that nothing has moved since.
Kept(r) == read[r].new.address = read[r].old.address

\* locate: the memoized address, the path, or StaleHandle.
Locate(r) ==
    /\ Reads(r, "locate",
             IF Kept(r) \/ named
             THEN [read[r] EXCEPT !.pc = "parse",
                                  !.new.at = IF Kept(r) THEN read[r].old.at ELSE Current]
             ELSE Idle)
    /\ UNCHANGED memo

Parse(r) ==
    /\ Reads(r, "parse", [read[r] EXCEPT !.pc = "install", !.new.header = headers[read[r].new.at]])
    /\ UNCHANGED memo

\* install: a memo of a later revision is kept.
Install(r) ==
    /\ Reads(r, "install", Answer(r, read[r].new))
    /\ memo' = IF read[r].new.content >= memo.content THEN read[r].new ELSE memo

Use(r) ==
    /\ Reads(r, "answered", Idle)
    /\ UNCHANGED memo

Next ==
    \/ \E w \in Writers :
         \/ \E call \in {"stage", "commit", "append", "close"} : Call(w, call)
         \/ Gate(w)
         \/ Stage(w)
         \/ Commit(w)
         \/ CommitRejected(w)
         \/ AppendInPlace(w)
         \/ Finalize(w)
         \/ Note(w)
         \/ Seal(w)
    \/ \E r \in Readers :
         \/ Load(r)
         \/ Compare(r)
         \/ LoadContent(r)
         \/ LoadAddress(r)
         \/ Locate(r)
         \/ Parse(r)
         \/ Install(r)
         \/ Use(r)

Spec == Init /\ [][Next]_vars

(***************************************************************************)
(* Properties.                                                             *)
(***************************************************************************)

\* Every change up to the n-th is among these: none of them is in flight.
Settled(done, n) == n \in Nat /\ 1 .. n \subseteq done

(***************************************************************************)
(* A use of the handle reflects the changes that had settled when it       *)
(* began, however the threads interleave, and a handle reached by object   *)
(* reference answers from no address a settled commit has left: "What      *)
(* these counters order is a handle against edits already made, not        *)
(* against one in flight" (FileInner::locate).                             *)
(***************************************************************************)
AnswersAreFresh ==
    \A r \in Readers : read[r].pc = "answered" =>
        \A n \in 1 .. changes : Settled(read[r].since, n) => read[r].new.header >= n

(***************************************************************************)
(* The memo is not believed for longer than it is true: while its content  *)
(* revision is the live one it reflects the settled changes, and while its *)
(* address revision is, no settled commit has left its address.            *)
(***************************************************************************)
BelievedMemoIsFresh ==
    \A n \in 1 .. changes : Settled(returned, n) =>
        /\ memo.content = revision.content => memo.header >= n
        /\ memo.address = revision.address => headers[memo.at] >= n
=============================================================================
