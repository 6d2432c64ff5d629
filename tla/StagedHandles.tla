---------------------------- MODULE StagedHandles ---------------------------
(***************************************************************************)
(* Handles made onto a dataset that is staged and not yet committed:       *)
(* Dataset::pending, FileInner::staged_standing and locate_staged          *)
(* (src/reader/mod.rs), and WriteEngine.staged_generation.  One path is    *)
(* modelled, with the object the file holds there, and what is staged      *)
(* there.  A rejected commit hands back what was staged and changes        *)
(* nothing here.  Deleting a path that names nothing is left out, as its   *)
(* commit is rejected.                                                     *)
(*                                                                         *)
(* Staging a creation and making the handle take the session's lock one    *)
(* after the other, and so do asking for a handle's standing and resolving *)
(* its path; other threads run in between.                                 *)
(***************************************************************************)
EXTENDS Naturals

CONSTANTS
    Handles,     \* handles that may be made
    MaxObjects,  \* bound: objects created
    MaxCommits   \* bound: commits

VARIABLES
    file,        \* the object the file holds at the path, 0 for none
    deletion,    \* a deletion of the path is staged
    creation,    \* the object staged for creation there, 0 for none
    generation,  \* WriteEngine.staged_generation
    uncertain,   \* the outcome of a commit is unknown
    objects,     \* objects created so far; each has its number
    handle       \* the handles, and the step each is at

staging == <<file, deletion, creation, generation, uncertain, objects>>
vars    == <<file, deletion, creation, generation, uncertain, objects, handle>>

\* late and dropped are history: a commit ran before the handle was dated, or failed and dropped what was staged.
NoHandle == [pc |-> "none", object |-> 0, replaces |-> 0, birth |-> 0, memo |-> FALSE, answer |-> 0,
             late |-> FALSE, dropped |-> FALSE]

Init ==
    /\ file \in {0, 1}
    /\ deletion = FALSE
    /\ creation = 0
    /\ generation = 0
    /\ uncertain = FALSE
    /\ objects = 1
    /\ handle = [h \in Handles |-> NoHandle]

\* staged_object: the creation owns the path.
Visible == creation # 0 /\ (deletion \/ file = 0)

\* A handle made onto an object; it replaces what the file holds.
Making(h, object) ==
    handle' = [handle EXCEPT ![h] = [NoHandle EXCEPT !.pc = "making", !.object = object, !.replaces = file]]

\* refuse_creation_collision.
MayCreate == creation = 0 /\ (deletion \/ file = 0)

Create(h) ==
    /\ handle[h].pc = "none"
    /\ objects < MaxObjects
    /\ MayCreate
    /\ objects' = objects + 1
    /\ creation' = objects'
    /\ Making(h, objects')
    /\ UNCHANGED <<file, deletion, generation, uncertain>>

\* File::dataset on a staged path.
Open(h) ==
    /\ handle[h].pc = "none"
    /\ Visible
    /\ Making(h, creation)
    /\ UNCHANGED staging

\* Dataset::pending.
Pending(h) ==
    /\ handle[h].pc = "making"
    /\ handle' = [handle EXCEPT ![h].pc = "made", ![h].birth = generation]
    /\ UNCHANGED staging

\* delete: a creation is withdrawn, and a deletion it was paired with stays.
Delete ==
    /\ creation # 0 \/ (file # 0 /\ ~deletion)
    /\ creation' = 0
    /\ deletion' = (deletion \/ file # 0)
    /\ UNCHANGED <<file, generation, uncertain, objects, handle>>

(***************************************************************************)
(* commit.  The generation advances when the commit consumes what was      *)
(* staged, also if it fails once its publication was attempted.  A failure *)
(* before that drops what was staged and leaves the generation.            *)
(***************************************************************************)
Applied == IF creation # 0 THEN creation ELSE IF deletion THEN 0 ELSE file

Consumed == deletion' = FALSE /\ creation' = 0

MayCommit == ~uncertain /\ generation < MaxCommits

\* History: which handles a commit overtakes.
Overtaken == [h \in Handles |-> [handle[h] EXCEPT !.late = @ \/ handle[h].pc = "making"]]

Lost == [h \in Handles |-> [handle[h] EXCEPT !.dropped = @ \/ handle[h].pc # "none"]]

\* Mutant of Commit: the generation stays.
CommitSilently ==
    /\ MayCommit
    /\ file' = Applied
    /\ Consumed
    /\ handle' = Overtaken
    /\ UNCHANGED <<generation, uncertain, objects>>

Commit ==
    /\ MayCommit
    /\ generation' = generation + 1
    /\ file' = Applied
    /\ Consumed
    /\ handle' = Overtaken
    /\ UNCHANGED <<uncertain, objects>>

CommitFails ==
    /\ MayCommit
    /\ deletion \/ creation # 0
    /\ Consumed
    /\ handle' = Lost
    /\ UNCHANGED <<file, generation, uncertain, objects>>

CommitUncertain ==
    /\ MayCommit
    /\ generation' = generation + 1
    /\ uncertain' = TRUE
    /\ \/ file' = file /\ handle' = Lost
       \/ file' = Applied /\ handle' = Overtaken
    /\ Consumed
    /\ UNCHANGED objects

\* Mutant of Standing: the handle's path is all that counts.
StandingByPath(h) == IF Visible THEN "Pending" ELSE "Live"

\* staged_standing.
Standing(h) ==
    IF handle[h].birth # generation THEN "Live"
    ELSE IF Visible THEN "Pending"
    ELSE "Withdrawn"

\* locate_staged; a handle that is pending or withdrawn reports that.
Stand(h) ==
    /\ handle[h].pc = "made"
    /\ handle[h].memo \/ Standing(h) = "Live"
    /\ handle' = [handle EXCEPT ![h].pc = "resolving"]
    /\ UNCHANGED staging

\* The path leads to an object, or is reported as missing.
Resolve(h) ==
    /\ handle[h].pc = "resolving"
    /\ handle' = [handle EXCEPT ![h].pc = "made",
                                ![h].memo = @ \/ file # 0,
                                ![h].answer = file]
    /\ UNCHANGED staging

Drop(h) ==
    /\ handle[h].pc = "made"
    /\ handle' = [handle EXCEPT ![h] = NoHandle]
    /\ UNCHANGED staging

Next ==
    \/ \E h \in Handles : Create(h) \/ Open(h) \/ Pending(h) \/ Stand(h) \/ Resolve(h) \/ Drop(h)
    \/ Delete
    \/ Commit
    \/ CommitFails
    \/ CommitUncertain

Spec == Init /\ [][Next]_vars

(***************************************************************************)
(* Properties.                                                             *)
(***************************************************************************)

(***************************************************************************)
(* A handle made onto a staged creation does not answer for the object     *)
(* that creation replaces, through withdrawals, other creations at the     *)
(* path and commits of other threads, unless a failed commit dropped what  *)
(* was staged (staged_standing, locate_staged).                            *)
(***************************************************************************)
ReplacedObjectStaysHidden ==
    \A h \in Handles :
        handle[h].answer # 0 /\ ~handle[h].dropped => handle[h].answer # handle[h].replaces

(***************************************************************************)
(* While the outcome of every commit is known, a handle made onto a staged *)
(* creation never answers for the object that creation replaces:           *)
(* "Answering from them would hand the caller the object their handle was  *)
(* explicitly not opened onto" (locate_staged).                            *)
(***************************************************************************)
ReplacedObjectIsNotAnswered ==
    ~uncertain => \A h \in Handles : handle[h].answer # 0 => handle[h].answer # handle[h].replaces

(***************************************************************************)
(* A handle whose creation the file holds does not report it withdrawn:    *)
(* the generation tells that "the object it names was published, so it     *)
(* addresses the file now" from "the staging was withdrawn under it"       *)
(* (WriteEngine.staged_generation).  A handle that a commit overtook       *)
(* before Dataset::pending dated it is not covered.                        *)
(***************************************************************************)
PublishedHandleAnswers ==
    \A h \in Handles :
        handle[h].pc = "made" /\ ~handle[h].late /\ file = handle[h].object => Standing(h) # "Withdrawn"
=============================================================================
