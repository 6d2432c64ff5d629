----------------------------- MODULE MCHandles -----------------------------
(***************************************************************************)
(* Handles onto what a session holds: one dataset handle shared by two     *)
(* editing and two reading threads, and two handles onto what is staged at *)
(* one path.  A handle becomes one of the first kind when its object is    *)
(* published; a behaviour follows one of the two.                          *)
(***************************************************************************)
EXTENDS SessionHandles, TLC

CONSTANTS w1, w2, r1, r2, h1, h2, Handles, MaxObjects, MaxCommits

VARIABLES
    kind,   \* "published" or "staged"
    file, deletion, creation, generation, uncertain, objects, handle

staging == <<file, deletion, creation, generation, uncertain, objects, handle>>

Staging == INSTANCE StagedHandles

MCWriters == {w1, w2}
MCReaders == {r1, r2}
MCHandleSet == {h1, h2}

Symmetry == Permutations(MCWriters) \cup Permutations(MCReaders) \cup Permutations(MCHandleSet)

KindsInit ==
    /\ kind \in {"published", "staged"}
    /\ Init
    /\ Staging!Init
    /\ kind = "published" => file = 0
    /\ kind = "staged" => staged = 0 /\ named

KindsNext ==
    \/ kind = "published" /\ Next /\ UNCHANGED <<kind, staging>>
    \/ kind = "staged" /\ Staging!Next /\ UNCHANGED <<kind, vars>>

KindsSpec == KindsInit /\ [][KindsNext]_<<kind, vars, staging>>

\* A handle whose staged object was published does not report it withdrawn (WriteEngine.staged_generation).
PublishedHandleAnswers == Staging!PublishedHandleAnswers

\* A handle onto a staged creation does not answer for the object it replaces (staged_standing, locate_staged).
ReplacedObjectStaysHidden == Staging!ReplacedObjectStaysHidden
=============================================================================
