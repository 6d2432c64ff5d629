--------------------------- MODULE MCPublication ---------------------------
(***************************************************************************)
(* What may fail between writing storage and referring to it.  A session   *)
(* on a PAGE file without persisted free space completes a publication     *)
(* that failed (PagePublication); every other session gives its            *)
(* allocations generations and stops when their publication is uncertain   *)
(* (AllocationPublication).  Both write through the gathering of writes    *)
(* (BufferedWrites), whose flushes fail half way.  A behaviour is about    *)
(* one of the three.                                                       *)
(*                                                                         *)
(* Three ranges and three generations: enough for a cancelled batch, a     *)
(* later batch over the same range, and a confirmed range beside both.     *)
(* Three roots and two faults: enough for a publication that fails and a   *)
(* recovery that fails, with a commit before and one after them.  Three    *)
(* writes of one to three bytes, in a page of three bytes and the next:    *)
(* runs that are disjoint, touch or overlap, with a gap inside a page or   *)
(* at its end, and a fault before and after a retry.                       *)
(***************************************************************************)
EXTENDS AllocationPublication, PagePublication, BufferedWrites

VARIABLE subject    \* what the behaviour is about

SessionsInit ==
    /\ subject \in {"generations", "pages", "gathering"}
    /\ Init
    /\ PagesInit
    /\ GatheringInit
    /\ subject # "generations" => persist /\ free = {}
    /\ subject # "pages" => policy = "Always"

SessionsNext ==
    \/ subject = "generations" /\ Next /\ UNCHANGED <<subject, pageVars, gatheringVars>>
    \/ subject = "pages" /\ PagesNext /\ UNCHANGED <<subject, vars, gatheringVars>>
    \/ subject = "gathering" /\ GatheringNext /\ UNCHANGED <<subject, vars, pageVars>>

SessionsSpec == SessionsInit /\ [][SessionsNext]_<<subject, vars, pageVars, gatheringVars>>
=============================================================================
