-------------------------- MODULE MCLockedSessions --------------------------
(***************************************************************************)
(* Sessions that hold a file's lock: how they come to hold it and mark the *)
(* file (OpenProtocol), and the appends only they may make, because these  *)
(* repoint records a reader could already see: to a dataset indexed by an  *)
(* Extensible Array (ExtensibleArray), or to one of finite maximum         *)
(* (FiniteIndex).  A behaviour is about one of them.                       *)
(*                                                                         *)
(* Two processes: enough for one that overtakes the other between any two  *)
(* steps of opening.  Thirteen chunks of two elements reach the second     *)
(* data block of a super block whose blocks are paged; batches of 5 and 20 *)
(* leave and complete partial chunks on the way.  Six elements in a finite *)
(* dataset reach its second page, and batches of 1 and 3 append to chunks  *)
(* that are absent, partial or just completed.                             *)
(***************************************************************************)
EXTENDS ExtensibleArray, OpenProtocol

VARIABLE subject   \* what the behaviour is about

\* Filter pipelines: with and without loss, with partial edge chunks stored raw or filtered.
Pipeline(filters, edges, reencoding) ==
    [pipeline |-> filters, edges |-> edges, reencoding |-> reencoding]
MCModes == {Pipeline("lossless", TRUE, "Reject"), Pipeline("lossy", TRUE, "Reject"),
            Pipeline("lossy", FALSE, "Reject"), Pipeline("lossy", FALSE, "Permit")}

\* The finite indexes: arrays without header or without block, on one page of the gathering or more.
Form(index, header, joined) == [index |-> index, header |-> header, joined |-> joined]
Forms == {Form("single", FALSE, TRUE), Form("fixed", TRUE, FALSE),
          Form("paged", FALSE, TRUE), Form("paged", TRUE, FALSE)}

FiniteModes == {form @@ pipeline @@ [start |-> start] :
                   form \in Forms, pipeline \in MCModes, start \in {0, 3}}

Finite == INSTANCE FiniteIndex WITH
              Modes <- FiniteModes, Batches <- {1, 3}, MaxDim <- 6, MaxUnits <- 9, PageEntries <- 2

SessionsInit ==
    /\ subject \in {"opening", "extensible", "finite"}
    /\ OpenInit
    /\ subject # "opening" => lockable
    /\ IF subject = "finite" THEN Finite!Init /\ located = None ELSE Init
    /\ subject = "opening" => mode = CHOOSE m \in MCModes : TRUE

SessionsNext ==
    \/ subject = "opening" /\ OpenNext /\ UNCHANGED <<subject, vars>>
    \/ subject = "extensible" /\ Next /\ UNCHANGED <<subject, openVars>>
    \/ subject = "finite" /\ Finite!Next /\ UNCHANGED <<subject, located, openVars>>

SessionsSpec == SessionsInit /\ [][SessionsNext]_<<subject, vars, openVars>>

\* Wherever a session dies, a reader finds every published element as the append that published it
\* wrote it, in the blocks of an Extensible Array (ea_insert), and in the layout message or the pages
\* of a finite index, whose checksums hold if they are issued with what they cover (publish_patches).
AppendsStay == IF subject = "finite" THEN Finite!AppendedElementsStay ELSE AppendedElementsStay

\* Unless the caller permits it, no append encodes a published element twice with loss, though it
\* writes the chunk that holds it up to three times (plan_ea_append, FixedIndex::plan, SingleIndex::plan).
LossHappensOnce == IF subject = "finite" THEN Finite!LossyOnlyOnce ELSE LossyOnlyOnce
=============================================================================
