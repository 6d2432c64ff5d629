---------------------------- MODULE AtomicCommit ----------------------------
(***************************************************************************)
(* What a staged commit promises about the contents of a file: a reader    *)
(* finds the contents before the commit or those after it; a commit that   *)
(* succeeds leaves the ones after it, and one that is refused leaves the   *)
(* ones before.  Values overwritten in place are the exception: while      *)
(* their commit runs, they may show with the old tree.                     *)
(***************************************************************************)
CONSTANT Values   \* what a tree, and the data in it, can hold

Contents == [root : Values, data : Values]

VARIABLES
    contents,   \* what a reader finds now
    allowed,    \* what it may find later without another commit
    before      \* what it may find if the running commit is refused

vars == <<contents, allowed, before>>

Init ==
    /\ contents \in Contents
    /\ allowed = {contents}
    /\ before = {contents}

\* The old tree with the new data, which in-place writes may show.
Mixtures(target) == {[old EXCEPT !.data = target.data] : old \in before}

Begin(target) ==
    /\ \/ allowed' = before \cup {target}
       \/ allowed' = before \cup {target} \cup Mixtures(target)
    /\ UNCHANGED <<contents, before>>

\* Some of the commit's writes reach the file.
Appear ==
    /\ contents' \in allowed
    /\ UNCHANGED <<allowed, before>>

Succeed(target) ==
    /\ target \in allowed
    /\ contents' = target
    /\ allowed' = {target}
    /\ before' = {target}

Refuse ==
    /\ contents' \in before
    /\ allowed' = before
    /\ UNCHANGED before

\* The outcome stays open: restoring failed, the publication is uncertain, or a process died.
LeaveOpen ==
    /\ contents' \in allowed
    /\ before' = allowed
    /\ UNCHANGED allowed

\* Power is lost: what is found then is what remains.
LosePower ==
    /\ contents' \in allowed
    /\ allowed' = {contents'}
    /\ before' = {contents'}

Next ==
    \/ \E target \in Contents : Begin(target) \/ Succeed(target)
    \/ Appear
    \/ Refuse
    \/ LeaveOpen
    \/ LosePower

Spec == Init /\ [][Next]_vars
=============================================================================
