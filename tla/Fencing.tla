------------------------------- MODULE Fencing -------------------------------
(* What the writer lease of okto-grafx promises, without the machinery: at    *)
(* most one participant owns the right to write, every grant of that right    *)
(* carries an epoch one greater than the grant before it, and the right is    *)
(* given up without touching the epoch.  A writer is fenced by comparing the  *)
(* epoch it was granted with the one that is published.                       *)
EXTENDS Naturals

CONSTANTS
    Participants,   \* coordinator instances; a restarted process is a new one
    NoOwner

VARIABLES
    epoch,          \* the published epoch, 0 before the first grant
    holder          \* the participant the lease belongs to, or NoOwner

fencingVars == <<epoch, holder>>

FencingInit ==
    /\ epoch = 0
    /\ holder = NoOwner

\* A grant, to a vacant lease or over an owner that is taken for dead.
Grant(p) ==
    /\ epoch' = epoch + 1
    /\ holder' = p

\* The owner gives the lease up; its epoch is spent.
Vacate ==
    /\ holder # NoOwner
    /\ holder' = NoOwner
    /\ UNCHANGED epoch

FencingNext == Vacate \/ \E p \in Participants : Grant(p)

FencingSpec == FencingInit /\ [][FencingNext]_fencingVars

=============================================================================
