-------------------------- MODULE MCCommitProtocol --------------------------
(* Instances of CommitProtocol for TLC. *)
EXTENDS CommitProtocol, TLC

CONSTANTS g1, g2, k1, k2, k3

\* Two partitions on one page: commits that do not conflict share it.
OnePage == k1 :> g1 @@ k2 :> g1

\* The third partition has a page of its own.
TwoPages == OnePage @@ k3 :> g2

\* Commits of k1 and k2 in turn: the third conflicts with the first and not with
\* the second, so a transaction as old as the first is judged from the log.
Alternating == [n \in Lsns |-> {[writes |-> {IF n % 2 = 1 THEN k1 ELSE k2}, reads |-> {}]}]

\* A writer of two pages, and a writer of another partition that depends on it: in
\* one order they conflict, in the other they do not and share a page.
Dependent ==
    [n \in Lsns |-> {[writes |-> {k1, k3}, reads |-> {}], [writes |-> {k2}, reads |-> {k1}]}]

Symmetry == Permutations(Participants)

=============================================================================
