---------------------------- MODULE SnapshotStore ----------------------------
(* What the transaction manager of okto-grafx promises, without logs, leases, *)
(* pages or failures: commits form one sequence that only grows; a commit     *)
(* joins it only if nothing after its snapshot wrote what it read or wrote;   *)
(* transactions see a prefix that is shown to everybody and never retracted;  *)
(* a caller that was told its transaction committed was told the truth.       *)
EXTENDS Naturals, Sequences

CONSTANT Keys

VARIABLES
    hist,       \* hist[n]: the snapshot, writes and interest of the n-th commit
    visible,    \* snapshots are taken of hist[1 .. visible]
    told        \* commits a caller was told of

storeVars == <<hist, visible, told>>

StoreInit == hist = << >> /\ visible = 0 /\ told = {}

\* First committer wins, over everything the transaction declared.
Admissible(c) ==
    /\ c.snap <= visible
    /\ c.writes \subseteq c.interest /\ c.interest \subseteq Keys
    /\ \A n \in 1 .. Len(hist) : n > c.snap => hist[n].writes \cap c.interest = {}

\* One commit joins the history, and its caller may be told.
Commit ==
    /\ hist' # << >>
    /\ LET c == hist'[Len(hist')] IN hist' = Append(hist, c) /\ Admissible(c)
    /\ told' \in {told, told \cup {Len(hist) + 1}}
    /\ UNCHANGED visible

Show ==
    /\ visible' \in visible + 1 .. Len(hist)
    /\ UNCHANGED <<hist, told>>

StoreNext == Commit \/ Show

StoreSpec == StoreInit /\ [][StoreNext]_storeVars

=============================================================================
