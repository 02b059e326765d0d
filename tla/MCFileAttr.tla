----------------------------- MODULE MCFileAttr ------------------------------
(* Small instances of FileAttr. *)
EXTENDS FileAttr, TLC

\* edit -x and edit -x -w; update makes edits of both kinds.
MCOption == {[excl |-> TRUE, tag |-> "HEAD"], [excl |-> TRUE, tag |-> "all"]}

Symmetry == Permutations(User)

\* Once every user is excused only LockedIsCurrent says anything, and that is
\* proved for every instance.
SomeoneIsHeld == excused # User

\* Two lines wait, of one user or of both.
TwoLinesWait == \A u, v \in User : u # v => Len(notify[u]) + Len(notify[v]) <= 2
=============================================================================
