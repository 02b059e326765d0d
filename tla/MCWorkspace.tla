---------------------------- MODULE MCWorkspace -----------------------------
(* Small instances of Workspace. *)
EXTENDS Workspace, TLC

\* A command cut off counts as a revision: two while there is one revision, one
\* while there are two.
CutOffOrRevised == crashes + Len(revs) <= 3

Symmetry == Permutations(User) \union Permutations(Edits)
=============================================================================
