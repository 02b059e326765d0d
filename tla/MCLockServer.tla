---------------------------- MODULE MCLockServer ----------------------------
(***************************************************************************)
(* Instances of LockServer for TLC.                                        *)
(***************************************************************************)
EXTENDS LockServer, TLC

\* A root is named by the set of paths that begin with it.
WholeRoot == {Path}
TwoRoots  == {Path, {}}
UnderRoot == [r \in Root |-> r]

\* What the cvs client asks for ...
ReadFull      == {"Read", "Full"}
WriteFull     == {"Write", "Full"}
WriteAdvisory == {"Write", "Advisory"}
ClientFlags   == {ReadFull, WriteFull, WriteAdvisory}

\* ... and more of what the protocol allows, among it a request for nothing.
AllFlags == ClientFlags \union {{"Read", "Advisory"}, {"Full"}}

Symmetry == Permutations(Sock) \union Permutations(Path) \union Permutations(Version)
=============================================================================
