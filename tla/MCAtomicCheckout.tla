-------------------------- MODULE MCAtomicCheckout --------------------------
(* Small instances of AtomicCheckout. *)
EXTENDS AtomicCheckout, TLC

CONSTANTS ann, bob, cat, f1, f2

WholeRoot == {Path}
UnderRoot == [r \in Root |-> r]
Revisions == Nat
Flags     == {ReadFull, WriteFull, WriteAdvisory}

Update(files) == [kind |-> "update", files |-> files]
Commit(files) == [kind |-> "commit", files |-> files]
Nothing       == Update(<< >>)

Three(a, b, c) == ann :> a @@ bob :> b @@ cat :> c

\* An update beside a commit of the same files ...
UpdateAndCommit == {Three(Update(<<f1, f2>>), Commit(<<f1, f2>>), Nothing)}

\* ... two commits, in the same or in the other order, and an update beside two.
\* Each comes with bob and cat exchanged, so that they are symmetric.
Exchange(j)    == Three(j[ann], j[cat], j[bob])
MCJobs         ==
    LET Some == UpdateAndCommit \union
                {Three(Nothing, Commit(<<f1, f2>>), Commit(<<f1>>)),
                 Three(Nothing, Commit(<<f1, f2>>), Commit(<<f2, f1>>)),
                 Three(Update(<<f1>>), Commit(<<f1>>), Commit(<<f1>>))}
    IN  Some \union {Exchange(j) : j \in Some}
Symmetry       == Permutations({bob, cat})

\* Where all three have work to do, nobody is killed: TLC is not done with that
\* in reasonable time.
KillOneOfTwo == (\E s \in Sock : pc[s] = "dead") => \E s \in Sock : job[s] = Nothing
=============================================================================
