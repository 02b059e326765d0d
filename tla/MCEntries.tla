----------------------------- MODULE MCEntries ------------------------------
(* Small instances of Entries. *)
EXTENDS Entries, TLC, FiniteSets

SomeFaults   == [abort |-> 2, io |-> 1]
Symmetry     == Permutations(File) \union Permutations(Sub) \union Permutations(Data)

\* Constraint: at most two names are in use at a time, two files, two
\* subdirectories or one of each: every operation is about one or two names.
TwoNames ==
    Cardinality(present \union {n \in Name : entries[n] # None \/ list[n] # None}) <= 2
=============================================================================
