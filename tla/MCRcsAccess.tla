---------------------------- MODULE MCRcsAccess -----------------------------
(* Small instances of RcsAccess. *)
EXTENDS RcsAccess, TLC

CONSTANTS ann, bob, cat, f1, f2

NoFaults == [kill |-> 0, signal |-> 0, drop |-> 0]
OneKill  == [kill |-> 1, signal |-> 0, drop |-> 0]
SignalOrDrop == [kill |-> 0, signal |-> 1, drop |-> 1]

\* Two committers and a tagger, one file.
MixedScript == ann :> <<"commit">> @@ bob :> <<"tag">> @@ cat :> <<"commit">>
OneFile     == [u \in User |-> <<f1>>]

\* A committer and a tagger.
PairScript == ann :> <<"commit">> @@ bob :> <<"tag">>

\* Two users who go over two files in different orders.
TreeScript  == ann :> <<"update", "commit", "tag">> @@ bob :> <<"admin", "commit">>
CrossVisit  == ann :> <<f1, f2>> @@ bob :> <<f2, f1>>
=============================================================================
