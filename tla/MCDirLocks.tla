----------------------------- MODULE MCDirLocks -----------------------------
(* Small instances of DirLocks. *)
EXTENDS DirLocks, TLC

CONSTANTS ann, bob

NoFaults  == [kill |-> 0, signal |-> 0, io |-> 0]
OneEach   == [kill |-> 1, signal |-> 1, io |-> 1]

Read(dirs)   == [kind |-> "read", dirs |-> dirs]
Write(dirs)  == [kind |-> "write", dirs |-> dirs]
Notify(d)    == [kind |-> "notify", dirs |-> {d}]

\* Two processes that read, write and notify, each meeting the other's
\* recursion in every mode.
MixedScript ==
    ann :> <<Read({1, 2}), Write({1}), Notify(2)>>
      @@ bob :> <<Notify(2), Write({1, 2}), Read({1})>>

\* A reader and a writer of one directory.
PairScript == ann :> <<Read({1})>> @@ bob :> <<Write({1})>>
=============================================================================
