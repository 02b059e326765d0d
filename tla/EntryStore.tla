----------------------------- MODULE EntryStore -----------------------------
(***************************************************************************)
(* What the administrative files of a working directory promise: the data  *)
(* of an entry is stored as soon as it is in memory, a removal perhaps     *)
(* later, and a process that is cut off loses nothing but removals.        *)
(***************************************************************************)
CONSTANTS Name, Value, None

VARIABLES
    stored,   \* the entries that the next process will read
    running,  \* there is a process
    memory,   \* the entries as it has them
    healthy   \* no change has gone unrecorded so far

vars == <<stored, running, memory, healthy>>

Map == [Name -> Value \union {None}]

Init ==
    /\ stored \in Map
    /\ running = FALSE
    /\ memory = stored
    /\ healthy = TRUE

\* A process starts from what is stored.
Begin ==
    /\ ~running
    /\ running' = TRUE
    /\ UNCHANGED <<stored, memory, healthy>>

\* It adds, replaces and removes entries, or brings the store up to date.
\* The store moves towards the memory only, and what has a value in memory is
\* stored.
Change ==
    /\ running
    /\ memory' \in Map
    /\ stored' \in Map
    /\ healthy' \in {healthy, FALSE}
    /\ healthy' => \A n \in Name :
         /\ stored'[n] \in {stored[n], memory'[n]}
         /\ memory'[n] # None => stored'[n] = memory'[n]
    /\ UNCHANGED running

\* The process ends, and with it what was only in memory.
End ==
    /\ running
    /\ running' = FALSE
    /\ memory' = stored
    /\ UNCHANGED <<stored, healthy>>

Next == Begin \/ Change \/ End

Spec == Init /\ [][Next]_vars
=============================================================================
