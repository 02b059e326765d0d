------------------------------ MODULE LockTable ------------------------------
(***************************************************************************)
(* What the CVSNT lock service promises its clients, with nothing of how   *)
(* it does it: a table of granted locks in which a grant never conflicts   *)
(* with a lock another client holds, every grant has an identifier that    *)
(* was never used before, a lock never changes while it is held, and a     *)
(* step releases locks of one client only.                                 *)
(*                                                                         *)
(* LockServer.tla (lockservice/LockParse.cpp) implements this              *)
(* specification; RcsAccess.tla (src/rcs.cpp, src/commit.cpp) takes it as  *)
(* the lock service its processes talk to.                                 *)
(***************************************************************************)
EXTENDS Naturals

CONSTANTS
    Client,     \* the clients of the lock service
    Path,       \* the paths (RCS files) that are locked
    FlagSets,   \* the combinations of flags that requests carry
    MaxId       \* bound on the identifiers

VARIABLES
    held,       \* the locks granted and not yet released, by identifier
    lastId      \* the largest identifier used up so far

tableVars == <<held, lastId>>

\* A lock of another client stands in the way of a request (request_lock): a
\* write waits for every write and for every full read, a read waits for
\* every write.
Blocks(lock, client, path, flags) ==
    /\ lock.path = path
    /\ lock.owner # client
    /\ IF "Write" \in flags
         THEN "Write" \in lock.flags \/ {"Read", "Full"} \subseteq lock.flags
         ELSE "Write" \in lock.flags

Free(client, path, flags) ==
    \A id \in DOMAIN held : ~Blocks(held[id], client, path, flags)

TableInit ==
    /\ held = [id \in {} |-> id]
    /\ lastId = 0

\* An identifier is used up, with or without a grant.
FreshId == lastId' \in (lastId + 1) .. MaxId

\* A lock that nobody stands in the way of is granted.
Acquire(client, path, flags) ==
    /\ Free(client, path, flags)
    /\ FreshId
    /\ held' = [id \in DOMAIN held \union {lastId'} |->
                  IF id = lastId'
                    THEN [owner |-> client, path |-> path, flags |-> flags]
                    ELSE held[id]]

Waste ==
    /\ FreshId
    /\ UNCHANGED held

\* Some or all of the locks of one client, and of no other, are released.
Release(client) ==
    /\ \E ids \in SUBSET {id \in DOMAIN held : held[id].owner = client} :
         held' = [id \in DOMAIN held \ ids |-> held[id]]
    /\ UNCHANGED lastId

TableNext ==
    \/ \E client \in Client, path \in Path, flags \in FlagSets :
         Acquire(client, path, flags)
    \/ Waste
    \/ \E client \in Client : Release(client)

TableSpec == TableInit /\ [][TableNext]_tableVars
=============================================================================
