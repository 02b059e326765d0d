--------------------------- MODULE AtomicCheckout ---------------------------
(***************************************************************************)
(* Checkouts that are to see a commit entirely or not at all: the cvs      *)
(* processes (src/rcs.cpp, commit.cpp, lock.cpp, with AtomicCheckouts set) *)
(* on top of the lock service, LockServer.tla.  A commit reports each      *)
(* revision with Modified before the new RCS file gets its name; whoever   *)
(* locks the file while that commit is connected is told the revision      *)
(* before it and takes that for the head.                                  *)
(*                                                                         *)
(* Each socket belongs to one process with one command, an update or a     *)
(* commit, on the trunk.  Locks are asked for again until they are granted *)
(* or the process is killed.  A connection that the service fails to       *)
(* register is not part of it, nor is a file that a commit adds.           *)
(***************************************************************************)
EXTENDS LockServer

CONSTANTS
    Trunk,      \* the branch HEAD
    Jobs,       \* what the processes may be asked to do together
    Original,   \* the author of the one revision that a file has at first
    MaxKill     \* bound on the number of processes killed

ReadFull      == {"Read", "Full"}
WriteFull     == {"Write", "Full"}
WriteAdvisory == {"Write", "Advisory"}

\* The command of a process and the files it goes through, in its order.
Job == [kind : {"update", "commit"}, files : Seq(Path)]

ASSUME JobAssumption ==
    \A j \in Jobs : /\ j \in [Sock -> Job]
                    /\ \A s \in Sock : \A m, n \in DOMAIN j[s].files :
                         j[s].files[m] = j[s].files[n] => m = n
ASSUME NameAssumption == Original \notin Sock /\ Trunk \in Branch
ASSUME VersionAssumption == Version = Nat
ASSUME FlagsUsed == FlagSets = {ReadFull, WriteFull, WriteAdvisory}

VARIABLES
    job,        \* what each process has to do
    repo,       \* the authors of the revisions of each RCS file
    pc,         \* where each process is
    pass,       \* a commit checks all files and then commits all
    pos,        \* the place of its current file
    tree,       \* that file as it was opened
    got,        \* the revisions an update has taken
    \* history
    over,       \* the commits that ended while a process was connected
    hidden,     \* <<s, c>>: s got a file with a revision of c that it was not told of
    shown,      \* the commits that were told of another's revision in their check
    raced       \* the processes whose file was replaced between fopen and lock

commands == <<job, repo, pc, pass, pos, tree, got>>
history  == <<over, hidden, shown, raced>>
system   == <<vars, commands, history>>

SystemInit ==
    /\ Init
    /\ job \in Jobs
    /\ repo = [f \in Path |-> <<Original>>]
    /\ pc = [s \in Sock |-> "connect"]
    /\ pass = [s \in Sock |-> "check"] /\ pos = [s \in Sock |-> 1]
    /\ tree = [s \in Sock |-> << >>]
    /\ got = [s \in Sock |-> [f \in Path |-> << >>]]
    /\ over = [s \in Sock |-> {}] /\ hidden = {} /\ shown = {} /\ raced = {}

Kind(s)     == job[s].kind
Files(s)    == job[s].files
Here(s)     == Files(s)[pos[s]]
Goto(s, to) == pc' = [pc EXCEPT ![s] = to]

\* The lock of the process on its file, and the transactions of others on it.
LockOf(s, flags) ==
    CHOOSE id \in DOMAIN LockMap :
      LockMap[id].owner = ClientOf(s) /\ LockMap[id].path = Here(s) /\ LockMap[id].flags = flags
Owner(c) == {s \in DOMAIN SockToClient : SockToClient[s] = c}

-----------------------------------------------------------------------------
(* The connection *)

\* lock_register_client: the service accepts the connection and reads its clock.
Register(s) ==
    /\ pc[s] = "connect" /\ Files(s) # << >>
    /\ \/ Accept(s) \/ LockTimeCompare(s) \/ LockTimeStore(s)
       \/ LockTimeCopy(s) \/ OpenLockClient(s)
    /\ UNCHANGED <<commands, history>>

Login(s) ==
    /\ pc[s] = "connect"
    /\ \E root \in Root : DoClient(s, root)
    /\ Goto(s, "open")
    /\ UNCHANGED <<job, repo, pass, pos, tree, got, history>>

ClockTick == Tick /\ UNCHANGED <<commands, history>>

\* The service finds the connection closed, by the end of the process or by its
\* death, and forgets its locks and transactions.
Disconnect(s) ==
    /\ pc[s] \in {"end", "dead"}
    /\ CloseLockClient(s)
    /\ over' = [t \in Sock |-> IF t \in DOMAIN SockToClient THEN over[t] \union {s} ELSE over[t]]
    /\ pc' = [pc EXCEPT ![s] = IF @ = "end" THEN "done" ELSE @]
    /\ UNCHANGED <<job, repo, pass, pos, tree, got, hidden, shown, raced>>

-----------------------------------------------------------------------------
(* One file: RCS_parse, the head, and the end of it *)

\* fopen in rcsbuf_open, before the lock is asked for.
Open(s) ==
    /\ pc[s] = "open"
    /\ tree' = [tree EXCEPT ![s] = repo[Here(s)]]
    /\ Goto(s, "lock")
    /\ UNCHANGED <<vars, job, repo, pass, pos, got, history>>

\* The commits whose transaction on the file is not the one that the service
\* looks at: it is not the first, or its client seems to be of another time.
NotTold(s) ==
    {c \in Sock \ {s} :
       \E i \in DOMAIN TransactionList :
         /\ TransactionList[i].path = Here(s) /\ c \in Owner(TransactionList[i].owner)
         /\ i \notin SeenBy(ClientOf(s), Here(s), ReadFull)}

ReadLock(s) ==
    /\ pc[s] = "lock"
    /\ LockGranted(s, Here(s), ReadFull)
    /\ Goto(s, IF Kind(s) = "update" THEN "head" ELSE IF pass[s] = "commit" THEN "wlock" ELSE "check")
    /\ hidden' = hidden \union ({s} \X NotTold(s))
    /\ raced' = IF tree[s] = repo[Here(s)] THEN raced ELSE raced \union {s}
    /\ UNCHANGED <<job, repo, pass, pos, tree, got, over, shown>>

\* RCS_head: the version that the service tells, if any.
HeadVersion(s) ==
    LET told == LockMap[LockOf(s, ReadFull)].versions IN
    IF Trunk \in DOMAIN told THEN told[Trunk] ELSE Len(tree[s])

\* Mutant: the service is not asked.
TakeTree(s) ==
    /\ pc[s] = "head"
    /\ got' = [got EXCEPT ![s][Here(s)] = tree[s]]
    /\ Goto(s, "free")
    /\ UNCHANGED <<vars, job, repo, pass, pos, tree, history>>

\* update takes the head; a revision that is not in the tree is not there.
TakeHead(s) ==
    /\ pc[s] = "head"
    /\ got' = [got EXCEPT ![s][Here(s)] =
                 IF HeadVersion(s) <= Len(tree[s]) THEN SubSeq(tree[s], 1, HeadVersion(s)) ELSE << >>]
    /\ Goto(s, "free")
    /\ UNCHANGED <<vars, job, repo, pass, pos, tree, history>>

\* The number of the revision that every user works from.
Base == 1

\* Mutant: a file that is not up to date is committed.
CheckNothing(s) ==
    /\ pc[s] = "check"
    /\ Goto(s, "advisory")
    /\ shown' = IF HeadVersion(s) = Len(tree[s]) THEN shown ELSE shown \union {s}
    /\ UNCHANGED <<vars, job, repo, pass, pos, tree, got, over, hidden, raced>>

\* check_fileproc of commit: the file is up to date, or the commit ends after
\* the other files have been checked.
Check(s) ==
    /\ pc[s] = "check"
    /\ \/ HeadVersion(s) = Base /\ Goto(s, "advisory") /\ UNCHANGED pass
       \/ /\ HeadVersion(s) # Base
          /\ Goto(s, "free") /\ pass' = [pass EXCEPT ![s] = "failed"]
    /\ shown' = IF HeadVersion(s) = Len(tree[s]) THEN shown ELSE shown \union {s}
    /\ UNCHANGED <<vars, job, repo, pos, tree, got, over, hidden, raced>>

\* do_lock_advisory, which waits for locks and for transactions.
Advisory(s) ==
    /\ pc[s] = "advisory"
    /\ \/ LockGranted(s, Here(s), WriteAdvisory) /\ Goto(s, "free")
       \/ LockWaitsForTransaction(s, Here(s), WriteAdvisory) /\ UNCHANGED pc
    /\ UNCHANGED <<job, repo, pass, pos, tree, got, history>>

\* freercsnode gives the read lock back, and the next file or pass follows.
Free(s) ==
    /\ pc[s] = "free"
    /\ DoUnlock(s, LockOf(s, ReadFull))
    /\ \/ /\ pos[s] < Len(Files(s))
          /\ pos' = [pos EXCEPT ![s] = @ + 1]
          /\ Goto(s, "open") /\ UNCHANGED pass
       \/ /\ pos[s] = Len(Files(s)) /\ Kind(s) = "commit" /\ pass[s] = "check"
          /\ pos' = [pos EXCEPT ![s] = 1]
          /\ pass' = [pass EXCEPT ![s] = "commit"]
          /\ Goto(s, "open")
       \/ /\ pos[s] = Len(Files(s)) /\ (Kind(s) = "update" \/ pass[s] # "check")
          /\ Goto(s, "end") /\ UNCHANGED <<pass, pos>>
    /\ UNCHANGED <<job, repo, tree, got, history>>

-----------------------------------------------------------------------------
(* RCS_rewrite, in the second pass of a commit *)

WriteLock(s) ==
    /\ pc[s] = "wlock"
    /\ \/ LockGranted(s, Here(s), WriteFull) /\ Goto(s, "modified")
       \/ LockWaitsForTransaction(s, Here(s), WriteFull) /\ UNCHANGED pc
    /\ UNCHANGED <<job, repo, pass, pos, tree, got, history>>

\* Mutant: the new version is reported as the old one.
ModifiedNew(s) ==
    /\ pc[s] = "modified"
    /\ DoModified(s, LockOf(s, WriteFull), Trunk, Len(tree[s]) + 1)
    /\ Goto(s, "rename")
    /\ UNCHANGED <<job, repo, pass, pos, tree, got, history>>

\* do_modified, with the revision that the new one follows.
Modified(s) ==
    /\ pc[s] = "modified"
    /\ DoModified(s, LockOf(s, WriteFull), Trunk, Len(tree[s]))
    /\ Goto(s, "rename")
    /\ UNCHANGED <<job, repo, pass, pos, tree, got, history>>

Rename(s) ==
    /\ pc[s] = "rename"
    /\ repo' = [repo EXCEPT ![Here(s)] = Append(tree[s], s)]
    /\ Goto(s, "wunlock")
    /\ UNCHANGED <<vars, job, pass, pos, tree, got, history>>

WriteUnlock(s) ==
    /\ pc[s] = "wunlock"
    /\ DoUnlock(s, LockOf(s, WriteFull))
    /\ Goto(s, "aunlock")
    /\ UNCHANGED <<job, repo, pass, pos, tree, got, history>>

\* do_unlock_file at the end of commit_fileproc.
AdvisoryUnlock(s) ==
    /\ pc[s] = "aunlock"
    /\ DoUnlock(s, LockOf(s, WriteAdvisory))
    /\ Goto(s, "free")
    /\ UNCHANGED <<job, repo, pass, pos, tree, got, history>>

-----------------------------------------------------------------------------
\* A process dies, or gives up waiting.
Kill(s) ==
    /\ pc[s] \notin {"connect", "end", "done", "dead"}
    /\ Cardinality({t \in Sock : pc[t] = "dead"}) < MaxKill
    /\ Goto(s, "dead")
    /\ UNCHANGED <<vars, job, repo, pass, pos, tree, got, history>>

Step(s) ==
    \/ Register(s) \/ Login(s) \/ Disconnect(s)
    \/ Open(s) \/ ReadLock(s) \/ TakeHead(s) \/ Check(s) \/ Advisory(s) \/ Free(s)
    \/ WriteLock(s) \/ Modified(s) \/ Rename(s) \/ WriteUnlock(s) \/ AdvisoryUnlock(s)

SystemNext == ClockTick \/ \E s \in Sock : Step(s) \/ Kill(s)

SystemSpec == SystemInit /\ [][SystemNext]_system

-----------------------------------------------------------------------------
(* Properties *)

\* The revision of commit c is in what update u has of file f.
Has(u, f, c) == \E i \in DOMAIN got[u][f] : got[u][f][i] = c

Touched(c) == {Files(c)[i] : i \in DOMAIN Files(c)}

Mixed(u, c) ==
    \E f, g \in Touched(c) \intersect Touched(u) : Has(u, f, c) /\ ~Has(u, g, c)

Updated(u) == Kind(u) = "update" /\ pc[u] \in {"end", "done"}

\* An update gets all the changes of a commit or none of them, unless that
\* commit ended while the update ran, or was killed, or had a transaction that
\* the update was not told of: the service forgets a transaction with its
\* client and compares the times of clients the wrong way round.  For the same
\* reason a commit can be made on top of a transaction that it was not told
\* of, and an update that is told of that transaction misses both; and it has
\* no revision at all of a file it opened too early for what it was told.
AtomicWhileOpen ==
    \A u, c \in Sock :
      Updated(u) /\ Kind(c) = "commit" /\ Mixed(u, c) =>
        \/ c \in over[u] \/ <<u, c>> \in hidden \/ pc[c] = "dead"
        \/ \E d \in Sock : <<c, d>> \in hidden
        \/ \E f \in Touched(u) : got[u][f] = << >>

\* "an update by someone else will either get all the changes, or none of them".
AllOrNothing ==
    \A u, c \in Sock : Updated(u) /\ pc[c] = "done" => ~Mixed(u, c)

\* An update does not take a revision of a commit that has not ended, unless it
\* was not told of it.
NothingUnfinished ==
    \A u \in Sock :
      pc[u] = "head" =>
        \A i \in 1 .. HeadVersion(u) :
          i \in DOMAIN tree[u] /\ tree[u][i] \in DOMAIN SockToClient
            => <<u, tree[u][i]>> \in hidden

\* A commit adds its revision to the one its author has worked from, unless its
\* check was told an old version, which is not looked at again, or its file was
\* replaced before a lock was granted.
UpToDateUnlessShown ==
    [][\A s \in Sock :
         Rename(s) => \/ Len(tree[s]) = Base
                      \/ s \in shown \union raced]_system

-----------------------------------------------------------------------------
(* The inductive invariant of AtomicCheckoutProofs, on top of that of the  *)
(* lock service                                                            *)

Author  == Sock \union {Original}
Reading == {"head", "check", "advisory", "free"}
Writing == {"wlock", "modified", "rename", "wunlock", "aunlock"}
Working == {"open", "lock"} \union Reading \union Writing

StateOK ==
    /\ job \in [Sock -> Job]
    /\ \A s \in Sock : \A m, n \in DOMAIN Files(s) : Files(s)[m] = Files(s)[n] => m = n
    /\ repo \in [Path -> Seq(Author)] /\ tree \in [Sock -> Seq(Author)]
    /\ got \in [Sock -> [Path -> Seq(Author)]]
    /\ pc \in [Sock -> Working \union {"connect", "end", "done", "dead"}]
    /\ pass \in [Sock -> {"check", "commit", "failed"}] /\ pos \in [Sock -> Nat]
    /\ over \in [Sock -> SUBSET Sock] /\ hidden \subseteq Sock \X Sock
    /\ shown \subseteq Sock /\ raced \subseteq Sock

\* The process is connected; the lock is one of its locks; it has such a lock;
\* it has reported that it replaces the version.
Up(s)         == s \in DOMAIN SockToClient
IsLock(s, id) == Up(s) /\ id \in DOMAIN LockMap /\ LockMap[id].owner = SockToClient[s]
IsRead(s, id) == IsLock(s, id) /\ LockMap[id].flags = ReadFull
Holds(s, f, flags) ==
    \E id \in DOMAIN LockMap : IsLock(s, id) /\ LockMap[id].path = f /\ LockMap[id].flags = flags
Wrote(s, f, v) ==
    /\ Up(s)
    /\ \E i \in DOMAIN TransactionList :
         /\ TransactionList[i].owner = SockToClient[s] /\ TransactionList[i].path = f
         /\ TransactionList[i].oldversion = v

\* Where a process is, what it is connected to and what it does there.
Placed(s) ==
    /\ pc[s] \in Working \union {"end"} => Up(s)
    /\ pc[s] = "done" => ~Up(s)
    /\ Up(s) => Files(s) # << >>
    /\ pc[s] = "connect" => pos[s] = 1 /\ pass[s] = "check"
    /\ pc[s] \in Working => pos[s] \in DOMAIN Files(s)
    /\ pc[s] \in {"end", "done"} => pos[s] = Len(Files(s))
    /\ pc[s] = "head" => Kind(s) = "update"
    /\ pc[s] \in {"check", "advisory"} => Kind(s) = "commit" /\ pass[s] # "commit"
    /\ pc[s] \in Writing => pass[s] = "commit"
    /\ pass[s] # "check" => Kind(s) = "commit"

\* It has one read lock while it works on a file, and none otherwise.
ReadLocked(s) ==
    /\ pc[s] \in Reading \union Writing => Holds(s, Here(s), ReadFull)
    /\ pc[s] # "dead" => \A x, y \in DOMAIN LockMap :
         IsRead(s, x) /\ IsRead(s, y) => pc[s] \in Reading \union Writing /\ x = y

\* It replaces a file under its write lock.
WriteLocked(s) ==
    pc[s] \in {"modified", "rename", "wunlock"} => Holds(s, Here(s), WriteFull)

\* The files that a commit has checked and not yet committed, ...
Awaiting(s, i) ==
    /\ pc[s] \in Working /\ Kind(s) = "commit" /\ i \in DOMAIN Files(s)
    /\ \/ pass[s] = "check" /\ (i < pos[s] \/ (i = pos[s] /\ pc[s] = "free"))
       \/ pass[s] = "commit" /\ (i > pos[s] \/ (i = pos[s] /\ pc[s] # "free"))

\* ... whose advisory locks it has, and which are still what was checked, as long as
\* it has not replaced them itself.
Covered(s) ==
    \A i \in DOMAIN Files(s) : Awaiting(s, i) =>
      /\ Holds(s, Files(s)[i], WriteAdvisory)
      /\ \/ i = pos[s] /\ pc[s] \in {"wunlock", "aunlock"}
         \/ Len(repo[Files(s)[i]]) = Base
         \/ s \in shown \union raced

\* What was opened is a beginning of the file, and in the second pass it is the file.
Begins(t, r) == Len(t) <= Len(r) /\ \A i \in 1 .. Len(t) : t[i] = r[i]
Opened(s) ==
    /\ pc[s] \in {"lock", "head", "check", "advisory", "wlock", "modified", "rename"} =>
         Begins(tree[s], repo[Here(s)])
    /\ pc[s] \in {"lock", "wlock", "modified", "rename"} /\ pass[s] = "commit" =>
         tree[s] = repo[Here(s)]
    /\ pc[s] \in {"check", "advisory"} => tree[s] = repo[Here(s)] \/ s \in raced
    /\ pc[s] = "advisory" => Len(tree[s]) = Base \/ s \in shown

CommandHolds(s) ==
    Placed(s) /\ ReadLocked(s) /\ WriteLocked(s) /\ Covered(s) /\ Opened(s)

CommandInv == IndInv /\ StateOK /\ \A s \in Sock : CommandHolds(s)

-----------------------------------------------------------------------------
(* The transactions and the revisions *)

\* A revision is of a commit in its second pass, which has reported it as long as
\* it is connected.
RevisionsReported ==
    \A f \in Path : \A k \in DOMAIN repo[f] :
      repo[f][k] \in Sock =>
        /\ pc[repo[f][k]] # "connect" /\ pass[repo[f][k]] = "commit"
        /\ Up(repo[f][k]) => Wrote(repo[f][k], f, k - 1)

OnTrunk == \A i \in DOMAIN TransactionList : TransactionList[i].branch = Trunk

ReportsFirst(s) == pc[s] = "rename" => Wrote(s, Here(s), Len(tree[s]))

\* The head that the process would take by that lock.
HeadBy(s, id) ==
    LET told == LockMap[id].versions IN
    IF Trunk \in DOMAIN told THEN told[Trunk] ELSE Len(tree[s])

HeadIsFinished(u) ==
    pc[u] = "head" => \A id \in DOMAIN LockMap : IsRead(u, id) =>
      \A i \in DOMAIN tree[u] :
        i <= HeadBy(u, id) /\ tree[u][i] \in Sock /\ Up(tree[u][i]) => <<u, tree[u][i]>> \in hidden

ReportInv ==
    /\ RevisionsReported /\ OnTrunk
    /\ \A s \in Sock : ReportsFirst(s) /\ HeadIsFinished(s)

-----------------------------------------------------------------------------
(* The updates *)

\* The commit was not told of another's transaction.
Blind(c) == \E d \in Sock : <<c, d>> \in hidden

Sees(c, e) == Overlaps(SockToClient[e], SockToClient[c])

\* A commit has not reported the files that it has still to replace, ...
NotYet(c) ==
    \A j \in DOMAIN Files(c), v \in Nat :
      Wrote(c, Files(c)[j], v) =>
        /\ pass[c] = "commit"
        /\ pc[c] \in Working => /\ j <= pos[c]
                                /\ j = pos[c] => pc[c] \notin {"open", "lock", "wlock", "modified"}

\* ... and has replaced the others.
Replaced(c) ==
    \A j \in DOMAIN Files(c) :
      /\ pass[c] = "commit"
      /\ \/ j < pos[c]
         \/ j = pos[c] /\ pc[c] \in {"wunlock", "aunlock", "free", "end", "done"}
      => \E k \in DOMAIN repo[Files(c)[j]] : repo[Files(c)[j]][k] = c

\* It was told of the transactions of others on its file, or not; and then it
\* replaces the file only if there is none, or it was not told.
Aware(c) ==
    /\ pc[c] = "wlock" => \A e \in Sock \ {c}, v \in Nat :
         Wrote(e, Here(c), v) => <<c, e>> \in hidden \/ Sees(c, e)
    /\ pc[c] \in {"modified", "rename"} =>
         Blind(c) \/ \A e \in Sock \ {c}, v \in Nat : ~Wrote(e, Here(c), v)

\* A revision on top of an open transaction is of a commit that was not told.
OnTopIsBlind ==
    \A d \in Sock, f \in Path, v \in Nat :
      Wrote(d, f, v) => \A k \in DOMAIN repo[f] :
        k > v /\ repo[f][k] \in Sock \ {d} => Blind(repo[f][k])

Finished(c) == pc[c] = "done" /\ pass[c] = "commit"

\* What an update opens has the revision of every commit that ended before it
\* began; a revision after the version it is told is of a commit that had not.
Loaded(u) ==
    /\ Kind(u) = "update" /\ pc[u] \in {"lock", "head"} =>
         \A c \in Sock : Finished(c) /\ c \notin over[u] /\ Here(u) \in Touched(c) =>
           \E k \in DOMAIN tree[u] : tree[u][k] = c
    /\ pc[u] = "head" => \A id \in DOMAIN LockMap : IsRead(u, id) =>
         \A k \in DOMAIN tree[u] : k > HeadBy(u, id) /\ tree[u][k] \in Sock =>
           Up(tree[u][k]) \/ tree[u][k] \in over[u] \/ Blind(tree[u][k])

\* The files that an update has taken have the commits that ended before it began,
\* and no others.
Taken(u, j) ==
    /\ Kind(u) = "update" /\ pc[u] \in Working \union {"end"} /\ j \in DOMAIN Files(u)
    /\ j < pos[u] \/ (j = pos[u] /\ pc[u] \in {"free", "end"})
TakenHolds(u) ==
    \A j \in DOMAIN Files(u) : Taken(u, j) =>
      LET f == Files(u)[j] IN \A c \in Sock :
        /\ Has(u, f, c) => \/ pc[c] \in {"done", "dead"} /\ pass[c] = "commit"
                           \/ <<u, c>> \in hidden
        /\ Finished(c) /\ f \in Touched(c) =>
             c \in over[u] \/ Blind(c) \/ Has(u, f, c) \/ got[u][f] = << >>

AtomicInv ==
    /\ OnTopIsBlind /\ AtomicWhileOpen
    /\ \A s \in Sock : NotYet(s) /\ Replaced(s) /\ Aware(s) /\ Loaded(s) /\ TakenHolds(s)
=============================================================================
