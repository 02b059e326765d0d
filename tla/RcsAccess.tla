----------------------------- MODULE RcsAccess ------------------------------
(***************************************************************************)
(* Concurrent cvs commands on one repository that uses the lock service:   *)
(* how src/recurse.cpp, src/commit.cpp, src/tag.cpp and src/admin.cpp open,*)
(* lock, parse and rewrite the RCS files with the primitives of            *)
(* src/rcs.cpp and src/lock.cpp.  A user runs a script of commands, each a *)
(* process with a connection of its own; a command makes one or more       *)
(* passes over the user's files.  The lock service is the abstract one of  *)
(* LockTable.tla.  Each read of the file, each answer of the lock service  *)
(* and each change of a file or of the global rcs_lockfile is a step.      *)
(*                                                                         *)
(* A file is modified or added on the trunk; branches, removals and        *)
(* AtomicCheckouts are not part of this module.                            *)
(***************************************************************************)
EXTENDS Naturals, Sequences, SequencesExt, FiniteSets

CONSTANTS
    User,        \* the users, one command at a time each
    File,        \* the RCS files
    Script,      \* the commands of each user, in order
    Visit,       \* the files each user's commands work on, in order
    Stored,      \* the files the repository holds at the start
    Original,    \* the author of the revision those files hold
    None,        \* no process
    WaitLimit,   \* do_lock_server gives up at this many 002 WAITs (20)
    MaxFaults    \* bounds on kills, signals and lost connections

Command == {"update", "tag", "admin", "commit"}

ASSUME ScriptAssumption == Script \in [User -> Seq(Command) \ {<< >>}]
ASSUME VisitAssumption  ==
    /\ Visit \in [User -> Seq(File) \ {<< >>}]
    /\ \A u \in User : \A i, j \in 1 .. Len(Visit[u]) :
         Visit[u][i] = Visit[u][j] => i = j
ASSUME StoredAssumption == Stored \subseteq File
ASSUME NobodyAssumption == None \notin User /\ Original \notin User
ASSUME LimitAssumption  == WaitLimit \in Nat \ {0}
ASSUME FaultAssumption  == MaxFaults \in [kill : Nat, signal : Nat, drop : Nat]

VARIABLES
    disk,      \* the RCS files: what a fopen of `f,v' finds
    lockfile,  \* the process whose output the file `,f,' holds, or None
    locks,     \* the locks the lock service has granted
    pc,        \* where each user's process is
    pos,       \* its command, its pass and its file
    tree,      \* finfo->rcs: the RCS file as it was when fp was opened
    writes,    \* how often it has rewritten the present file
    tries,     \* bWaited of do_lock_server
    err,       \* the first pass found something wrong
    named,     \* rcs_lockfile is set (to the `,f,' of the present file)
    conn,      \* the connection to the lock service is up
    sandbox,   \* the revisions that each user's working file is based on
    faults,    \* kills, signals and lost connections so far
    raced      \* history: the files a command locked after they had changed

nodeVars  == <<tree, writes>>
lockVars  == <<locks, tries, conn>>
diskVars  == <<disk, lockfile, named>>
vars == <<disk, lockfile, locks, pc, pos, tree, writes, tries, err, named,
          conn, sandbox, faults, raced>>

-----------------------------------------------------------------------------
(* State *)

\* An RCS file: the authors of its trunk revisions, and whether the one tag
\* and the one administrative property that commands set are there.
Tree == [exists : BOOLEAN,
         revs   : Seq(User \union {Original}),
         marks  : SUBSET {"tag", "admin"}]

ReadFull      == {"Read", "Full"}
WriteAdvisory == {"Write", "Advisory"}
WriteFull     == {"Write", "Full"}
FlagSets      == {ReadFull, WriteAdvisory, WriteFull}
Lock          == [owner : User, path : File, flags : FlagSets]

Table == INSTANCE LockTable
           WITH Client <- User, Path <- File, MaxId <- 0,
                held <- [l \in locks |-> l], lastId <- 0

\* The recursions each command starts.
Passes(command) ==
    CASE command = "update" -> <<"update">>
      [] command = "tag"    -> <<"look", "tag">>
      [] command = "admin"  -> <<"admin">>
      [] command = "commit" -> <<"check", "commit">>

Kind(u)  == Passes(Script[u][pos[u].cmd])[pos[u].pass]
Here(u)  == Visit[u][pos[u].file]
Base(u)  == sandbox[u][Here(u)]
Added(u) == Base(u) = << >>

Holds(u, f, flags) == [owner |-> u, path |-> f, flags |-> flags] \in locks
LocksOf(u) == {l \in locks : l.owner = u}

Idle    == {"start", "done", "dead"}
Leaving == {"cleanup", "close"}
Working == {"open", "rlock", "proc", "advisory", "advwait", "wlock",
            "create", "rename", "unlock", "reparse", "release", "free"}

Goto(u, label) == pc' = [pc EXCEPT ![u] = label]

Init ==
    /\ disk = [f \in File |-> [exists |-> f \in Stored,
                               revs |-> IF f \in Stored THEN <<Original>> ELSE << >>,
                               marks |-> {}]]
    /\ lockfile = [f \in File |-> None]
    /\ locks = {}
    /\ pc = [u \in User |-> "start"]
    /\ pos = [u \in User |-> [cmd |-> 1, pass |-> 1, file |-> 1]]
    /\ tree = [u \in User |-> [exists |-> FALSE, revs |-> << >>, marks |-> {}]]
    /\ writes = [u \in User |-> 0]
    /\ tries = [u \in User |-> 0]
    /\ err = [u \in User |-> FALSE]
    /\ named = [u \in User |-> FALSE]
    /\ conn = [u \in User |-> FALSE]
    /\ sandbox = [u \in User |-> [f \in File |-> disk[f].revs]]
    /\ faults = [kill |-> 0, signal |-> 0, drop |-> 0]
    /\ raced = {}

-----------------------------------------------------------------------------
(* The lock service seen from a process: lock.cpp *)

Granted(u, flags) ==
    /\ Table!Free(u, Here(u), flags)
    /\ locks' = locks \union {[owner |-> u, path |-> Here(u), flags |-> flags]}

\* Mutant: the 002 WAITs are not counted.
PatientWait(u, flags, next) ==
    /\ \/ /\ conn[u]
          /\ Granted(u, flags)
          /\ tries' = [tries EXCEPT ![u] = 0]
          /\ Goto(u, next)
       \/ /\ conn[u]
          /\ ~Table!Free(u, Here(u), flags)
          /\ UNCHANGED <<locks, tries, pc>>
       \/ /\ ~conn[u]
          /\ Goto(u, "cleanup")
          /\ UNCHANGED <<locks, tries>>
    /\ UNCHANGED conn

\* do_lock_server with wait: one Lock command and its answer.  The last
\* 002 WAIT it puts up with, and a broken connection, are fatal.
LockAndWait(u, flags, next) ==
    /\ \/ /\ conn[u]
          /\ Granted(u, flags)
          /\ tries' = [tries EXCEPT ![u] = 0]
          /\ Goto(u, next)
       \/ /\ conn[u]
          /\ ~Table!Free(u, Here(u), flags)
          /\ tries' = [tries EXCEPT ![u] = @ + 1]
          /\ Goto(u, IF tries[u] + 1 < WaitLimit THEN pc[u] ELSE "cleanup")
          /\ UNCHANGED locks
       \/ /\ ~conn[u]
          /\ Goto(u, "cleanup")
          /\ UNCHANGED <<locks, tries>>
    /\ UNCHANGED conn

\* do_unlock_file of one lock; a broken connection is fatal.
Unlock(u, flags, next) ==
    /\ locks' = {l \in locks : ~(/\ l.owner = u
                                 /\ l.path = Here(u)
                                 /\ l.flags = flags)}
    /\ Goto(u, IF conn[u] THEN next ELSE "cleanup")
    /\ UNCHANGED <<tries, conn>>

\* History: the process is let in after its file has changed on the disk.
NoteRace(u) ==
    raced' = IF locks' # locks /\ tree[u] # disk[Here(u)]
               THEN raced \union {<<u, Here(u)>>} ELSE raced

-----------------------------------------------------------------------------
(* A command starts, parses a file, lets it go, ends *)

\* lock_register_client: connect and log in.
Begin(u) ==
    /\ pc[u] = "start"
    /\ conn' = [conn EXCEPT ![u] = TRUE]
    /\ raced' = {r \in raced : r[1] # u}
    /\ Goto(u, "open")
    /\ UNCHANGED <<locks, tries, diskVars, pos, nodeVars, err, sandbox, faults>>

\* RCS_parse up to the fopen in rcsbuf_open: from here on the process reads
\* the file it has open, whatever happens to the name `f,v'.
Open(u) ==
    /\ pc[u] = "open"
    /\ tree' = [tree EXCEPT ![u] = disk[Here(u)]]
    /\ writes' = [writes EXCEPT ![u] = 0]
    /\ Goto(u, IF disk[Here(u)].exists THEN "rlock" ELSE "proc")
    /\ UNCHANGED <<lockVars, diskVars, pos, err, sandbox, faults, raced>>

\* The end of rcsbuf_open: the read lock, after the fopen.
ReadLock(u) ==
    /\ pc[u] = "rlock"
    /\ LockAndWait(u, ReadFull, "proc")
    /\ NoteRace(u)
    /\ UNCHANGED <<diskVars, pos, nodeVars, err, sandbox, faults>>

\* Mutant: the commit goes on although the check failed.
NextPlaceRegardless(u) ==
    IF pos[u].file < Len(Visit[u])
      THEN [pos[u] EXCEPT !.file = @ + 1]
    ELSE IF pos[u].pass < Len(Passes(Script[u][pos[u].cmd]))
      THEN [cmd |-> pos[u].cmd, pass |-> pos[u].pass + 1, file |-> 1]
    ELSE pos[u]

\* Mutant: one file too many.
NextPlaceTooFar(u) ==
    IF pos[u].file <= Len(Visit[u])
      THEN [pos[u] EXCEPT !.file = @ + 1]
    ELSE IF pos[u].pass < Len(Passes(Script[u][pos[u].cmd])) /\ ~err[u]
      THEN [cmd |-> pos[u].cmd, pass |-> pos[u].pass + 1, file |-> 1]
    ELSE pos[u]

\* The next file of the pass, or the first file of the next pass: only if
\* the pass found nothing wrong ("correct above errors first!").
NextPlace(u) ==
    IF pos[u].file < Len(Visit[u])
      THEN [pos[u] EXCEPT !.file = @ + 1]
    ELSE IF pos[u].pass < Len(Passes(Script[u][pos[u].cmd])) /\ ~err[u]
      THEN [cmd |-> pos[u].cmd, pass |-> pos[u].pass + 1, file |-> 1]
    ELSE pos[u]

\* freercsnode at the end of do_file_proc gives the read lock back.  A file
\* that was not there to be parsed has none.
FreeNode(u) ==
    /\ pc[u] = "free"
    /\ LET next == IF NextPlace(u) = pos[u] THEN "close" ELSE "open" IN
         IF tree[u].exists
           THEN Unlock(u, ReadFull, next)
           ELSE Goto(u, next) /\ UNCHANGED lockVars
    /\ pos' = [pos EXCEPT ![u] = NextPlace(u)]
    /\ UNCHANGED <<diskVars, nodeVars, err, sandbox, faults, raced>>

\* Lock_Cleanup: Close releases every lock.  The user goes on to the next
\* command of the script.
Close(u) ==
    /\ pc[u] = "close"
    /\ locks' = locks \ LocksOf(u)
    /\ conn' = [conn EXCEPT ![u] = FALSE]
    /\ tries' = [tries EXCEPT ![u] = 0]
    /\ err' = [err EXCEPT ![u] = FALSE]
    /\ IF pos[u].cmd < Len(Script[u])
         THEN /\ Goto(u, "start")
              /\ pos' = [pos EXCEPT ![u] = [cmd |-> @.cmd + 1, pass |-> 1, file |-> 1]]
         ELSE Goto(u, "done") /\ UNCHANGED pos
    /\ UNCHANGED <<diskVars, nodeVars, sandbox, faults, raced>>

\* Mutant: rcs_cleanup forgets the file.
LazyCleanup(u) ==
    /\ pc[u] = "cleanup"
    /\ named' = [named EXCEPT ![u] = FALSE]
    /\ Goto(u, "close")
    /\ UNCHANGED <<disk, lockfile, lockVars, pos, nodeVars, err, sandbox, faults, raced>>

\* error_exit, first half: rcs_cleanup unlinks the file rcs_lockfile names,
\* whoever created it.
Cleanup(u) ==
    /\ pc[u] = "cleanup"
    /\ lockfile' = IF named[u] THEN [lockfile EXCEPT ![Here(u)] = None] ELSE lockfile
    /\ named' = [named EXCEPT ![u] = FALSE]
    /\ Goto(u, "close")
    /\ UNCHANGED <<disk, lockVars, pos, nodeVars, err, sandbox, faults, raced>>

-----------------------------------------------------------------------------
(* What the passes do with a parsed file *)

\* update_fileproc: the working file is brought up to the parsed head; a
\* file the user has added is left alone.
UpdateFileproc(u) ==
    /\ pc[u] = "proc"
    /\ Kind(u) = "update"
    /\ sandbox' = IF Added(u) THEN sandbox
                  ELSE [sandbox EXCEPT ![u][Here(u)] = tree[u].revs]
    /\ Goto(u, "free")
    /\ UNCHANGED <<lockVars, diskVars, pos, nodeVars, err, faults, raced>>

\* check_fileproc of tag.cpp: the file must be in the repository.
LookFileproc(u) ==
    /\ pc[u] = "proc"
    /\ Kind(u) = "look"
    /\ err' = [err EXCEPT ![u] = @ \/ ~tree[u].exists]
    /\ Goto(u, "free")
    /\ UNCHANGED <<lockVars, diskVars, pos, nodeVars, sandbox, faults, raced>>

\* Mutant: the commit does not compare the revisions.
CheckSkipped(u) ==
    /\ pc[u] = "proc"
    /\ Kind(u) = "check"
    /\ Goto(u, "advisory")
    /\ UNCHANGED <<err, lockVars, diskVars, pos, nodeVars, sandbox, faults, raced>>

\* check_fileproc of commit.cpp: a modified file must be based on the head
\* and an added one must not have a head.
CheckFileproc(u) ==
    /\ pc[u] = "proc"
    /\ Kind(u) = "check"
    /\ IF Base(u) = tree[u].revs
         THEN Goto(u, "advisory") /\ UNCHANGED err
         ELSE Goto(u, "free") /\ err' = [err EXCEPT ![u] = TRUE]
    /\ UNCHANGED <<lockVars, diskVars, pos, nodeVars, sandbox, faults, raced>>

\* Mutant: the commit does without the lock it does not get at once.
OptionalAdvisory(u) ==
    /\ pc[u] = "advisory"
    /\ IF conn[u] /\ Table!Free(u, Here(u), WriteAdvisory)
         THEN Granted(u, WriteAdvisory) ELSE UNCHANGED locks
    /\ Goto(u, "free")
    /\ NoteRace(u)
    /\ UNCHANGED <<tries, conn, diskVars, pos, nodeVars, err, sandbox, faults>>

\* The advisory lock of a file to commit, first without waiting.  The
\* rcsbuf_close after a refusal closes fp and keeps the read lock.
TryAdvisory(u) ==
    /\ pc[u] = "advisory"
    /\ \/ /\ conn[u]
          /\ Granted(u, WriteAdvisory)
          /\ Goto(u, "free")
       \/ /\ conn[u]
          /\ ~Table!Free(u, Here(u), WriteAdvisory)
          /\ Goto(u, "advwait")
          /\ UNCHANGED locks
       \/ /\ ~conn[u]
          /\ Goto(u, "cleanup")
          /\ UNCHANGED locks
    /\ NoteRace(u)
    /\ UNCHANGED <<tries, conn, diskVars, pos, nodeVars, err, sandbox, faults>>

AwaitAdvisory(u) ==
    /\ pc[u] = "advwait"
    /\ LockAndWait(u, WriteAdvisory, "free")
    /\ NoteRace(u)
    /\ UNCHANGED <<diskVars, pos, nodeVars, err, sandbox, faults>>

\* checkaddfile: add_rcs_file writes an RCS file without revisions under
\* its own name, and RCS_parsercsfile opens it.  The writing, which others
\* could see half done, is one step here.
AddRcsFile(u) ==
    /\ pc[u] = "proc"
    /\ Kind(u) = "commit"
    /\ ~tree[u].exists
    /\ disk' = [disk EXCEPT ![Here(u)].exists = TRUE]
    /\ Goto(u, "open")
    /\ UNCHANGED <<lockfile, named, lockVars, pos, nodeVars, err, sandbox, faults, raced>>

\* Mutant: the file is let go before it is rewritten.
RewriteUnlocked(u) ==
    /\ tree[u].exists
    /\ named' = [named EXCEPT ![u] = TRUE]
    /\ Unlock(u, ReadFull, "wlock")
    /\ UNCHANGED <<disk, lockfile, pos, nodeVars, err, sandbox, faults, raced>>

\* RCS_rewrite of a parsed file begins: rcs_internal_lockfile sets
\* rcs_lockfile first.
StartRewrite(u) ==
    /\ tree[u].exists
    /\ named' = [named EXCEPT ![u] = TRUE]
    /\ Goto(u, "wlock")
    /\ UNCHANGED <<disk, lockfile, lockVars, pos, nodeVars, err, sandbox, faults, raced>>

NothingToDo(u) ==
    /\ Goto(u, "free")
    /\ UNCHANGED <<diskVars, lockVars, pos, nodeVars, err, sandbox, faults, raced>>

\* commit_fileproc: every file has passed the check.
CommitFileproc(u) ==
    /\ pc[u] = "proc"
    /\ Kind(u) = "commit"
    /\ StartRewrite(u)

\* tag_fileproc: a tag that is there stays, an added file has no revision to
\* tag, and a file must be in the repository.
TagFileproc(u) ==
    /\ pc[u] = "proc"
    /\ Kind(u) = "tag"
    /\ IF Added(u) \/ ~tree[u].exists \/ "tag" \in tree[u].marks
         THEN NothingToDo(u) ELSE StartRewrite(u)

\* admin_fileproc: "cannot admin newly added file".
AdminFileproc(u) ==
    /\ pc[u] = "proc"
    /\ Kind(u) = "admin"
    /\ IF Added(u) THEN NothingToDo(u) ELSE StartRewrite(u)

\* What the process writes to `,f,': the checkin adds a revision to the tree
\* it has parsed, tag and admin their mark; the second rewrite of an added
\* file (Checkin with rev set) adds nothing.
Rewritten(u) ==
    CASE Kind(u) \in {"tag", "admin"} -> [tree[u] EXCEPT !.marks = @ \union {Kind(u)}]
      [] Kind(u) = "commit" /\ writes[u] = 0 -> [tree[u] EXCEPT !.revs = Append(@, u)]
      [] OTHER -> tree[u]

\* Mutant: the refusal of the write lock is ignored.
WriteLockIgnored(u) ==
    /\ pc[u] = "wlock"
    /\ IF conn[u] /\ Table!Free(u, Here(u), WriteFull)
         THEN Granted(u, WriteFull) ELSE UNCHANGED locks
    /\ Goto(u, "create")
    /\ UNCHANGED <<tries, conn, diskVars, pos, nodeVars, err, sandbox, faults, raced>>

\* rcs_internal_lockfile: the write lock, in addition to the read lock.
WriteLock(u) ==
    /\ pc[u] = "wlock"
    /\ LockAndWait(u, WriteFull, "create")
    /\ UNCHANGED <<diskVars, pos, nodeVars, err, sandbox, faults, raced>>

\* open with O_EXCL: a `,f,' that is already there is fatal.
Create(u) ==
    /\ pc[u] = "create"
    /\ \/ /\ lockfile[Here(u)] = None
          /\ lockfile' = [lockfile EXCEPT ![Here(u)] = u]
          /\ Goto(u, "rename")
       \/ /\ lockfile[Here(u)] # None
          /\ Goto(u, "cleanup")
          /\ UNCHANGED lockfile
    /\ UNCHANGED <<disk, named, lockVars, pos, nodeVars, err, sandbox, faults, raced>>

\* rcs_internal_unlockfile: the rename puts what the name `,f,' stands for
\* in place of `f,v'; without such a file it is fatal.
Rename(u) ==
    /\ pc[u] = "rename"
    /\ \/ /\ lockfile[Here(u)] # None
          /\ disk' = [disk EXCEPT ![Here(u)] = Rewritten(lockfile[Here(u)])]
          /\ lockfile' = [lockfile EXCEPT ![Here(u)] = None]
          /\ Goto(u, "unlock")
       \/ /\ lockfile[Here(u)] = None
          /\ Goto(u, "cleanup")
          /\ UNCHANGED <<disk, lockfile>>
    /\ UNCHANGED <<named, lockVars, pos, nodeVars, err, sandbox, faults, raced>>

\* ... then gives the write lock back; rcs_lockfile is still set.
WriteUnlock(u) ==
    /\ pc[u] = "unlock"
    /\ Unlock(u, WriteFull, "reparse")
    /\ UNCHANGED <<diskVars, pos, nodeVars, err, sandbox, faults, raced>>

\* RCS_reparsercsfile opens the new file without a new lock.  A checkin of an
\* added file rewrites it once more.
Reparse(u) ==
    /\ pc[u] = "reparse"
    /\ tree' = [tree EXCEPT ![u] = disk[Here(u)]]
    /\ writes' = [writes EXCEPT ![u] = @ + 1]
    /\ LET again == Kind(u) = "commit" /\ Added(u) /\ writes[u] = 0 IN
         /\ named' = [named EXCEPT ![u] = again]
         /\ Goto(u, CASE again -> "wlock"
                      [] ~again /\ Kind(u) = "commit" -> "release"
                      [] OTHER -> "free")
    /\ UNCHANGED <<disk, lockfile, lockVars, pos, err, sandbox, faults, raced>>

\* The end of commit_fileproc: the new revision is registered and the
\* advisory lock given back.
ReleaseAdvisory(u) ==
    /\ pc[u] = "release"
    /\ sandbox' = [sandbox EXCEPT ![u][Here(u)] = tree[u].revs]
    /\ Unlock(u, WriteAdvisory, "free")
    /\ UNCHANGED <<diskVars, pos, nodeVars, err, faults, raced>>

-----------------------------------------------------------------------------
(* Faults *)

\* SIGKILL or a power failure: nothing is cleaned up.
Kill(u) ==
    /\ pc[u] \in Working \union Leaving
    /\ faults.kill < MaxFaults.kill
    /\ faults' = [faults EXCEPT !.kill = @ + 1]
    /\ Goto(u, "dead")
    /\ UNCHANGED <<lockVars, diskVars, pos, nodeVars, err, sandbox, raced>>

\* A signal that is caught: main_cleanup ends in error_exit.
Signal(u) ==
    /\ pc[u] \in Working
    /\ faults.signal < MaxFaults.signal
    /\ faults' = [faults EXCEPT !.signal = @ + 1]
    /\ Goto(u, "cleanup")
    /\ UNCHANGED <<lockVars, diskVars, pos, nodeVars, err, sandbox, raced>>

\* The lock service sees the connection go and drops the client's locks: the
\* process has died, ...
Buried(u) ==
    /\ pc[u] = "dead"
    /\ conn[u]
    /\ conn' = [conn EXCEPT ![u] = FALSE]
    /\ locks' = locks \ LocksOf(u)
    /\ UNCHANGED <<tries, diskVars, pc, pos, nodeVars, err, sandbox, faults, raced>>

\* ... or it has not, and the network or the lock service has failed.  The
\* process finds out at its next command to the lock service.
Drop(u) ==
    /\ pc[u] # "dead"
    /\ conn[u]
    /\ faults.drop < MaxFaults.drop
    /\ faults' = [faults EXCEPT !.drop = @ + 1]
    /\ conn' = [conn EXCEPT ![u] = FALSE]
    /\ locks' = locks \ LocksOf(u)
    /\ UNCHANGED <<tries, diskVars, pc, pos, nodeVars, err, sandbox, raced>>

-----------------------------------------------------------------------------
Step(u) ==
    \/ Begin(u) \/ Open(u) \/ ReadLock(u) \/ FreeNode(u) \/ Close(u) \/ Cleanup(u)
    \/ UpdateFileproc(u) \/ LookFileproc(u) \/ TagFileproc(u) \/ AdminFileproc(u)
    \/ CheckFileproc(u) \/ TryAdvisory(u) \/ AwaitAdvisory(u)
    \/ AddRcsFile(u) \/ CommitFileproc(u) \/ ReleaseAdvisory(u)
    \/ WriteLock(u) \/ Create(u) \/ Rename(u) \/ WriteUnlock(u) \/ Reparse(u)

Finished ==
    /\ \A u \in User : pc[u] \in {"done", "dead"} /\ ~conn[u]
    /\ UNCHANGED vars

Next ==
    \/ \E u \in User : \/ Step(u) \/ Kill(u) \/ Signal(u) \/ Buried(u) \/ Drop(u)
    \/ Finished

\* A process that can run does run (the sleep(1) between two Lock commands
\* ends), and the lock service notices a closed connection.
Fairness == \A u \in User : WF_vars(Step(u)) /\ WF_vars(Buried(u))

Spec == Init /\ [][Next]_vars /\ Fairness

-----------------------------------------------------------------------------
(* Properties *)

\* Types of the state.
TypeOK ==
    /\ disk \in [File -> Tree]
    /\ lockfile \in [File -> User \union {None}]
    /\ locks \subseteq Lock
    /\ pc \in [User -> Idle \union Leaving \union Working]
    /\ pos \in [User -> [cmd : Nat, pass : Nat, file : Nat]]
    /\ \A u \in User : /\ pos[u].cmd \in 1 .. Len(Script[u])
                       /\ pos[u].pass \in 1 .. Len(Passes(Script[u][pos[u].cmd]))
                       /\ pos[u].file \in 1 .. Len(Visit[u])
    /\ tree \in [User -> Tree]
    /\ writes \in [User -> Nat]
    /\ tries \in [User -> Nat]
    /\ err \in [User -> BOOLEAN]
    /\ named \in [User -> BOOLEAN]
    /\ conn \in [User -> BOOLEAN]
    /\ sandbox \in [User -> [File -> Seq(User \union {Original})]]
    /\ faults \in [kill : Nat, signal : Nat, drop : Nat]
    /\ raced \subseteq User \X File

Acts(u) == pc'[u] # pc[u]

\* The step is a checkin of u: the rename that adds u's revision.
Checkin(u) ==
    /\ Kind(u) = "commit" /\ writes[u] = 0
    /\ pc[u] = "rename" /\ pc'[u] = "unlock"

\* `f,v' is created or replaced only by a process that works on it, and,
\* if its connection is up, only when no other process holds any lock on
\* the file: a parsed file does not change under a read lock that was held
\* when it was read, nor under a committer's advisory lock.
WriterAlone ==
    [][\A f \in File : disk'[f] # disk[f] =>
         \E u \in User :
           /\ Acts(u) /\ Here(u) = f
           /\ conn[u] => \A l \in locks : l.path = f => l.owner = u]_vars

\* rcs_cleanup and rename_file remove a `,f,' by its name.  The file is
\* always the process's own, or a dead process left it, or a connection to
\* the lock service was lost: although rcs_lockfile is set before the write
\* lock is granted and cleared after it is given back, the read lock keeps
\* every other writer out meanwhile.
OnlyOwnLockfile ==
    [][\A f \in File : lockfile[f] # None /\ lockfile'[f] # lockfile[f] =>
         \E u \in User :
           /\ Acts(u) /\ Here(u) = f
           /\ \/ lockfile[f] = u
              \/ pc[lockfile[f]] = "dead"
              \/ ~conn[u] \/ ~conn[lockfile[f]]]_vars

\* Whatever happens short of SIGKILL, a process that is gone has not left a
\* `,f,' behind that would stop the next writer.
NoLockfileLeft ==
    \A f \in File : lockfile[f] \in User =>
        pc[lockfile[f]] \in {"rename", "cleanup", "dead"}

\* In its second pass a connected commit holds the advisory lock of every
\* file it still has to check in: it has checked them all, and found nothing
\* wrong.
CommitCoversTree ==
    \A u \in User :
      Kind(u) = "commit" /\ pc[u] \in Working /\ conn[u] =>
        \A i \in (pos[u].file + 1) .. Len(Visit[u]) :
            Holds(u, Visit[u][i], WriteAdvisory)

\* No revision and no tag disappears from an RCS file.
NoLostRevision ==
    [][\A f \in File : /\ IsPrefix(disk[f].revs, disk'[f].revs)
                       /\ disk[f].marks \subseteq disk'[f].marks]_vars

\* While the connections hold, the fopen before the read lock is the only
\* way to lose a revision, and only tag and admin lose one: the second pass
\* of a commit parses the file under its advisory lock.
LostOnlyIfRaced ==
    [][\A f \in File :
         \/ /\ IsPrefix(disk[f].revs, disk'[f].revs)
            /\ disk[f].marks \subseteq disk'[f].marks
         \/ faults.drop > 0
         \/ \E u \in User : /\ Acts(u) /\ Here(u) = f /\ Kind(u) \in {"tag", "admin"}
                            /\ <<u, f>> \in raced]_vars

\* A revision is checked in on top of the one its author has worked from,
\* unless the file had changed before the check's lock was granted or a
\* connection was lost (check_fileproc, RCS_checkin).
UpToDateUnlessRaced ==
    [][\A u \in User : Checkin(u) =>
         \/ Base(u) = disk[Here(u)].revs
         \/ <<u, Here(u)>> \in raced
         \/ faults.drop > 0]_vars

\* The users who were let in to a file that had changed since their fopen; after
\* a connection to the lock service was lost, everybody.
Overtaken == IF faults.drop = 0 THEN raced ELSE User \X File

Log == INSTANCE RevisionLog
         WITH Mark <- {"tag", "admin"},
              revs <- [f \in File |-> disk[f].revs],
              marks <- [f \in File |-> disk[f].marks],
              base <- sandbox,
              overtaken <- Overtaken

\* The commands, with their passes, locks and rewrites, implement a log of
\* revisions: a commit appends its revision in one step, to the very revisions
\* that its author has worked from, although the check is made in another pass,
\* a tag writes back nothing but its mark, and an update gets all of the log;
\* who is overtaken spoils at most the file he was overtaken at.
ImplementsRevisionLog == Log!LogSpec

\* Every command ends: a process waits for a lock at most WaitLimit times,
\* so that commands that wait for each other do not do so for ever.
Termination == \A u \in User : <>(pc[u] \in {"done", "dead"})

-----------------------------------------------------------------------------
(* The inductive invariant of RcsAccessProofs.tla *)

Writing == {"wlock", "create", "rename", "unlock", "reparse"}

\* Locks of two processes on one file are both read locks.
Compatible ==
    \A l, k \in locks : l.path = k.path /\ l.owner # k.owner =>
        l.flags = ReadFull /\ k.flags = ReadFull

\* The lock service keeps locks of connected clients only.
LocksConnected == \A l \in locks : conn[l.owner]

\* rcs_lockfile is set exactly while the file is rewritten.
NamedWhileWriting ==
    \A u \in User : /\ pc[u] \in Writing => named[u]
                    /\ named[u] => pc[u] \in Writing \union {"cleanup", "dead"}

\* The first pass of a commit writes nothing.
CheckWritesNothing ==
    \A u \in User : pc[u] \in Writing \union {"release"} => Kind(u) # "check"

\* A connected process holds its read lock while it works on the file it has
\* parsed, and even while it cleans up after itself.
ReadLocked ==
    \A u \in User : conn[u] =>
        /\ pc[u] = "proc" /\ tree[u].exists => Holds(u, Here(u), ReadFull)
        /\ named[u] => Holds(u, Here(u), ReadFull)

\* A command starts with the first pass over the first file.
AtStart ==
    \A u \in User : pc[u] = "start" => pos[u].pass = 1 /\ pos[u].file = 1

\* A connected process replaces a file under its write lock.
WriteLocked ==
    \A u \in User : conn[u] /\ pc[u] \in {"create", "rename", "unlock"} =>
        Holds(u, Here(u), WriteFull)

\* A commit has the advisory locks of the files it has checked, then of the
\* files it still has to check in.
AdvisoryLocked ==
    \A u \in User : conn[u] /\ pc[u] \in Working =>
        \A i \in 1 .. Len(Visit[u]) :
           \/ /\ Kind(u) = "check" /\ ~err[u]
              /\ i < pos[u].file \/ (i = pos[u].file /\ pc[u] = "free")
           \/ /\ Kind(u) = "commit"
              /\ i > pos[u].file \/ (i = pos[u].file /\ pc[u] # "free")
           => Holds(u, Visit[u][i], WriteAdvisory)

\* A `,f,' belongs to a process that is about to rename it or to unlink it,
\* under its write lock, or to a dead one.
LockfileOwned ==
    \A f \in File : lockfile[f] # None =>
        LET v == lockfile[f] IN
          /\ pc[v] \in {"rename", "cleanup", "dead"}
          /\ Here(v) = f
          /\ pc[v] # "dead" => named[v]
          /\ conn[v] => Holds(v, f, WriteFull)

IndInv ==
    /\ TypeOK
    /\ Compatible
    /\ LocksConnected
    /\ AtStart
    /\ NamedWhileWriting
    /\ CheckWritesNothing
    /\ ReadLocked
    /\ WriteLocked
    /\ AdvisoryLocked
    /\ LockfileOwned

-----------------------------------------------------------------------------
(* The second inductive invariant: while the connections hold, what a process *)
(* has parsed and checked is still so when it writes.                         *)

\* A process at work is connected, and one between two commands is not.
Connected(u) ==
    /\ pc[u] \in Working \union Leaving => conn[u]
    /\ pc[u] \in {"start", "done"} => ~conn[u]

\* Only the second passes rewrite, and only a file that is there.
Rewrites(u) ==
    /\ pc[u] \in Writing => Kind(u) \in {"tag", "admin", "commit"} /\ tree[u].exists
    /\ pc[u] = "release" => Kind(u) = "commit"
    /\ pc[u] = "rename" => lockfile[Here(u)] = u

\* No RCS file goes away.
StillThere(u) ==
    pc[u] \in Working \ {"open"} /\ tree[u].exists => disk[Here(u)].exists

\* One file is read-locked at a time, one that is there, and not before it
\* has been opened.
OneReadLock(u) ==
    /\ pc[u] = "rlock" => tree[u].exists
    /\ \A f \in File : pc[u] \in Working /\ Holds(u, f, ReadFull) =>
         f = Here(u) /\ pc[u] \notin {"open", "rlock"} /\ tree[u].exists

\* Only a commit has advisory locks.
AdvisoryOfCommit(u) ==
    \A f \in File : pc[u] \in Working /\ Holds(u, f, WriteAdvisory) =>
        Script[u][pos[u].cmd] = "commit"

\* A file whose advisory lock is asked for has passed the check.
Checked(u) ==
    pc[u] \in {"advisory", "advwait"} => Kind(u) = "check" /\ Base(u) = tree[u].revs

\* The parsed tree is what the disk holds: a commit parses under its advisory
\* lock, tag and admin may have been overtaken before the read lock.
TreeCurrent(u) ==
    /\ Kind(u) = "commit" /\ pc[u] \in {"rlock", "proc", "wlock", "create", "rename"} =>
         tree[u] = disk[Here(u)]
    /\ \/ pc[u] \in {"wlock", "create", "rename"}
       \/ pc[u] = "proc" /\ tree[u].exists
       => tree[u] = disk[Here(u)] \/ <<u, Here(u)>> \in raced

\* The commit of u has renamed its present file and not yet released it.
CheckedIn(u, f) ==
    /\ Kind(u) = "commit" /\ Here(u) = f
    /\ \/ pc[u] \in {"unlock", "reparse"}
       \/ pc[u] \in {"wlock", "create", "rename", "release"} /\ writes[u] > 0

\* Under the advisory lock the disk holds what the author has worked from.
AdvisoryFresh(u) ==
    \A f \in File : pc[u] \in Working /\ Holds(u, f, WriteAdvisory) =>
        \/ sandbox[u][f] = disk[f].revs
        \/ <<u, f>> \in raced
        \/ CheckedIn(u, f)

Steady(u) ==
    /\ Connected(u) /\ Rewrites(u) /\ StillThere(u) /\ OneReadLock(u)
    /\ AdvisoryOfCommit(u) /\ Checked(u) /\ TreeCurrent(u) /\ AdvisoryFresh(u)

Undropped == faults.drop = 0 => \A u \in User : Steady(u)

-----------------------------------------------------------------------------
(* The third: what a working file is registered with is in the repository.     *)

\* A commit registers what it has just read of the new file; only a file that
\* the user has added can be missing when it is parsed, or on the disk.
Registered(u) ==
    /\ pc[u] = "release" => tree[u].exists /\ tree[u] = disk[Here(u)]
    /\ pc[u] = "proc" /\ ~tree[u].exists => Added(u)
    /\ \A f \in File : ~disk[f].exists => sandbox[u][f] = << >>

AllRegistered == faults.drop = 0 => \A u \in User : Registered(u)
=============================================================================
